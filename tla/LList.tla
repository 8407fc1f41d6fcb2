------------------------------- MODULE LList -------------------------------
(***************************************************************************)
(* The linked list of ds_llist.c: a chain of nodes, a counter of them, one *)
(* mutex and one condition variable for both sides.  The rooms of the      *)
(* dungeon, the requests of an imp and the buffers of a connection are     *)
(* such lists.                                                             *)
(*                                                                         *)
(* As in Queue a critical section is one action between Lock and unlock.   *)
(* A _nb call takes the mutex with trylock and gives up when it is held.   *)
(* The chain is what the next pointers lead to, nr_nodes what the code     *)
(* believes its length to be; the history variable lost, which no guard    *)
(* reads, remembers that llist_fetch_match has lost nodes.                 *)
(***************************************************************************)
EXTENDS Naturals, Sequences

CONSTANTS
    Threads,    \* the threads that call the list
    Data,       \* the pointers they store
    NoData,     \* no pointer
    NoThread,   \* the owner of a free mutex
    Volume,     \* ll->volume
    MayCall,    \* MayCall[t]: the operations thread t calls
    Accepts     \* Accepts[d]: what the comparison of a fetch_match for d accepts

ASSUME VolumeAssumption == Volume \in Nat \ {0}
ASSUME AcceptsAssumption == Accepts \in [Data -> SUBSET Data]
ASSUME NamesAssumption == NoData \notin Data /\ NoThread \notin Threads

VARIABLES
    chain,      \* the ptr of each node, from dumb.next on
    nr_nodes,
    lost,       \* a llist_fetch_match has cut off nodes before its match
    lock,       \* the thread that holds ll->lock
    pc,         \* where each thread is
    req,        \* req[t]: the call t is inside of
    res         \* res[t]: what the last call of t returned

list == <<chain, nr_nodes, lost>>
vars == <<list, lock, pc, req, res>>

Shared == INSTANCE SharedList WITH items <- chain

AppendOps == Shared!AppendOps
GetOps    == Shared!GetOps
FetchOps  == Shared!FetchOps
TryOps    == Shared!TryOps
Ok(d)     == Shared!Result("ok", d)
Refused   == Shared!Result("refused", NoData)

ASSUME CallAssumption ==
    MayCall \in [Threads -> SUBSET (AppendOps \cup GetOps \cup FetchOps
                                      \cup {"fetch_match", "delete"})]

-----------------------------------------------------------------------------
(* Definitions whose names end in _Bug are what a slip in the code would   *)
(* give; each stands before the definition it varies and is part of no     *)
(* specification.  They show that a property can fail.                     *)

Init ==
    /\ chain = <<>> /\ nr_nodes = 0 /\ lost = FALSE
    /\ lock = NoThread
    /\ pc = [t \in Threads |-> "idle"]
    /\ req = [t \in Threads |-> Shared!NoReq]
    /\ res = [t \in Threads |-> Shared!NoRes]

Waiting == {t \in Threads : pc[t] = "wait"}

(* llist_append, llist_get_head, llist_fetch_head and llist_fetch_match    *)
(* signal the condition variable, whatever they did, and the _nb calls     *)
(* never do; then unlock and return.                                       *)
SignalAndReturn(t, result) ==
    /\ \/ (req[t].op \in TryOps \/ Waiting = {}) /\ pc' = [pc EXCEPT ![t] = "idle"]
       \/ /\ req[t].op \notin TryOps
          /\ \E w \in Waiting : pc' = [pc EXCEPT ![t] = "idle", ![w] = "relock"]
    /\ lock' = NoThread
    /\ Shared!Return(t, result)

Call(t) ==
    /\ pc[t] = "idle"
    /\ \A u \in Threads : req[u].op # "delete"
    /\ \E r \in Shared!Requests :
        /\ r.op \in MayCall[t]
        /\ r.op = "delete" => \A u \in Threads : pc[u] = "idle"
        /\ req' = [req EXCEPT ![t] = r]
        /\ pc' = [pc EXCEPT ![t] = IF r.op \in TryOps THEN "trylock"
                                   ELSE IF r.op = "delete" THEN "delete" ELSE "lock"]
    /\ res' = [res EXCEPT ![t] = Shared!NoRes]
    /\ UNCHANGED <<list, lock>>

(* pthread_mutex_lock, and the lock pthread_cond_wait takes as it returns. *)
Lock(t) ==
    /\ pc[t] \in {"lock", "relock"}
    /\ lock = NoThread
    /\ lock' = t
    /\ pc' = [pc EXCEPT ![t] = "locked"]
    /\ UNCHANGED <<list, req, res>>

TryLock(t) ==
    /\ pc[t] = "trylock"
    /\ IF lock = NoThread
         THEN /\ lock' = t
              /\ pc' = [pc EXCEPT ![t] = "locked"]
              /\ UNCHANGED <<req, res>>
         ELSE /\ pc' = [pc EXCEPT ![t] = "idle"]
              /\ Shared!Return(t, Refused)
              /\ UNCHANGED lock
    /\ UNCHANGED list

Blocked(t) == IF req[t].op \in AppendOps THEN nr_nodes >= Volume ELSE nr_nodes <= 0

Wait(t) ==
    /\ pc[t] = "locked"
    /\ req[t].op \in {"append", "get_head", "fetch_head"}
    /\ Blocked(t)
    /\ lock' = NoThread
    /\ pc' = [pc EXCEPT ![t] = "wait"]
    /\ UNCHANGED <<list, req, res>>

(* llist_append_unlocked; without memory for a node it returns -1.         *)
AppendNode(t) ==
    /\ pc[t] = "locked" /\ req[t].op \in AppendOps
    /\ ~Blocked(t)
    /\ \/ /\ chain' = Append(chain, req[t].data)
          /\ nr_nodes' = nr_nodes + 1
          /\ SignalAndReturn(t, Ok(NoData))
          /\ UNCHANGED lost
       \/ SignalAndReturn(t, Refused) /\ UNCHANGED list

(* llist_get_head_unlocked.                                                *)
GetHead(t) ==
    /\ pc[t] = "locked" /\ req[t].op \in GetOps
    /\ ~Blocked(t) /\ chain # <<>>
    /\ SignalAndReturn(t, Ok(Head(chain)))
    /\ UNCHANGED list

(* llist_fetch_head_unlocked.                                              *)
FetchHead_Bug(t) ==
    /\ pc[t] = "locked" /\ req[t].op \in FetchOps
    /\ ~Blocked(t) /\ chain # <<>>
    /\ chain' = Tail(chain)
    /\ SignalAndReturn(t, Ok(Head(chain)))
    /\ UNCHANGED <<nr_nodes, lost>>

FetchHead(t) ==
    /\ pc[t] = "locked" /\ req[t].op \in FetchOps
    /\ ~Blocked(t) /\ chain # <<>>
    /\ chain' = Tail(chain)
    /\ nr_nodes' = nr_nodes - 1
    /\ SignalAndReturn(t, Ok(Head(chain)))
    /\ UNCHANGED lost

(* The other returns of the three: -1 from the _nb calls of a full or      *)
(* empty list, and from any call that finds the counter wrong.             *)
ReturnError(t) ==
    /\ pc[t] = "locked"
    /\ \/ req[t].op \in TryOps /\ Blocked(t)
       \/ req[t].op \in GetOps \cup FetchOps /\ ~Blocked(t) /\ chain = <<>>
    /\ SignalAndReturn(t, Refused)
    /\ UNCHANGED list

(* llist_fetch_match: dumb.next is set to the node after the match, so the *)
(* nodes before it go too, and nr_nodes counts one.  With the result of    *)
(* the comparison taken the wrong way round, the head would go.            *)
FetchMatch_Bug(t) ==
    /\ pc[t] = "locked" /\ req[t].op = "fetch_match"
    /\ chain # <<>>
    /\ chain' = Tail(chain)
    /\ nr_nodes' = nr_nodes - 1
    /\ SignalAndReturn(t, Ok(Head(chain)))
    /\ UNCHANGED lost

FetchMatch(t) ==
    /\ pc[t] = "locked" /\ req[t].op = "fetch_match"
    /\ \/ \E k \in Shared!Matches(req[t].data) :
            /\ \A j \in Shared!Matches(req[t].data) : k <= j
            /\ chain' = SubSeq(chain, k + 1, Len(chain))
            /\ nr_nodes' = nr_nodes - 1
            /\ lost' = (lost \/ k > 1)
            /\ SignalAndReturn(t, Ok(chain[k]))
       \/ /\ Shared!Matches(req[t].data) = {}
          /\ SignalAndReturn(t, Refused)
          /\ UNCHANGED list

(* The loop of llist_delete; then the list is gone.                        *)
llist_delete(t) ==
    /\ pc[t] = "delete" /\ nr_nodes > 0
    /\ chain' = IF chain = <<>> THEN chain ELSE Tail(chain)
    /\ nr_nodes' = IF chain = <<>> THEN nr_nodes ELSE nr_nodes - 1
    /\ UNCHANGED <<lost, lock, pc, req, res>>

Deleted(t) ==
    /\ pc[t] = "delete" /\ nr_nodes <= 0
    /\ pc' = [u \in Threads |-> "gone"]
    /\ UNCHANGED <<list, lock, req, res>>

SpuriousWakeup(t) ==
    /\ pc[t] = "wait"
    /\ pc' = [pc EXCEPT ![t] = "relock"]
    /\ UNCHANGED <<list, lock, req, res>>

Body(t) ==
    \/ TryLock(t) \/ Wait(t) \/ AppendNode(t) \/ GetHead(t) \/ FetchHead(t)
    \/ ReturnError(t) \/ FetchMatch(t) \/ llist_delete(t) \/ Deleted(t)

Next == \E t \in Threads : Call(t) \/ Lock(t) \/ Body(t) \/ SpuriousWakeup(t)

Spec == Init /\ [][Next]_vars

(* A thread runs on inside the list and gets a mutex it keeps asking for.  *)
FairSpec == Spec /\ \A t \in Threads : WF_vars(Body(t)) /\ SF_vars(Lock(t))

-----------------------------------------------------------------------------

TypeOK ==
    /\ chain \in Seq(Data)
    /\ nr_nodes \in 0 .. Volume /\ lost \in BOOLEAN
    /\ lock \in Threads \cup {NoThread}
    /\ pc \in [Threads -> {"idle", "lock", "trylock", "locked", "wait", "relock",
                          "delete", "gone"}]
    /\ req \in [Threads -> Shared!Requests \cup {Shared!NoReq}]
    /\ res \in [Threads -> [code : {"none", "ok", "refused"}, data : Data \cup {NoData}]]

(* Until llist_fetch_match takes a node that is not the first, the chain,  *)
(* its counter, the lock and the condition variable implement the list of  *)
(* SharedList: each call takes effect at one instant.                      *)
ImplementsList == Shared!Init /\ [][Shared!Next \/ lost']_(Shared!listVars)

(* llist_delete, whose loop runs until nr_nodes is 0, returns whatever     *)
(* calls came before it, if llist_fetch_match has never taken a node that  *)
(* is not the first; and if it has, llist_delete never returns, for        *)
(* nr_nodes then counts nodes that no fetch can find.                      *)
DeleteEnds ==
    /\ \A t \in Threads : pc[t] = "delete" ~> pc[t] = "gone" \/ lost
    /\ [](lost => \A t \in Threads : pc[t] # "gone")
=============================================================================
