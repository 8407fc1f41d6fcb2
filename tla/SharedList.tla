---------------------------- MODULE SharedList ----------------------------
(***************************************************************************)
(* What ds_llist.h promises of a linked list shared by threads: each call  *)
(* takes effect at one instant on a sequence of at most Volume pointers.   *)
(* A _nb call may be refused at any time, for it only tries the lock, and  *)
(* a pointer for want of memory.                                           *)
(* LList has the lock, the condition variable and the node counter.        *)
(***************************************************************************)
EXTENDS Naturals, Sequences

CONSTANTS
    Threads,    \* the threads sharing the list
    Data,       \* the pointers they store
    NoData,     \* no pointer
    Accepts,    \* Accepts[d]: what the comparison of a fetch_match for d accepts
    Volume      \* the most nodes the list holds

VARIABLES
    items,      \* the pointers in the list, first node first
    req,        \* req[t]: the call thread t is inside of
    res         \* res[t]: what the last call of t returned

listVars == <<items, req, res>>

AppendOps == {"append", "append_nb"}
GetOps    == {"get_head", "get_head_nb"}
FetchOps  == {"fetch_head", "fetch_head_nb"}
TryOps    == {"append_nb", "get_head_nb", "fetch_head_nb"}

Requests == [op : AppendOps \cup {"fetch_match"}, data : Data]
              \cup [op : GetOps \cup FetchOps \cup {"delete"}, data : {NoData}]
NoReq    == [op |-> "none", data |-> NoData]
Result(code, data) == [code |-> code, data |-> data]
NoRes    == Result("none", NoData)

-----------------------------------------------------------------------------

Init ==
    /\ items = <<>>
    /\ req = [t \in Threads |-> NoReq]
    /\ res = [t \in Threads |-> NoRes]

(* llist_delete comes last: no call overlaps or follows it. *)
Invoke(t) ==
    /\ req[t] = NoReq
    /\ \A u \in Threads : req[u].op # "delete"
    /\ \E r \in Requests :
        /\ r.op = "delete" => \A u \in Threads : req[u] = NoReq
        /\ req' = [req EXCEPT ![t] = r]
    /\ res' = [res EXCEPT ![t] = NoRes]
    /\ UNCHANGED items

Return(t, result) ==
    /\ req' = [req EXCEPT ![t] = NoReq]
    /\ res' = [res EXCEPT ![t] = result]

(* The pointer of t becomes the last of the list. *)
AppendLast(t) ==
    /\ req[t].op \in AppendOps
    /\ Len(items) < Volume
    /\ items' = Append(items, req[t].data)
    /\ Return(t, Result("ok", NoData))

(* The first pointer is shown to t and stays. *)
ShowFirst(t) ==
    /\ req[t].op \in GetOps
    /\ items # <<>>
    /\ Return(t, Result("ok", Head(items)))
    /\ UNCHANGED items

(* The first pointer leaves the list and is handed to t. *)
FetchFirst(t) ==
    /\ req[t].op \in FetchOps
    /\ items # <<>>
    /\ items' = Tail(items)
    /\ Return(t, Result("ok", Head(items)))

Matches(d) == {k \in DOMAIN items : items[k] \in Accepts[d]}

(* The first pointer that matches leaves the list, the others stay. *)
FetchMatch(t) ==
    /\ req[t].op = "fetch_match"
    /\ \E k \in Matches(req[t].data) :
        /\ \A j \in Matches(req[t].data) : k <= j
        /\ items' = SubSeq(items, 1, k - 1) \o SubSeq(items, k + 1, Len(items))
        /\ Return(t, Result("ok", items[k]))

(* A call that only tries is refused, there is no memory for a node, or    *)
(* nothing matches.                                                        *)
Refuse(t) ==
    /\ \/ req[t].op \in TryOps \cup AppendOps
       \/ req[t].op = "fetch_match" /\ Matches(req[t].data) = {}
    /\ Return(t, Result("refused", NoData))
    /\ UNCHANGED items

(* llist_delete frees the nodes one by one. *)
Drop(t) ==
    /\ req[t].op = "delete" /\ items # <<>>
    /\ items' = Tail(items)
    /\ UNCHANGED <<req, res>>

Next ==
    \E t \in Threads :
        \/ Invoke(t) \/ AppendLast(t) \/ ShowFirst(t) \/ FetchFirst(t)
        \/ FetchMatch(t) \/ Refuse(t) \/ Drop(t)

Spec == Init /\ [][Next]_listVars
=============================================================================
