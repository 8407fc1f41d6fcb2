-------------------------- MODULE ContainerProofs --------------------------
(***************************************************************************)
(* Theorems about two containers of the library.                           *)
(*                                                                         *)
(* About LList, for any threads, pointers, volume and calls:               *)
(* llist_fetch_match loses the nodes before the one it takes, so the list  *)
(* is that of SharedList only until a call takes a node that is not the    *)
(* first.  What the counter promises holds all the same.                   *)
(*                                                                         *)
(* About RbTree, for every number of nodes and any keys: it stays a        *)
(* red-black tree, and is the sorted list of SortedList.                   *)
(***************************************************************************)
EXTENDS LList, RbTree, FiniteSetTheorems, SequenceTheorems, WellFoundedInduction, TLAPS

USE DEF Shared!AppendOps, Shared!GetOps, Shared!FetchOps, Shared!TryOps,
        AppendOps, GetOps, FetchOps, TryOps

Results == [code : {"none", "ok", "refused"}, data : Data \cup {NoData}]
Labels == {"idle", "lock", "trylock", "locked", "wait", "relock", "delete", "gone"}

(* The lock is held by the thread that works on the list, and by no other. *)
Held == \A t \in Threads : pc[t] = "locked" <=> lock = t

(* The counter is never behind the chain.                                  *)
Covered == Len(chain) <= nr_nodes
Exact == lost \/ nr_nodes = Len(chain)

(* Where a thread is goes with the call it is in.                          *)
CallInv ==
    \A t \in Threads :
        /\ req[t] # Shared!NoReq => req[t].op \in MayCall[t]
        /\ pc[t] = "idle" => req[t] = Shared!NoReq
        /\ pc[t] \in {"lock", "trylock", "locked", "wait", "relock"} =>
             req[t].op \notin {"none", "delete"}
        /\ pc[t] = "trylock" => req[t].op \in TryOps
        /\ pc[t] = "delete" => req[t].op = "delete" /\ \A u \in Threads : u # t => pc[u] = "idle"

IInv == TypeOK /\ Held /\ Covered /\ CallInv

-----------------------------------------------------------------------------

LEMMA RequestFields ==
    /\ Shared!NoReq.op = "none"
    /\ \A r \in Shared!Requests :
         /\ r.op \in AppendOps \cup GetOps \cup FetchOps \cup {"fetch_match", "delete"}
         /\ r.op \in AppendOps \cup {"fetch_match"} => r.data \in Data
         /\ r # Shared!NoReq
<1>1. Shared!NoReq.op = "none"
    BY DEF Shared!NoReq
<1>2. ASSUME NEW r \in Shared!Requests
      PROVE  /\ r.op \in AppendOps \cup GetOps \cup FetchOps \cup {"fetch_match", "delete"}
             /\ r.op \in AppendOps \cup {"fetch_match"} => r.data \in Data
    BY DEF Shared!Requests
<1> QED BY <1>1, <1>2

LEMMA ResultsAre ==
    /\ Shared!NoRes \in Results /\ Refused \in Results /\ Ok(NoData) \in Results
    /\ \A d \in Data : Ok(d) \in Results
BY DEF Shared!NoRes, Shared!Result, Refused, Ok, Results

(* A call that leaves the list, with or without a signal.                  *)
LEMMA Leaves ==
    ASSUME TypeOK, Held, CallInv, NEW t \in Threads, pc[t] = "locked", NEW result \in Results,
           SignalAndReturn(t, result)
    PROVE  /\ pc' \in [Threads -> Labels] /\ lock' = NoThread
           /\ req' \in [Threads -> Shared!Requests \cup {Shared!NoReq}] /\ res' \in [Threads -> Results]
           /\ Held' /\ CallInv'
<1>1. /\ req' = [req EXCEPT ![t] = Shared!NoReq] /\ res' = [res EXCEPT ![t] = result] /\ lock' = NoThread
    BY DEF SignalAndReturn, Shared!Return
<1>2. /\ req' \in [Threads -> Shared!Requests \cup {Shared!NoReq}] /\ res' \in [Threads -> Results]
  <2>1. res \in [Threads -> Results] /\ req \in [Threads -> Shared!Requests \cup {Shared!NoReq}]
      BY DEF TypeOK, Results
  <2> QED BY <1>1, <2>1
<1>3. /\ pc' \in [Threads -> Labels] /\ pc'[t] = "idle"
      /\ \A u \in Threads : u # t => \/ pc'[u] = pc[u]
                                     \/ pc[u] = "wait" /\ pc'[u] = "relock"
  <2>1. CASE pc' = [pc EXCEPT ![t] = "idle"]
      BY <2>1 DEF TypeOK, Labels
  <2>2. CASE \E w \in Waiting : pc' = [pc EXCEPT ![t] = "idle", ![w] = "relock"]
      BY <2>2 DEF TypeOK, Labels, Waiting
  <2> QED BY <2>1, <2>2 DEF SignalAndReturn
<1>4. Held'
    BY <1>1, <1>3, NamesAssumption DEF Held
<1>5. CallInv'
  <2>1. req'[t] = Shared!NoReq /\ \A u \in Threads : u # t => req'[u] = req[u]
      BY <1>1 DEF TypeOK
  <2> QED BY <1>3, <2>1 DEF CallInv
<1> QED BY <1>1, <1>2, <1>3, <1>4, <1>5

LEMMA InitIInv == Init => IInv
<1> SUFFICES ASSUME Init PROVE IInv
    OBVIOUS
<1> USE DEF Init
<1>1. TypeOK
  <2>1. Shared!NoRes \in [code : {"none", "ok", "refused"}, data : Data \cup {NoData}]
      BY ResultsAre DEF Results
  <2>2. nr_nodes \in 0 .. Volume
      BY VolumeAssumption
  <2>3. chain \in Seq(Data) /\ lost \in BOOLEAN /\ lock \in Threads \cup {NoThread}
    <3>1. chain = <<>> /\ <<>> \in Seq(Data)
        OBVIOUS
    <3> QED BY <3>1
  <2>4. /\ pc \in [Threads -> Labels]
        /\ req \in [Threads -> Shared!Requests \cup {Shared!NoReq}]
        /\ res \in [Threads -> [code : {"none", "ok", "refused"}, data : Data \cup {NoData}]]
      BY <2>1 DEF Labels
  <2> QED BY <2>2, <2>3, <2>4 DEF TypeOK, Labels
<1>2. Held /\ Covered /\ CallInv
    BY NamesAssumption DEF Held, Covered, CallInv
<1> QED BY <1>1, <1>2 DEF IInv

(* The chain after a node is appended, or the first ones are gone.         *)
LEMMA ChainIs ==
    ASSUME TypeOK
    PROVE  /\ chain \in Seq(Data) /\ Len(chain) \in Nat /\ nr_nodes \in Nat
           /\ chain = <<>> <=> Len(chain) = 0
           /\ \A d \in Data : Append(chain, d) \in Seq(Data) /\ Len(Append(chain, d)) = Len(chain) + 1
           /\ chain # <<>> => /\ Head(chain) \in Data /\ Tail(chain) \in Seq(Data)
                              /\ Len(Tail(chain)) = Len(chain) - 1
           /\ \A k \in 1 .. Len(chain) : /\ chain[k] \in Data
                                         /\ SubSeq(chain, k + 1, Len(chain)) \in Seq(Data)
                                         /\ Len(SubSeq(chain, k + 1, Len(chain))) = Len(chain) - k
<1>1. chain \in Seq(Data) /\ Len(chain) \in Nat /\ nr_nodes \in Nat
    BY VolumeAssumption DEF TypeOK
<1>2. chain = <<>> <=> Len(chain) = 0
    BY <1>1, EmptySeq
<1>3. \A d \in Data : Append(chain, d) \in Seq(Data) /\ Len(Append(chain, d)) = Len(chain) + 1
    BY <1>1, AppendProperties
<1>4. chain # <<>> => /\ Head(chain) \in Data /\ Tail(chain) \in Seq(Data)
                      /\ Len(Tail(chain)) = Len(chain) - 1
    BY <1>1, HeadTailProperties
<1>5. ASSUME NEW k \in 1 .. Len(chain)
      PROVE  /\ chain[k] \in Data
             /\ SubSeq(chain, k + 1, Len(chain)) \in Seq(Data)
             /\ Len(SubSeq(chain, k + 1, Len(chain))) = Len(chain) - k
  <2>1. chain[k] \in Data
      BY <1>1, ElementOfSeq
  <2>2. \A j \in k + 1 .. Len(chain) : chain[j] \in Data
      BY <1>1, ElementOfSeq
  <2>3. k \in Int /\ k + 1 \in Int /\ Len(chain) \in Int /\ k + 1 <= Len(chain) + 1
      BY <1>1
  <2> QED BY <1>1, <2>1, <2>2, <2>3, SubSeqProperties
<1> QED BY <1>1, <1>2, <1>3, <1>4, <1>5

LEMMA NextIInv == IInv /\ [Next]_vars => IInv'
<1> SUFFICES ASSUME IInv, [Next]_vars PROVE IInv'
    OBVIOUS
<1>0. TypeOK /\ Held /\ Covered /\ CallInv
    BY DEF IInv
<1>1. CASE UNCHANGED vars
    BY <1>0, <1>1 DEF vars, list, IInv, TypeOK, Held, Covered, CallInv
<1>2. ASSUME NEW t \in Threads, Call(t) PROVE IInv'
  <2>1. PICK r \in Shared!Requests :
             /\ r.op \in MayCall[t] /\ req' = [req EXCEPT ![t] = r]
             /\ pc' = [pc EXCEPT ![t] = IF r.op \in TryOps THEN "trylock"
                                        ELSE IF r.op = "delete" THEN "delete" ELSE "lock"]
      BY <1>2 DEF Call
  <2>2. pc[t] = "idle" /\ res' = [res EXCEPT ![t] = Shared!NoRes] /\ UNCHANGED <<list, lock>>
      BY <1>2 DEF Call
  <2>3. /\ t \in DOMAIN pc /\ t \in DOMAIN req /\ r.op # "none"
        /\ \A u \in Threads : u # t => pc'[u] = pc[u] /\ req'[u] = req[u]
      BY <1>0, <2>1, RequestFields DEF TypeOK
  <2>4. TypeOK'
    <3>1. res' \in [Threads -> [code : {"none", "ok", "refused"}, data : Data \cup {NoData}]]
        BY <1>0, <2>2, ResultsAre DEF TypeOK, Results
    <3> QED BY <1>0, <2>1, <2>2, <3>1 DEF TypeOK, list
  <2>5. Held' /\ Covered'
      BY <1>0, <2>1, <2>2, <2>3 DEF Held, Covered, list
  <2>6. CallInv'
    <3>1. \A u \in Threads : pc[u] # "delete"
        BY <1>0, <1>2 DEF CallInv, Call
    <3>2. /\ req'[t] = r /\ pc'[t] \in {"trylock", "delete", "lock"}
          /\ pc'[t] = "trylock" => r.op \in TryOps
          /\ pc'[t] = "delete" <=> r.op = "delete"
        BY <2>1, <2>3
    <3>3. r.op = "delete" => \A u \in Threads : pc[u] = "idle"
      <4>1. req'[t] = r /\ t \in DOMAIN req
          BY <2>3, <3>2
      <4>2. PICK q \in Shared!Requests : /\ q.op = "delete" => \A u \in Threads : pc[u] = "idle"
                                         /\ req' = [req EXCEPT ![t] = q]
          BY <1>2 DEF Call
      <4> QED BY <4>1, <4>2
    <3>4. ASSUME NEW u \in Threads
          PROVE  /\ req'[u] # Shared!NoReq => req'[u].op \in MayCall[u]
                 /\ pc'[u] = "idle" => req'[u] = Shared!NoReq
                 /\ pc'[u] \in {"lock", "trylock", "locked", "wait", "relock"} =>
                      req'[u].op \notin {"none", "delete"}
                 /\ pc'[u] = "trylock" => req'[u].op \in TryOps
                 /\ pc'[u] = "delete" => req'[u].op = "delete" /\ \A v \in Threads : v # u => pc'[v] = "idle"
      <4>1. CASE u = t
          BY <2>1, <2>3, <3>2, <3>3, <4>1
      <4>2. CASE u # t
          BY <1>0, <2>3, <3>1, <4>2 DEF CallInv
      <4> QED BY <4>1, <4>2
    <3> QED BY <3>4 DEF CallInv
  <2> QED BY <2>4, <2>5, <2>6 DEF IInv
<1>3. ASSUME NEW t \in Threads, Lock(t) PROVE IInv'
  <2>1. /\ pc[t] \in {"lock", "relock"} /\ lock = NoThread /\ lock' = t
        /\ pc' = [pc EXCEPT ![t] = "locked"] /\ UNCHANGED <<list, req, res>>
      BY <1>3 DEF Lock
  <2>2. TypeOK' /\ Covered'
      BY <1>0, <2>1 DEF TypeOK, Covered, list
  <2>3. Held'
      BY <1>0, <2>1, NamesAssumption DEF Held, TypeOK
  <2>4. CallInv'
      BY <1>0, <2>1 DEF CallInv, TypeOK
  <2> QED BY <2>2, <2>3, <2>4 DEF IInv
<1>4. ASSUME NEW t \in Threads, TryLock(t) PROVE IInv'
  <2>1. CASE lock = NoThread
    <3>1. /\ pc[t] = "trylock" /\ lock' = t
          /\ pc' = [pc EXCEPT ![t] = "locked"] /\ UNCHANGED <<list, req, res>>
        BY <1>4, <2>1 DEF TryLock
    <3>2. TypeOK' /\ Covered'
        BY <1>0, <3>1 DEF TypeOK, Covered, list
    <3>3. Held'
        BY <1>0, <2>1, <3>1, NamesAssumption DEF Held, TypeOK
    <3>4. CallInv'
        BY <1>0, <3>1 DEF CallInv, TypeOK
    <3> QED BY <3>2, <3>3, <3>4 DEF IInv
  <2>2. CASE lock # NoThread
    <3>1. /\ pc[t] = "trylock" /\ pc' = [pc EXCEPT ![t] = "idle"]
          /\ req' = [req EXCEPT ![t] = Shared!NoReq] /\ res' = [res EXCEPT ![t] = Refused]
          /\ UNCHANGED <<list, lock>>
        BY <1>4, <2>2 DEF TryLock, Shared!Return
    <3>2. TypeOK'
      <4>1. res' \in [Threads -> [code : {"none", "ok", "refused"}, data : Data \cup {NoData}]]
          BY <1>0, <3>1, ResultsAre DEF TypeOK, Results
      <4> QED BY <1>0, <3>1, <4>1 DEF TypeOK, list
    <3>3. Held' /\ Covered'
        BY <1>0, <3>1 DEF Held, Covered, list, TypeOK
    <3>4. CallInv'
        BY <1>0, <3>1 DEF CallInv, TypeOK
    <3> QED BY <3>2, <3>3, <3>4 DEF IInv
  <2> QED BY <2>1, <2>2
<1>5. ASSUME NEW t \in Threads, Wait(t) PROVE IInv'
  <2>1. /\ pc[t] = "locked" /\ lock' = NoThread /\ pc' = [pc EXCEPT ![t] = "wait"]
        /\ UNCHANGED <<list, req, res>>
      BY <1>5 DEF Wait
  <2>2. TypeOK' /\ Covered'
      BY <1>0, <2>1 DEF TypeOK, Covered, list
  <2>3. Held'
      BY <1>0, <2>1, NamesAssumption DEF Held, TypeOK
  <2>4. CallInv'
      BY <1>0, <2>1 DEF CallInv, TypeOK
  <2> QED BY <2>2, <2>3, <2>4 DEF IInv
<1>6. ASSUME NEW t \in Threads, pc[t] = "locked", NEW result \in Results, SignalAndReturn(t, result),
             chain' \in Seq(Data), nr_nodes' \in 0 .. Volume, lost' \in BOOLEAN, Covered'
      PROVE  IInv'
  <2>1. /\ pc' \in [Threads -> Labels] /\ lock' = NoThread
        /\ req' \in [Threads -> Shared!Requests \cup {Shared!NoReq}] /\ res' \in [Threads -> Results]
        /\ Held' /\ CallInv'
      BY <1>0, <1>6, Leaves
  <2>2. TypeOK'
      BY <1>6, <2>1 DEF TypeOK, Labels, Results
  <2> QED BY <1>6, <2>1, <2>2 DEF IInv
<1>7. ASSUME NEW t \in Threads, AppendNode(t) PROVE IInv'
  <2>1. CASE SignalAndReturn(t, Refused) /\ UNCHANGED list
    <3>1. /\ chain' \in Seq(Data) /\ nr_nodes' \in 0 .. Volume /\ lost' \in BOOLEAN /\ Covered'
        BY <1>0, <2>1 DEF list, TypeOK, Covered
    <3> QED BY <1>6, <1>7, <2>1, <3>1, ResultsAre DEF AppendNode
  <2>2. CASE /\ chain' = Append(chain, req[t].data) /\ nr_nodes' = nr_nodes + 1
             /\ SignalAndReturn(t, Ok(NoData)) /\ UNCHANGED lost
    <3>1. req[t].data \in Data
        BY <1>0, <1>7, RequestFields DEF AppendNode, TypeOK
    <3>2. chain' \in Seq(Data) /\ Len(chain') = Len(chain) + 1
        BY <1>0, <2>2, <3>1, ChainIs
    <3>3. nr_nodes' = nr_nodes + 1 /\ nr_nodes < Volume /\ lost' \in BOOLEAN
        BY <1>0, <1>7, <2>2, VolumeAssumption DEF AppendNode, Blocked, TypeOK
    <3>4. nr_nodes' \in 0 .. Volume /\ Covered'
        BY <1>0, <3>2, <3>3, VolumeAssumption, ChainIs DEF Covered, TypeOK
    <3> QED BY <1>6, <1>7, <2>2, <3>2, <3>3, <3>4, ResultsAre DEF AppendNode
  <2> QED BY <1>7, <2>1, <2>2 DEF AppendNode
<1>8. ASSUME NEW t \in Threads, GetHead(t) PROVE IInv'
  <2>1. Ok(Head(chain)) \in Results
      BY <1>0, <1>8, ChainIs, ResultsAre DEF GetHead
  <2>2. chain' \in Seq(Data) /\ nr_nodes' \in 0 .. Volume /\ lost' \in BOOLEAN /\ Covered'
      BY <1>0, <1>8 DEF GetHead, list, TypeOK, Covered
  <2> QED BY <1>6, <1>8, <2>1, <2>2 DEF GetHead
<1>9. ASSUME NEW t \in Threads, FetchHead(t) PROVE IInv'
  <2>1. Ok(Head(chain)) \in Results /\ chain' \in Seq(Data) /\ Len(chain') = Len(chain) - 1
      BY <1>0, <1>9, ChainIs, ResultsAre DEF FetchHead
  <2>2. nr_nodes' = nr_nodes - 1 /\ Len(chain) \in Nat /\ Len(chain) > 0
    <3>1. chain # <<>> /\ nr_nodes' = nr_nodes - 1
        BY <1>9 DEF FetchHead
    <3>2. Len(chain) \in Nat /\ Len(chain) # 0
        BY <1>0, <3>1, ChainIs
    <3> QED BY <3>1, <3>2
  <2>3. nr_nodes' \in 0 .. Volume /\ lost' \in BOOLEAN /\ Covered'
      BY <1>0, <1>9, <2>1, <2>2, VolumeAssumption DEF FetchHead, Covered, TypeOK
  <2> QED BY <1>6, <1>9, <2>1, <2>3 DEF FetchHead
<1>10. ASSUME NEW t \in Threads, ReturnError(t) PROVE IInv'
  <2>1. chain' \in Seq(Data) /\ nr_nodes' \in 0 .. Volume /\ lost' \in BOOLEAN /\ Covered'
      BY <1>0, <1>10 DEF ReturnError, list, TypeOK, Covered
  <2> QED BY <1>6, <1>10, <2>1, ResultsAre DEF ReturnError
<1>11. ASSUME NEW t \in Threads, FetchMatch(t) PROVE IInv'
  <2>1. CASE \E k \in Shared!Matches(req[t].data) :
                /\ chain' = SubSeq(chain, k + 1, Len(chain))
                /\ nr_nodes' = nr_nodes - 1
                /\ lost' = (lost \/ k > 1)
                /\ SignalAndReturn(t, Ok(chain[k]))
    <3>0. Shared!Matches(req[t].data) \subseteq 1 .. Len(chain)
        BY <1>0, ChainIs DEF Shared!Matches
    <3>1. PICK k \in 1 .. Len(chain) : /\ chain' = SubSeq(chain, k + 1, Len(chain))
                                       /\ nr_nodes' = nr_nodes - 1
                                       /\ lost' = (lost \/ k > 1)
                                       /\ SignalAndReturn(t, Ok(chain[k]))
        BY <2>1, <3>0, Zenon
    <3>2. chain' \in Seq(Data) /\ Len(chain') = Len(chain) - k /\ Ok(chain[k]) \in Results
        BY <1>0, <3>1, ChainIs, ResultsAre
    <3>3. nr_nodes' \in 0 .. Volume /\ lost' \in BOOLEAN /\ Covered'
        BY <1>0, <3>1, <3>2, ChainIs, VolumeAssumption DEF Covered, TypeOK
    <3> QED BY <1>6, <1>11, <3>1, <3>2, <3>3 DEF FetchMatch
  <2>2. CASE SignalAndReturn(t, Refused) /\ UNCHANGED list
    <3>1. chain' \in Seq(Data) /\ nr_nodes' \in 0 .. Volume /\ lost' \in BOOLEAN /\ Covered'
        BY <1>0, <2>2 DEF list, TypeOK, Covered
    <3> QED BY <1>6, <1>11, <2>2, <3>1, ResultsAre DEF FetchMatch
  <2> QED BY <1>11, <2>1, <2>2 DEF FetchMatch
<1>12. ASSUME NEW t \in Threads, llist_delete(t) PROVE IInv'
  <2>1. /\ chain' \in Seq(Data) /\ nr_nodes' \in 0 .. Volume /\ Covered'
    <3>1. CASE chain = <<>>
      <4>1. chain' = chain /\ nr_nodes' = nr_nodes
          BY <1>12, <3>1 DEF llist_delete
      <4> QED BY <1>0, <4>1 DEF TypeOK, Covered
    <3>2. CASE chain # <<>>
      <4>1. chain' = Tail(chain) /\ nr_nodes' = nr_nodes - 1 /\ nr_nodes > 0
          BY <1>12, <3>2 DEF llist_delete
      <4>2. Tail(chain) \in Seq(Data) /\ Len(Tail(chain)) = Len(chain) - 1 /\ Len(chain) \in Nat
          BY <1>0, <3>2, ChainIs
      <4> QED BY <1>0, <4>1, <4>2, VolumeAssumption DEF TypeOK, Covered
    <3> QED BY <3>1, <3>2
  <2>2. UNCHANGED <<lock, pc, req, res>>
      BY <1>12 DEF llist_delete
  <2>3. lost' \in BOOLEAN
      BY <1>0, <1>12 DEF llist_delete, TypeOK
  <2> QED BY <1>0, <2>1, <2>2, <2>3 DEF IInv, TypeOK, Held, CallInv
<1>13. ASSUME NEW t \in Threads, Deleted(t) PROVE IInv'
  <2>1. pc' = [u \in Threads |-> "gone"] /\ UNCHANGED <<list, lock, req, res>>
      BY <1>13 DEF Deleted
  <2>2. TypeOK' /\ Covered' /\ CallInv'
      BY <1>0, <2>1 DEF TypeOK, Covered, list, CallInv
  <2>3. \A u \in Threads : pc[u] # "locked"
      BY <1>0, <1>13 DEF CallInv, Deleted
  <2>4. Held'
      BY <1>0, <2>1, <2>3 DEF Held
  <2> QED BY <2>2, <2>4 DEF IInv
<1>14. ASSUME NEW t \in Threads, SpuriousWakeup(t) PROVE IInv'
  <2>1. pc[t] = "wait" /\ pc' = [pc EXCEPT ![t] = "relock"] /\ UNCHANGED <<list, lock, req, res>>
      BY <1>14 DEF SpuriousWakeup
  <2>2. TypeOK' /\ Covered'
      BY <1>0, <2>1 DEF TypeOK, Covered, list
  <2>3. Held' /\ CallInv'
      BY <1>0, <2>1 DEF Held, CallInv, TypeOK
  <2> QED BY <2>2, <2>3 DEF IInv
<1> QED BY <1>1, <1>2, <1>3, <1>4, <1>5, <1>7, <1>8, <1>9, <1>10, <1>11, <1>12, <1>13, <1>14
        DEF Next, Body

(* The counter is never behind the chain nor beyond the volume, whatever   *)
(* llist_fetch_match drops: llist_delete comes to its last node.           *)
THEOREM CounterCovers == Spec => [](Len(chain) <= nr_nodes /\ nr_nodes <= Volume)
<1>1. IInv => Len(chain) <= nr_nodes /\ nr_nodes <= Volume
    BY VolumeAssumption DEF IInv, TypeOK, Covered
<1> QED BY <1>1, InitIInv, NextIInv, PTL DEF Spec

-----------------------------------------------------------------------------
(* The list of SharedList.                                                 *)

LEMMA LostStays ==
    ASSUME [Next]_vars, lost
    PROVE  lost'
<1> USE DEF list
<1>1. CASE UNCHANGED vars
    BY <1>1 DEF vars
<1>2. ASSUME NEW t \in Threads, Call(t) \/ Lock(t) \/ Body(t) \/ SpuriousWakeup(t)
      PROVE  lost'
    BY <1>2 DEF Call, Lock, Body, SpuriousWakeup, TryLock, Wait, AppendNode, GetHead, FetchHead,
                ReturnError, FetchMatch, llist_delete, Deleted
<1> QED BY <1>1, <1>2 DEF Next

(* A match that loses no node is the first of the chain.                   *)
LEMMA MatchIsFirst ==
    ASSUME TypeOK, NEW d, NEW k \in Shared!Matches(d), ~(k > 1)
    PROVE  k = 1 /\ k \in 1 .. Len(chain)
<1>1. k \in DOMAIN chain
    BY DEF Shared!Matches
<1>2. DOMAIN chain = 1 .. Len(chain) /\ Len(chain) \in Nat
    BY ChainIs
<1> QED BY <1>1, <1>2

LEMMA ExactStep ==
    ASSUME IInv, Exact, ~lost', [Next]_vars
    PROVE  Exact'
<1>0. TypeOK /\ ~lost /\ nr_nodes = Len(chain)
    BY LostStays DEF IInv, Exact
<1>1. CASE UNCHANGED list
    BY <1>0, <1>1 DEF Exact, list
<1>2. ASSUME NEW t \in Threads, AppendNode(t) PROVE Exact'
  <2>1. CASE UNCHANGED list
      BY <1>1, <2>1
  <2>2. CASE chain' = Append(chain, req[t].data) /\ nr_nodes' = nr_nodes + 1
    <3>1. req[t].data \in Data
        BY <1>0, <1>2, RequestFields DEF AppendNode, TypeOK
    <3>2. Len(chain') = Len(chain) + 1
        BY <1>0, <2>2, <3>1, ChainIs
    <3> QED BY <1>0, <2>2, <3>2 DEF Exact
  <2> QED BY <1>2, <2>1, <2>2 DEF AppendNode
<1>3. ASSUME NEW t \in Threads, FetchHead(t) PROVE Exact'
  <2>1. Len(chain') = Len(chain) - 1 /\ nr_nodes' = nr_nodes - 1
      BY <1>0, <1>3, ChainIs DEF FetchHead
  <2> QED BY <1>0, <2>1 DEF Exact
<1>4. ASSUME NEW t \in Threads, llist_delete(t) PROVE Exact'
  <2>1. chain # <<>>
      BY <1>0, <1>4, ChainIs DEF Exact, llist_delete
  <2>2. Len(chain') = Len(chain) - 1 /\ nr_nodes' = nr_nodes - 1
      BY <1>0, <1>4, <2>1, ChainIs DEF llist_delete
  <2> QED BY <1>0, <2>2 DEF Exact
<1>5. ASSUME NEW t \in Threads, FetchMatch(t) PROVE Exact'
  <2>1. CASE UNCHANGED list
      BY <1>1, <2>1
  <2>2. CASE ~ UNCHANGED list
    <3>1. PICK k \in Shared!Matches(req[t].data) :
                 /\ chain' = SubSeq(chain, k + 1, Len(chain)) /\ nr_nodes' = nr_nodes - 1
                 /\ lost' = (lost \/ k > 1)
        BY <1>5, <2>2 DEF FetchMatch
    <3>0. ~(k > 1)
        BY <1>0, <3>1
    <3>2. k = 1 /\ k \in 1 .. Len(chain)
        BY <1>0, <3>0, MatchIsFirst
    <3>3. Len(chain') = Len(chain) - 1
        BY <1>0, <3>1, <3>2, ChainIs
    <3> QED BY <1>0, <3>1, <3>3 DEF Exact
  <2> QED BY <2>1, <2>2
<1>6. ASSUME NEW t \in Threads,
             \/ Call(t) \/ Lock(t) \/ TryLock(t) \/ Wait(t) \/ GetHead(t) \/ ReturnError(t)
             \/ Deleted(t) \/ SpuriousWakeup(t)
      PROVE  UNCHANGED list
    BY <1>6 DEF Call, Lock, TryLock, Wait, GetHead, ReturnError, Deleted, SpuriousWakeup
<1>7. CASE UNCHANGED vars
    BY <1>1, <1>7 DEF vars
<1> QED BY <1>1, <1>2, <1>3, <1>4, <1>5, <1>6, <1>7 DEF Next, Body

LEMMA StepShared ==
    ASSUME IInv, Exact, ~lost', [Next]_vars
    PROVE  [Shared!Next]_(Shared!listVars)
<1> USE DEF Shared!listVars, list
<1>0. TypeOK /\ Held /\ CallInv /\ Exact /\ ~lost
    BY LostStays DEF IInv
<1>1. CASE UNCHANGED vars
    BY <1>1 DEF vars
<1>2. ASSUME NEW t \in Threads, Call(t) PROVE Shared!Next
  <2>1. PICK r \in Shared!Requests :
             /\ r.op = "delete" => \A u \in Threads : pc[u] = "idle"
             /\ req' = [req EXCEPT ![t] = r]
      BY <1>2 DEF Call
  <2>2. \A u \in Threads : pc[u] = "idle" => req[u] = Shared!NoReq
      BY <1>0 DEF CallInv
  <2>3. /\ req[t] = Shared!NoReq /\ \A u \in Threads : req[u].op # "delete"
        /\ res' = [res EXCEPT ![t] = Shared!NoRes] /\ chain' = chain
      BY <1>2, <2>2 DEF Call
  <2>4. Shared!Invoke(t)
      BY <2>1, <2>2, <2>3 DEF Shared!Invoke
  <2> QED BY <2>4 DEF Shared!Next
<1>3. ASSUME NEW t \in Threads, Lock(t) \/ Wait(t) \/ Deleted(t) \/ SpuriousWakeup(t)
      PROVE UNCHANGED Shared!listVars
    BY <1>3 DEF Lock, Wait, Deleted, SpuriousWakeup
<1>4. ASSUME NEW t \in Threads, TryLock(t) PROVE [Shared!Next]_(Shared!listVars)
  <2>1. CASE lock = NoThread
      BY <1>4, <2>1 DEF TryLock
  <2>2. CASE lock # NoThread
    <3>1. Shared!Return(t, Refused) /\ chain' = chain /\ pc[t] = "trylock"
        BY <1>4, <2>2 DEF TryLock
    <3>2. req[t].op \in TryOps
        BY <1>0, <3>1 DEF CallInv
    <3>3. Shared!Refuse(t)
        BY <3>1, <3>2 DEF Shared!Refuse, Refused
    <3> QED BY <3>3 DEF Shared!Next
  <2> QED BY <2>1, <2>2
<1>5. ASSUME NEW t \in Threads, AppendNode(t) PROVE Shared!Next
  <2>1. Len(chain) < Volume
      BY <1>0, <1>5, VolumeAssumption DEF AppendNode, Blocked, Exact, TypeOK
  <2>2. Shared!AppendLast(t) \/ Shared!Refuse(t)
      BY <1>5, <2>1 DEF AppendNode, SignalAndReturn, Ok, Refused, Shared!AppendLast, Shared!Refuse
  <2> QED BY <2>2 DEF Shared!Next
<1>6. ASSUME NEW t \in Threads, GetHead(t) PROVE Shared!Next
  <2>1. Shared!ShowFirst(t)
      BY <1>6 DEF GetHead, SignalAndReturn, Ok, Shared!ShowFirst
  <2> QED BY <2>1 DEF Shared!Next
<1>7. ASSUME NEW t \in Threads, FetchHead(t) PROVE Shared!Next
  <2>1. Shared!FetchFirst(t)
      BY <1>7 DEF FetchHead, SignalAndReturn, Ok, Shared!FetchFirst
  <2> QED BY <2>1 DEF Shared!Next
<1>8. ASSUME NEW t \in Threads, ReturnError(t) PROVE Shared!Next
  <2>1. req[t].op \in TryOps
    <3>1. CASE req[t].op \in GetOps \cup FetchOps /\ ~Blocked(t) /\ chain = <<>>
      <4>1. nr_nodes = 0
          BY <1>0, <3>1, ChainIs DEF Exact
      <4> QED BY <3>1, <4>1 DEF Blocked
    <3> QED BY <1>8, <3>1 DEF ReturnError
  <2>2. Shared!Refuse(t)
      BY <1>8, <2>1 DEF ReturnError, SignalAndReturn, Refused, Shared!Refuse
  <2> QED BY <2>2 DEF Shared!Next
<1>9. ASSUME NEW t \in Threads, FetchMatch(t) PROVE Shared!Next
  <2>1. CASE /\ Shared!Matches(req[t].data) = {} /\ SignalAndReturn(t, Refused) /\ UNCHANGED list
    <3>1. Shared!Refuse(t)
        BY <1>9, <2>1 DEF FetchMatch, SignalAndReturn, Refused, Shared!Refuse
    <3> QED BY <3>1 DEF Shared!Next
  <2>2. CASE \E k \in Shared!Matches(req[t].data) :
                /\ \A j \in Shared!Matches(req[t].data) : k <= j
                /\ chain' = SubSeq(chain, k + 1, Len(chain))
                /\ lost' = (lost \/ k > 1)
                /\ SignalAndReturn(t, Ok(chain[k]))
    <3>1. PICK k \in Shared!Matches(req[t].data) :
                /\ \A j \in Shared!Matches(req[t].data) : k <= j
                /\ chain' = SubSeq(chain, k + 1, Len(chain))
                /\ lost' = (lost \/ k > 1)
                /\ SignalAndReturn(t, Ok(chain[k]))
        BY <2>2
    <3>0. ~(k > 1)
        BY <1>0, <3>1
    <3>2. k = 1 /\ k \in 1 .. Len(chain)
        BY <1>0, <3>0, MatchIsFirst
    <3>3. PICK rest \in Seq(Data) : rest = SubSeq(chain, k + 1, Len(chain))
        BY <1>0, <3>2, ChainIs
    <3>4. SubSeq(chain, 1, k - 1) = <<>>
        BY <1>0, <3>2, ChainIs, SubSeqProperties, EmptySeq
    <3>5. SubSeq(chain, 1, k - 1) \o rest = rest
        BY <3>3, <3>4, ConcatEmptySeq
    <3>6. Shared!FetchMatch(t)
        BY <1>9, <3>1, <3>3, <3>5 DEF FetchMatch, SignalAndReturn, Ok, Shared!FetchMatch
    <3> QED BY <3>6 DEF Shared!Next
  <2> QED BY <1>9, <2>1, <2>2 DEF FetchMatch
<1>10. ASSUME NEW t \in Threads, llist_delete(t) PROVE Shared!Next
  <2>1. chain # <<>> /\ req[t].op = "delete"
      BY <1>0, <1>10, ChainIs DEF Exact, llist_delete, CallInv
  <2>2. Shared!Drop(t)
      BY <1>10, <2>1 DEF llist_delete, Shared!Drop
  <2> QED BY <2>2 DEF Shared!Next
<1> QED BY <1>1, <1>2, <1>3, <1>4, <1>5, <1>6, <1>7, <1>8, <1>9, <1>10 DEF Next, Body

(* The chain under its mutex and condition variable is a list of at most   *)
(* Volume pointers whose calls each take effect at one instant, until      *)
(* llist_fetch_match takes a node that is not the first.                   *)
THEOREM ListIsShared == Spec => ImplementsList
<1>1. Init => Exact /\ Shared!Init
    BY DEF Init, Exact, Shared!Init
<1>2. IInv /\ Exact /\ [Next]_vars => Exact' /\ [Shared!Next \/ lost']_(Shared!listVars)
    BY ExactStep, StepShared DEF Exact
<1> QED BY <1>1, <1>2, InitIInv, NextIInv, PTL DEF Spec, ImplementsList

HIDE DEF Shared!AppendOps, Shared!GetOps, Shared!FetchOps, Shared!TryOps,
         AppendOps, GetOps, FetchOps, TryOps

-----------------------------------------------------------------------------
(* The red-black tree.                                                     *)

LEMMA SidesAre ==
    /\ Sides = {"left", "right"}
    /\ Other("left") = "right" /\ Other("right") = "left"
    /\ \A s \in Sides : Other(s) \in Sides /\ Other(s) # s /\ Other(Other(s)) = s
<1>1. Other("left") = "right"
    BY DEF Other, Sides
<1>2. Other("right") = "left"
    BY DEF Other, Sides
<1> QED BY <1>1, <1>2 DEF Sides

-----------------------------------------------------------------------------
(* What makes pointers a tree.  Each node in the tree t has a place pos in *)
(* the order of the tree, and the nodes below it have the places from lo   *)
(* to hi; at[i] is the node at place i.  A rotation changes the span of    *)
(* two nodes only, and no place.                                           *)

Ends == Nodes \cup {sentinel}
In(t) == {n \in Nodes : n = t.root \/ t.parent[n] # NULL}

IsTree(t) ==
    t \in [root : Ends, child : [Sides -> [Nodes -> Ends \cup {NULL}]],
           parent : [Ends -> Nodes \cup {NULL}], color : [Ends -> {"red", "black"}]]

Placed(t, N, at, pos) ==
    /\ N \in Nat /\ at \in [1 .. N -> Nodes] /\ pos \in [Nodes -> Int]
    /\ \A i \in 1 .. N : at[i] \in In(t) /\ pos[at[i]] = i
    /\ \A m \in In(t) : pos[m] \in 1 .. N /\ at[pos[m]] = m

OnLeft(t, m, c, pos, lo, hi) ==
    /\ c \in In(t) \cup {sentinel}
    /\ c = sentinel => lo[m] = pos[m]
    /\ c # sentinel => t.parent[c] = m /\ lo[c] = lo[m] /\ hi[c] = pos[m] - 1

OnRight(t, m, c, pos, lo, hi) ==
    /\ c \in In(t) \cup {sentinel}
    /\ c = sentinel => hi[m] = pos[m]
    /\ c # sentinel => t.parent[c] = m /\ lo[c] = pos[m] + 1 /\ hi[c] = hi[m]

HangsFrom(t, m, up) == up \in In(t) /\ (t.child["left"][up] = m \/ t.child["right"][up] = m)

Spans(t, N, pos, lo, hi) ==
    /\ lo \in [Nodes -> Int] /\ hi \in [Nodes -> Int]
    /\ t.root \in Nodes => lo[t.root] = 1 /\ hi[t.root] = N
    /\ t.root = sentinel => In(t) = {}
    /\ \A m \in In(t) :
         /\ lo[m] <= pos[m] /\ pos[m] <= hi[m]
         /\ OnLeft(t, m, t.child["left"][m], pos, lo, hi)
         /\ OnRight(t, m, t.child["right"][m], pos, lo, hi)
         /\ m # t.root => HangsFrom(t, m, t.parent[m])
    /\ \A m \in Nodes \ In(t) : t.child["left"][m] = NULL /\ t.child["right"][m] = NULL

IsShape(t, N, at, pos, lo, hi) ==
    IsTree(t) /\ Placed(t, N, at, pos) /\ Spans(t, N, pos, lo, hi)

(* What follows at once.                                                   *)
LEMMA ShapeFacts ==
    ASSUME NEW t, NEW N, NEW at, NEW pos, NEW lo, NEW hi, IsShape(t, N, at, pos, lo, hi)
    PROVE  /\ In(t) \subseteq Nodes /\ N \in Nat
           /\ t.root \in In(t) \cup {sentinel}
           /\ sentinel \notin Nodes /\ NULL \notin Nodes /\ NULL # sentinel
           /\ \A m, k \in In(t) : pos[m] = pos[k] => m = k
           /\ \A m \in In(t) : /\ pos[m] \in Int /\ lo[m] \in Int /\ hi[m] \in Int
                               /\ 1 <= pos[m] /\ pos[m] <= N
           /\ In(t) # {} => t.root \in In(t)
<1>1. /\ In(t) \subseteq Nodes /\ N \in Nat
      /\ t.root \in In(t) \cup {sentinel}
      /\ sentinel \notin Nodes /\ NULL \notin Nodes /\ NULL # sentinel
      /\ In(t) # {} => t.root \in In(t)
    BY TreeNames DEF IsShape, IsTree, Placed, Spans, In, Ends
<1>2. \A m \in In(t) : /\ pos[m] \in Int /\ lo[m] \in Int /\ hi[m] \in Int
                       /\ 1 <= pos[m] /\ pos[m] <= N
    BY <1>1 DEF IsShape, Placed, Spans
<1>3. \A m, k \in In(t) : pos[m] = pos[k] => m = k
    BY DEF IsShape, Placed
<1> QED BY <1>1, <1>2, <1>3

(* A node is the child of its parent alone, on one side.                   *)
LEMMA ChildOnce ==
    ASSUME NEW t, NEW N, NEW at, NEW pos, NEW lo, NEW hi, IsShape(t, N, at, pos, lo, hi),
           NEW s \in Sides, NEW m \in Nodes, NEW c \in Nodes, t.child[s][m] = c
    PROVE  /\ m \in In(t) /\ c \in In(t) /\ t.parent[c] = m /\ c # t.root
           /\ t.child[Other(s)][m] # c /\ c # m
           /\ hi[c] - lo[c] < hi[m] - lo[m]
<1>1. s = "left" \/ s = "right"
    BY SidesAre
<1>2. Spans(t, N, pos, lo, hi) /\ c # NULL /\ c # sentinel /\ N \in Nat
    BY ShapeFacts DEF IsShape
<1>3. m \in In(t)
    BY <1>1, <1>2 DEF Spans
<1>4. /\ lo[m] <= pos[m] /\ pos[m] <= hi[m]
      /\ OnLeft(t, m, t.child["left"][m], pos, lo, hi)
      /\ OnRight(t, m, t.child["right"][m], pos, lo, hi)
    BY <1>2, <1>3 DEF Spans
<1>5. c \in In(t) /\ t.parent[c] = m
    BY <1>1, <1>2, <1>4 DEF OnLeft, OnRight
<1>6. /\ 1 <= pos[m] /\ pos[m] <= N /\ pos[m] \in Int /\ lo[m] \in Int /\ hi[m] \in Int
      /\ 1 <= pos[c] /\ pos[c] <= N /\ pos[c] \in Int /\ lo[c] \in Int /\ hi[c] \in Int
    BY <1>3, <1>5, ShapeFacts
<1>7. lo[c] <= pos[c] /\ pos[c] <= hi[c] /\ (c = t.root => lo[c] = 1 /\ hi[c] = N)
    BY <1>2, <1>5 DEF Spans
<1>8. CASE s = "left"
  <2>1. lo[c] = lo[m] /\ hi[c] = pos[m] - 1
      BY <1>2, <1>4, <1>8 DEF OnLeft
  <2>2. t.child["right"][m] # c /\ c # m /\ c # t.root /\ hi[c] - lo[c] < hi[m] - lo[m]
      BY <1>2, <1>4, <1>6, <1>7, <2>1 DEF OnRight
  <2> QED BY <1>3, <1>5, <1>8, <2>2, SidesAre
<1>9. CASE s = "right"
  <2>1. lo[c] = pos[m] + 1 /\ hi[c] = hi[m]
      BY <1>2, <1>4, <1>9 DEF OnRight
  <2>2. t.child["left"][m] # c /\ c # m /\ c # t.root /\ hi[c] - lo[c] < hi[m] - lo[m]
      BY <1>2, <1>4, <1>6, <1>7, <2>1 DEF OnLeft
  <2> QED BY <1>3, <1>5, <1>9, <2>2, SidesAre
<1> QED BY <1>1, <1>8, <1>9

LEMMA ChildIn ==
    ASSUME NEW t, NEW N, NEW at, NEW pos, NEW lo, NEW hi, IsShape(t, N, at, pos, lo, hi),
           NEW s \in Sides, NEW m \in In(t)
    PROVE  t.child[s][m] \in In(t) \cup {sentinel} /\ t.child[s][m] \in Ends
<1>1. s = "left" \/ s = "right"
    BY SidesAre
<1>2. /\ OnLeft(t, m, t.child["left"][m], pos, lo, hi)
      /\ OnRight(t, m, t.child["right"][m], pos, lo, hi)
    BY DEF IsShape, Spans
<1> QED BY <1>1, <1>2, ShapeFacts DEF OnLeft, OnRight, Ends

LEMMA NoLoop ==
    ASSUME NEW t, NEW N, NEW at, NEW pos, NEW lo, NEW hi, IsShape(t, N, at, pos, lo, hi),
           NEW s \in Sides, NEW m \in Nodes, NEW c \in Nodes, t.child[s][m] = c,
           NEW x \in Sides
    PROVE  t.child[x][c] # m
<1> SUFFICES ASSUME t.child[x][c] = m PROVE FALSE
    OBVIOUS
<1>1. hi[c] - lo[c] < hi[m] - lo[m] /\ hi[m] - lo[m] < hi[c] - lo[c]
    BY ChildOnce
<1>2. hi[c] \in Int /\ lo[c] \in Int /\ hi[m] \in Int /\ lo[m] \in Int
    BY ChildOnce, ShapeFacts
<1> QED BY <1>1, <1>2

LEMMA ParentOf ==
    ASSUME NEW t, NEW N, NEW at, NEW pos, NEW lo, NEW hi, IsShape(t, N, at, pos, lo, hi),
           NEW m \in In(t), m # t.root
    PROVE  /\ t.parent[m] \in In(t) /\ t.parent[m] \in Nodes /\ m \in Nodes
           /\ t.child[SideOf(t, m)][t.parent[m]] = m
           /\ SideOf(t, m) \in Sides
<1>1. HangsFrom(t, m, t.parent[m])
    BY DEF IsShape, Spans
<1> QED BY <1>1, SidesAre, ShapeFacts DEF HangsFrom, SideOf

-----------------------------------------------------------------------------
(* Rotations.                                                              *)

(* What a rotation of n towards s makes of t: temp, the child of n on the  *)
(* other side, takes its place, and n the inner child of temp.             *)
Rotated(t, u, s, n, temp, inner) ==
    /\ IsTree(u) /\ u.color = t.color
    /\ u.root = IF n = t.root THEN temp ELSE t.root
    /\ u.child[Other(s)][n] = inner /\ u.child[s][n] = t.child[s][n]
    /\ u.child[s][temp] = n /\ u.child[Other(s)][temp] = t.child[Other(s)][temp]
    /\ \A x \in Sides : \A m \in Nodes \ {n, temp} :
         u.child[x][m] = IF t.child[x][m] = n THEN temp ELSE t.child[x][m]
    /\ u.parent[temp] = t.parent[n] /\ u.parent[n] = temp
    /\ \A m \in Ends \ {n, temp} :
         u.parent[m] = IF m = inner /\ inner # sentinel THEN n ELSE t.parent[m]

LEMMA RotateFields ==
    ASSUME NEW t, NEW N, NEW at, NEW pos, NEW lo, NEW hi, IsShape(t, N, at, pos, lo, hi),
           NEW s \in Sides, NEW n \in Nodes, NEW temp \in Nodes, t.child[Other(s)][n] = temp
    PROVE  Rotated(t, Rotate(t, s, n), s, n, temp, t.child[s][temp])
<1>1. PICK o \in Sides : o = Other(s)
    BY SidesAre
<1>2. o # s /\ s = Other(o) /\ Sides = {s, o}
    BY <1>1, SidesAre
<1>3. /\ n \in In(t) /\ temp \in In(t) /\ t.parent[temp] = n /\ temp # t.root /\ temp # n
      /\ t.child[s][n] # temp
    BY <1>1, <1>2, ChildOnce
<1>4. PICK inner \in Ends : inner = t.child[s][temp]
    BY <1>3, ChildIn
<1>5. inner # n /\ inner # temp
    BY <1>1, <1>3, <1>4, NoLoop, ChildOnce
<1>6. IsTree(t) /\ sentinel \notin Nodes
    BY ShapeFacts DEF IsShape
<1> DEFINE q == t.parent[n]
<1>7. n # t.root => /\ q \in Nodes /\ q # n /\ q # temp
                    /\ SideOf(t, n) \in Sides /\ t.child[SideOf(t, n)][q] = n
                    /\ t.child[Other(SideOf(t, n))][q] # n
    BY <1>1, <1>3, ParentOf, ChildOnce, NoLoop
<1>8. \A x \in Sides : \A m \in Nodes : t.child[x][m] = n => n # t.root /\ m = q /\ x = SideOf(t, n)
    BY <1>7, ChildOnce, SidesAre
<1> DEFINE turned == [t.child EXCEPT ![o][n] = inner, ![s][temp] = n]
           hung == [t.parent EXCEPT ![temp] = t.parent[n], ![n] = temp]
           kids == IF n = t.root THEN turned ELSE [turned EXCEPT ![SideOf(t, n)][q] = temp]
           ups == IF inner = sentinel THEN hung ELSE [hung EXCEPT ![inner] = n]
           top == IF n = t.root THEN temp ELSE t.root
<1>9. Rotate(t, s, n) = [root |-> top, child |-> kids, parent |-> ups, color |-> t.color]
    BY <1>1, <1>4, SMTT(30) DEF Rotate
<1>10. /\ t.child \in [Sides -> [Nodes -> Ends \cup {NULL}]] /\ t.root \in Ends
       /\ t.parent \in [Ends -> Nodes \cup {NULL}] /\ t.color \in [Ends -> {"red", "black"}]
    BY <1>6 DEF IsTree
<1>11. /\ turned \in [Sides -> [Nodes -> Ends \cup {NULL}]]
       /\ turned[o][n] = inner /\ turned[s][temp] = n
       /\ turned[s][n] = t.child[s][n] /\ turned[o][temp] = t.child[o][temp]
       /\ \A x \in Sides : \A m \in Nodes \ {n, temp} : turned[x][m] = t.child[x][m]
    BY <1>2, <1>3, <1>10 DEF Ends
<1>12. /\ kids \in [Sides -> [Nodes -> Ends \cup {NULL}]]
       /\ kids[o][n] = inner /\ kids[s][temp] = n
       /\ kids[s][n] = t.child[s][n] /\ kids[o][temp] = t.child[o][temp]
       /\ \A x \in Sides : \A m \in Nodes \ {n, temp} :
            kids[x][m] = IF t.child[x][m] = n THEN temp ELSE t.child[x][m]
  <2> HIDE DEF turned
  <2>1. CASE n = t.root
      BY <1>8, <1>11, <2>1
  <2>2. CASE n # t.root
    <3>1. PICK side \in Sides : side = SideOf(t, n)
        BY <1>7, <2>2
    <3>2. PICK p \in Nodes : p = q
        BY <1>7, <2>2
    <3>3. kids = [turned EXCEPT ![side][p] = temp]
        BY <2>2, <3>1, <3>2
    <3> HIDE DEF kids, q
    <3>4. /\ kids \in [Sides -> [Nodes -> Ends \cup {NULL}]]
          /\ kids[side][p] = temp
          /\ \A x \in Sides : \A m \in Nodes : x # side \/ m # p => kids[x][m] = turned[x][m]
        BY <3>3, <1>11 DEF Ends
    <3>5. p # n /\ p # temp /\ t.child[side][p] = n
        BY <1>7, <2>2, <3>1, <3>2
    <3> QED BY <1>8, <1>11, <3>1, <3>2, <3>4, <3>5
  <2> QED BY <2>1, <2>2
<1>13. /\ ups \in [Ends -> Nodes \cup {NULL}]
       /\ ups[temp] = t.parent[n] /\ ups[n] = temp
       /\ \A m \in Ends \ {n, temp} :
            ups[m] = IF m = inner /\ inner # sentinel THEN n ELSE t.parent[m]
    BY <1>3, <1>5, <1>10 DEF Ends
<1> HIDE DEF turned, hung, kids, ups, q, top
<1>14. PICK u : u = [root |-> top, child |-> kids, parent |-> ups, color |-> t.color]
    OBVIOUS
<1>15. u.root = top /\ u.child = kids /\ u.parent = ups /\ u.color = t.color
    BY <1>14
<1>16. IsTree(u)
    BY <1>10, <1>12, <1>13, <1>14 DEF IsTree, Ends, top
<1>17. Rotated(t, u, s, n, temp, inner)
    BY <1>1, <1>12, <1>13, <1>15, <1>16 DEF Rotated, top
<1> QED BY <1>4, <1>9, <1>14, <1>17

LEMMA RotatedIn ==
    ASSUME NEW t, NEW N, NEW at, NEW pos, NEW lo, NEW hi, IsShape(t, N, at, pos, lo, hi),
           NEW s \in Sides, NEW n \in Nodes, NEW temp \in Nodes, t.child[Other(s)][n] = temp,
           NEW u, Rotated(t, u, s, n, temp, t.child[s][temp])
    PROVE  /\ In(u) = In(t)
           /\ \A m \in In(u) \ {u.root} : HangsFrom(u, m, u.parent[m])
           /\ \A m \in Nodes \ In(u) : u.child["left"][m] = NULL /\ u.child["right"][m] = NULL
<1>1. PICK o \in Sides : o = Other(s)
    BY SidesAre
<1>2. o # s /\ s = Other(o) /\ Sides = {s, o}
    BY <1>1, SidesAre
<1>3. /\ n \in In(t) /\ temp \in In(t) /\ t.parent[temp] = n /\ temp # t.root /\ temp # n
      /\ t.child[s][n] # temp
    BY <1>1, <1>2, ChildOnce
<1>4. PICK inner \in In(t) \cup {sentinel} : inner = t.child[s][temp]
    BY <1>3, ChildIn
<1>5. inner # n /\ inner # temp /\ (inner # sentinel => inner # t.root /\ t.parent[inner] = temp)
    BY <1>1, <1>3, <1>4, NoLoop, ChildOnce, ShapeFacts
<1>6. In(t) \subseteq Nodes /\ sentinel \notin Nodes /\ NULL \notin Nodes
    BY ShapeFacts
<1>7. Rotated(t, u, s, n, temp, inner)
    BY <1>4
<1>8. In(u) = In(t)
  <2>1. ASSUME NEW m \in Nodes PROVE m \in In(u) <=> m \in In(t)
    <3>1. CASE m = n
        BY <1>3, <1>6, <1>7, <3>1 DEF Rotated, In
    <3>2. CASE m = temp
        BY <1>3, <1>6, <1>7, <3>2 DEF Rotated, In
    <3>3. CASE m = inner
        BY <1>4, <1>5, <1>6, <1>7, <3>3 DEF Rotated, In, Ends
    <3>4. CASE m \notin {n, temp, inner}
        BY <1>6, <1>7, <3>4 DEF Rotated, In, Ends
    <3> QED BY <3>1, <3>2, <3>3, <3>4
  <2> QED BY <2>1 DEF In
<1>9. ASSUME NEW m \in In(u), m # u.root PROVE HangsFrom(u, m, u.parent[m])
  <2>0. \A up : HangsFrom(u, m, up) <=> up \in In(u) /\ \E x \in Sides : u.child[x][up] = m
      BY SidesAre DEF HangsFrom
  <2>1. CASE m = temp
    <3>1. n # t.root /\ u.parent[m] = t.parent[n]
        BY <1>7, <2>1, <1>9 DEF Rotated
    <3>2. PICK x \in Sides : x = SideOf(t, n)
        BY <1>3, <3>1, ParentOf
    <3>3. PICK q \in In(t) : q = t.parent[n] /\ t.child[x][q] = n
        BY <1>3, <3>1, <3>2, ParentOf
    <3>4. q # n /\ q # temp
        BY <1>1, <1>2, <1>6, <3>3, ChildOnce, NoLoop
    <3>5. u.child[x][q] = temp
        BY <1>6, <1>7, <3>3, <3>4 DEF Rotated
    <3> QED BY <1>8, <2>0, <2>1, <3>1, <3>3, <3>5
  <2>2. CASE m = n
      BY <1>3, <1>7, <1>8, <2>0, <2>2 DEF Rotated
  <2>3. CASE m = inner
      BY <1>1, <1>3, <1>5, <1>6, <1>7, <1>8, <2>0, <2>3 DEF Rotated, Ends
  <2>4. CASE m \notin {temp, n, inner}
    <3>1. m # t.root /\ m \in Ends /\ m \in In(t)
        BY <1>3, <1>6, <1>7, <1>8, <2>4, <1>9 DEF Rotated, Ends
    <3>2. u.parent[m] = t.parent[m]
        BY <1>7, <2>4, <3>1 DEF Rotated
    <3>3. PICK x \in Sides : x = SideOf(t, m)
        BY <3>1, ParentOf
    <3>4. PICK q \in In(t) : q = t.parent[m] /\ t.child[x][q] = m
        BY <3>1, <3>3, ParentOf
    <3>5. CASE q = n
        BY <1>1, <1>2, <1>7, <1>8, <2>0, <2>4, <3>2, <3>4, <3>5 DEF Rotated
    <3>6. CASE q = temp
        BY <1>1, <1>2, <1>4, <1>7, <1>8, <2>0, <2>4, <3>2, <3>4, <3>6 DEF Rotated
    <3>7. CASE q \notin {n, temp}
      <4>1. u.child[x][q] = m
          BY <1>6, <1>7, <2>4, <3>4, <3>7 DEF Rotated
      <4> QED BY <4>1, <1>8, <2>0, <3>2, <3>4
    <3> QED BY <3>5, <3>6, <3>7
  <2> QED BY <2>1, <2>2, <2>3, <2>4
<1>10. ASSUME NEW m \in Nodes \ In(u) PROVE u.child["left"][m] = NULL /\ u.child["right"][m] = NULL
  <2>1. m \notin {n, temp} /\ m \in Nodes /\ m \notin In(t)
      BY <1>3, <1>8
  <2>2. t.child["left"][m] = NULL /\ t.child["right"][m] = NULL
      BY <2>1 DEF IsShape, Spans
  <2> QED BY <1>6, <1>7, <2>1, <2>2, SidesAre DEF Rotated
<1> QED BY <1>8, <1>9, <1>10

(* A node to whose children nothing happens keeps its span.                *)
LEMMA StaysHung ==
    ASSUME NEW t, NEW u, NEW m, NEW c, NEW pos, NEW lo, NEW hi, NEW lo2, NEW hi2,
           In(u) = In(t), lo2[m] = lo[m], hi2[m] = hi[m],
           c # sentinel => u.parent[c] = t.parent[c] /\ lo2[c] = lo[c] /\ hi2[c] = hi[c]
    PROVE  /\ OnLeft(t, m, c, pos, lo, hi) => OnLeft(u, m, c, pos, lo2, hi2)
           /\ OnRight(t, m, c, pos, lo, hi) => OnRight(u, m, c, pos, lo2, hi2)
    BY DEF OnLeft, OnRight

(* The spans of the two nodes after the rotation.                          *)
NewLo(s, n, temp, pos, lo) ==
    IF s = "left" THEN [lo EXCEPT ![temp] = lo[n]] ELSE [lo EXCEPT ![n] = pos[temp] + 1]
NewHi(s, n, temp, pos, hi) ==
    IF s = "left" THEN [hi EXCEPT ![n] = pos[temp] - 1] ELSE [hi EXCEPT ![temp] = hi[n]]

LEMMA RotateSpans ==
    ASSUME NEW t, NEW N, NEW at, NEW pos, NEW lo, NEW hi, IsShape(t, N, at, pos, lo, hi),
           NEW s \in Sides, NEW n \in Nodes, NEW temp \in Nodes, t.child[Other(s)][n] = temp,
           NEW u, Rotated(t, u, s, n, temp, t.child[s][temp])
    PROVE  IsShape(u, N, at, pos, NewLo(s, n, temp, pos, lo), NewHi(s, n, temp, pos, hi))
<1>1. PICK o \in Sides : o = Other(s)
    BY SidesAre
<1>2. o # s /\ s = Other(o) /\ ((s = "left" /\ o = "right") \/ (s = "right" /\ o = "left"))
    BY <1>1, SidesAre
<1>3. /\ n \in In(t) /\ temp \in In(t) /\ t.parent[temp] = n /\ temp # t.root /\ temp # n
      /\ t.child[s][n] # temp
    BY <1>1, <1>2, ChildOnce
<1>4. PICK inner \in In(t) \cup {sentinel} : inner = t.child[s][temp]
    BY <1>3, ChildIn
<1>5. inner # n /\ inner # temp /\ (inner # sentinel => inner # t.root /\ t.parent[inner] = temp)
    BY <1>1, <1>3, <1>4, NoLoop, ChildOnce, ShapeFacts
<1>6. /\ In(t) \subseteq Nodes /\ sentinel \notin Nodes /\ NULL \notin Nodes /\ N \in Nat
      /\ \A m \in In(t) : pos[m] \in Int /\ lo[m] \in Int /\ hi[m] \in Int
    BY ShapeFacts
<1>7. Rotated(t, u, s, n, temp, inner)
    BY <1>4
<1>8. In(u) = In(t)
    BY RotatedIn
<1>9. PICK a : a = t.child[s][n]
    OBVIOUS
<1>10. PICK b : b = t.child[o][temp]
    OBVIOUS
<1>11. /\ a \in In(t) \cup {sentinel} /\ b \in In(t) \cup {sentinel}
       /\ a # n /\ a # temp /\ b # n /\ b # temp
       /\ a # sentinel => t.parent[a] = n /\ a # inner
       /\ b # sentinel => t.parent[b] = temp /\ b # inner
  <2>1. a \in In(t) \cup {sentinel} /\ b \in In(t) \cup {sentinel}
      BY <1>3, <1>9, <1>10, ChildIn
  <2>2. a # sentinel => t.parent[a] = n /\ a # n
      BY <2>1, <1>6, <1>9, ChildOnce
  <2>3. b # sentinel => t.parent[b] = temp /\ b # temp
      BY <2>1, <1>6, <1>10, ChildOnce
  <2>4. b # n
      BY <1>1, <1>10, NoLoop
  <2>5. ASSUME b # sentinel PROVE b # inner
    <3>1. b \in Nodes /\ t.child[o][temp] = b
        BY <1>6, <1>10, <2>1, <2>5
    <3>2. t.child[Other(o)][temp] # b
        BY <3>1, ChildOnce
    <3> QED BY <1>2, <1>4, <3>2
  <2> QED BY <1>9, <1>10, <1>3, <1>4, <1>5, <1>6, <2>1, <2>2, <2>3, <2>4, <2>5
<1>12. PICK lo2 : lo2 = NewLo(s, n, temp, pos, lo)
    OBVIOUS
<1>13. PICK hi2 : hi2 = NewHi(s, n, temp, pos, hi)
    OBVIOUS
<1>14. /\ lo2 \in [Nodes -> Int] /\ hi2 \in [Nodes -> Int]
       /\ \A m \in Nodes \ {n, temp} : lo2[m] = lo[m] /\ hi2[m] = hi[m]
       /\ s = "left" => /\ lo2[n] = lo[n] /\ hi2[n] = pos[temp] - 1
                        /\ lo2[temp] = lo[n] /\ hi2[temp] = hi[temp]
       /\ s = "right" => /\ lo2[n] = pos[temp] + 1 /\ hi2[n] = hi[n]
                         /\ lo2[temp] = lo[temp] /\ hi2[temp] = hi[n]
  <2>1. lo \in [Nodes -> Int] /\ hi \in [Nodes -> Int] /\ pos[temp] \in Int
        /\ lo[n] \in Int /\ hi[n] \in Int
      BY <1>3, <1>6 DEF IsShape, Spans
  <2> QED BY <1>2, <1>3, <1>12, <1>13, <2>1 DEF NewLo, NewHi
<1>15. /\ lo[n] <= pos[n] /\ pos[n] <= hi[n] /\ lo[temp] <= pos[temp] /\ pos[temp] <= hi[temp]
       /\ OnLeft(t, n, t.child["left"][n], pos, lo, hi)
       /\ OnRight(t, n, t.child["right"][n], pos, lo, hi)
       /\ OnLeft(t, temp, t.child["left"][temp], pos, lo, hi)
       /\ OnRight(t, temp, t.child["right"][temp], pos, lo, hi)
    BY <1>3 DEF IsShape, Spans
<1>16. /\ u.child[o][n] = inner /\ u.child[s][n] = a
       /\ u.child[s][temp] = n /\ u.child[o][temp] = b
       /\ u.parent[n] = temp
       /\ a # sentinel => u.parent[a] = n /\ lo2[a] = lo[a] /\ hi2[a] = hi[a]
       /\ b # sentinel => u.parent[b] = temp /\ lo2[b] = lo[b] /\ hi2[b] = hi[b]
       /\ inner # sentinel => u.parent[inner] = n /\ lo2[inner] = lo[inner] /\ hi2[inner] = hi[inner]
  <2>1. /\ u.child[o][n] = inner /\ u.child[s][n] = a
        /\ u.child[s][temp] = n /\ u.child[o][temp] = b
        /\ u.parent[n] = temp
      BY <1>1, <1>7, <1>9, <1>10 DEF Rotated
  <2>2. a # sentinel => u.parent[a] = n /\ lo2[a] = lo[a] /\ hi2[a] = hi[a]
      BY <1>6, <1>7, <1>11, <1>14 DEF Rotated, Ends
  <2>3. b # sentinel => u.parent[b] = temp /\ lo2[b] = lo[b] /\ hi2[b] = hi[b]
      BY <1>6, <1>7, <1>11, <1>14 DEF Rotated, Ends
  <2>4. inner # sentinel => u.parent[inner] = n /\ lo2[inner] = lo[inner] /\ hi2[inner] = hi[inner]
      BY <1>4, <1>5, <1>6, <1>7, <1>14 DEF Rotated, Ends
  <2> QED BY <2>1, <2>2, <2>3, <2>4
<1>17. /\ pos[n] \in Int /\ pos[temp] \in Int /\ lo[n] \in Int /\ hi[n] \in Int
       /\ lo[temp] \in Int /\ hi[temp] \in Int /\ temp # sentinel /\ n # sentinel
    BY <1>3, <1>6
<1>18. /\ lo2[n] <= pos[n] /\ pos[n] <= hi2[n] /\ lo2[temp] <= pos[temp] /\ pos[temp] <= hi2[temp]
       /\ OnLeft(u, n, u.child["left"][n], pos, lo2, hi2)
       /\ OnRight(u, n, u.child["right"][n], pos, lo2, hi2)
       /\ OnLeft(u, temp, u.child["left"][temp], pos, lo2, hi2)
       /\ OnRight(u, temp, u.child["right"][temp], pos, lo2, hi2)
  <2>1. CASE s = "left"
    <3>1. /\ OnLeft(t, n, a, pos, lo, hi) /\ OnRight(t, n, temp, pos, lo, hi)
          /\ OnLeft(t, temp, inner, pos, lo, hi) /\ OnRight(t, temp, b, pos, lo, hi)
        BY <1>1, <1>2, <1>4, <1>9, <1>10, <1>15, <2>1
    <3>2. lo2[n] <= pos[n] /\ pos[n] <= hi2[n] /\ lo2[temp] <= pos[temp] /\ pos[temp] <= hi2[temp]
        BY <1>14, <1>15, <1>17, <2>1, <3>1 DEF OnRight
    <3>3. OnLeft(u, n, a, pos, lo2, hi2) /\ OnRight(u, temp, b, pos, lo2, hi2)
        BY <1>8, <1>14, <1>16, <2>1, <3>1 DEF OnLeft, OnRight
    <3>4. OnRight(u, n, inner, pos, lo2, hi2)
        BY <1>4, <1>8, <1>14, <1>16, <1>17, <2>1, <3>1 DEF OnLeft, OnRight
    <3>5. OnLeft(u, temp, n, pos, lo2, hi2)
        BY <1>3, <1>8, <1>14, <1>16, <1>17, <2>1, <3>1 DEF OnLeft, OnRight
    <3> QED BY <1>2, <1>16, <2>1, <3>2, <3>3, <3>4, <3>5
  <2>2. CASE s = "right"
    <3>1. /\ OnRight(t, n, a, pos, lo, hi) /\ OnLeft(t, n, temp, pos, lo, hi)
          /\ OnRight(t, temp, inner, pos, lo, hi) /\ OnLeft(t, temp, b, pos, lo, hi)
        BY <1>1, <1>2, <1>4, <1>9, <1>10, <1>15, <2>2
    <3>2. lo2[n] <= pos[n] /\ pos[n] <= hi2[n] /\ lo2[temp] <= pos[temp] /\ pos[temp] <= hi2[temp]
        BY <1>14, <1>15, <1>17, <2>2, <3>1 DEF OnLeft
    <3>3. OnRight(u, n, a, pos, lo2, hi2) /\ OnLeft(u, temp, b, pos, lo2, hi2)
        BY <1>8, <1>14, <1>16, <2>2, <3>1 DEF OnLeft, OnRight
    <3>4. OnLeft(u, n, inner, pos, lo2, hi2)
        BY <1>4, <1>8, <1>14, <1>16, <1>17, <2>2, <3>1 DEF OnLeft, OnRight
    <3>5. OnRight(u, temp, n, pos, lo2, hi2)
        BY <1>3, <1>8, <1>14, <1>16, <1>17, <2>2, <3>1 DEF OnLeft, OnRight
    <3> QED BY <1>2, <1>16, <2>2, <3>2, <3>3, <3>4, <3>5
  <2> QED BY <1>2, <2>1, <2>2
<1>19. ASSUME NEW m \in In(t), m \notin {n, temp}
       PROVE  /\ lo2[m] <= pos[m] /\ pos[m] <= hi2[m]
              /\ OnLeft(u, m, u.child["left"][m], pos, lo2, hi2)
              /\ OnRight(u, m, u.child["right"][m], pos, lo2, hi2)
  <2>1. /\ lo[m] <= pos[m] /\ pos[m] <= hi[m]
        /\ OnLeft(t, m, t.child["left"][m], pos, lo, hi)
        /\ OnRight(t, m, t.child["right"][m], pos, lo, hi)
      BY <1>19 DEF IsShape, Spans
  <2>2. lo2[m] = lo[m] /\ hi2[m] = hi[m]
      BY <1>6, <1>14, <1>19
  <2>3. ASSUME NEW x \in Sides, t.child[x][m] # n
        PROVE  /\ u.child[x][m] = t.child[x][m]
               /\ u.child[x][m] # sentinel => /\ u.parent[u.child[x][m]] = t.parent[u.child[x][m]]
                                              /\ lo2[u.child[x][m]] = lo[u.child[x][m]]
                                              /\ hi2[u.child[x][m]] = hi[u.child[x][m]]
    <3>1. u.child[x][m] = t.child[x][m]
        BY <1>6, <1>7, <1>19, <2>3 DEF Rotated
    <3>2. PICK c \in In(t) \cup {sentinel} : c = t.child[x][m]
        BY <1>19, ChildIn
    <3>3. CASE c # sentinel
      <4>1. t.parent[c] = m /\ c \in Nodes
          BY <1>6, <1>19, <3>2, <3>3, ChildOnce
      <4>2. c # temp /\ c # inner /\ c # n
          BY <1>3, <1>5, <1>19, <2>3, <3>2, <3>3, <4>1
      <4> QED BY <1>7, <1>14, <3>1, <3>2, <4>1, <4>2 DEF Rotated, Ends
    <3> QED BY <3>1, <3>2, <3>3
  <2>4. /\ lo2[temp] = lo[n] /\ hi2[temp] = hi[n] /\ u.parent[temp] = t.parent[n]
    <3>1. u.parent[temp] = t.parent[n]
        BY <1>7 DEF Rotated
    <3>2. CASE s = "left"
        BY <1>1, <1>2, <1>14, <1>15, <1>17, <3>1, <3>2 DEF OnRight
    <3>3. CASE s = "right"
        BY <1>1, <1>2, <1>14, <1>15, <1>17, <3>1, <3>3 DEF OnLeft
    <3> QED BY <1>2, <3>2, <3>3
  <2>5. OnLeft(u, m, u.child["left"][m], pos, lo2, hi2)
    <3>0. "left" \in Sides
        BY SidesAre
    <3>1. CASE t.child["left"][m] = n
      <4>1. u.child["left"][m] = temp
          BY <1>6, <1>7, <1>19, <3>0, <3>1 DEF Rotated
      <4> QED BY <1>3, <1>8, <1>17, <2>1, <2>2, <2>4, <3>1, <4>1 DEF OnLeft
    <3>2. CASE t.child["left"][m] # n
        BY <1>8, <2>1, <2>2, <2>3, <3>0, <3>2, StaysHung
    <3> QED BY <3>1, <3>2
  <2>6. OnRight(u, m, u.child["right"][m], pos, lo2, hi2)
    <3>0. "right" \in Sides
        BY SidesAre
    <3>1. CASE t.child["right"][m] = n
      <4>1. u.child["right"][m] = temp
          BY <1>6, <1>7, <1>19, <3>0, <3>1 DEF Rotated
      <4> QED BY <1>3, <1>8, <1>17, <2>1, <2>2, <2>4, <3>1, <4>1 DEF OnRight
    <3>2. CASE t.child["right"][m] # n
        BY <1>8, <2>1, <2>2, <2>3, <3>0, <3>2, StaysHung
    <3> QED BY <3>1, <3>2
  <2> QED BY <2>1, <2>2, <2>5, <2>6
<1>20. /\ u.root \in Nodes => lo2[u.root] = 1 /\ hi2[u.root] = N
       /\ u.root # sentinel
  <2>0. t.root \in In(t)
      BY <1>3, ShapeFacts
  <2>1. /\ u.root = IF n = t.root THEN temp ELSE t.root
        /\ t.root \in In(t) /\ t.root \in Nodes /\ lo[t.root] = 1 /\ hi[t.root] = N
      BY <1>6, <1>7, <2>0 DEF IsShape, Spans, Rotated
  <2>2. CASE n = t.root
    <3>1. lo2[temp] = lo[n] /\ hi2[temp] = hi[n]
      <4>1. CASE s = "left"
          BY <1>1, <1>2, <1>14, <1>15, <1>17, <4>1 DEF OnRight
      <4>2. CASE s = "right"
          BY <1>1, <1>2, <1>14, <1>15, <1>17, <4>2 DEF OnLeft
      <4> QED BY <1>2, <4>1, <4>2
    <3> QED BY <1>17, <2>1, <2>2, <3>1
  <2>3. CASE n # t.root
      BY <1>3, <1>6, <1>14, <2>1, <2>3
  <2> QED BY <2>2, <2>3
<1>21. Spans(u, N, pos, lo2, hi2)
  <2>1. \A m \in In(u) : /\ lo2[m] <= pos[m] /\ pos[m] <= hi2[m]
                         /\ OnLeft(u, m, u.child["left"][m], pos, lo2, hi2)
                         /\ OnRight(u, m, u.child["right"][m], pos, lo2, hi2)
      BY <1>8, <1>18, <1>19
  <2>2. /\ \A m \in In(u) \ {u.root} : HangsFrom(u, m, u.parent[m])
        /\ \A m \in Nodes \ In(u) : u.child["left"][m] = NULL /\ u.child["right"][m] = NULL
      BY RotatedIn
  <2> QED BY <1>14, <1>20, <2>1, <2>2 DEF Spans
<1>22. IsTree(u) /\ Placed(u, N, at, pos)
    BY <1>7, <1>8 DEF IsShape, Placed, Rotated
<1> QED BY <1>12, <1>13, <1>21, <1>22 DEF IsShape

-----------------------------------------------------------------------------
(* Colors.                                                                 *)

LEMMA ColorFields ==
    ASSUME NEW t, IsTree(t), NEW n \in Ends
    PROVE  /\ IsTree(Black(t, n)) /\ IsTree(Red(t, n))
           /\ Black(t, n).root = t.root /\ Red(t, n).root = t.root
           /\ Black(t, n).child = t.child /\ Red(t, n).child = t.child
           /\ Black(t, n).parent = t.parent /\ Red(t, n).parent = t.parent
           /\ Black(t, n).color = [t.color EXCEPT ![n] = "black"]
           /\ Red(t, n).color = [t.color EXCEPT ![n] = "red"]
           /\ t.color \in [Ends -> {"red", "black"}]
<1>1. \A c \in {"red", "black"} : [t.color EXCEPT ![n] = c] \in [Ends -> {"red", "black"}]
    BY DEF IsTree
<1>2. /\ Black(t, n) = [root |-> t.root, child |-> t.child, parent |-> t.parent,
                        color |-> [t.color EXCEPT ![n] = "black"]]
      /\ Red(t, n) = [root |-> t.root, child |-> t.child, parent |-> t.parent,
                      color |-> [t.color EXCEPT ![n] = "red"]]
    BY DEF IsTree, Black, Red
<1> QED BY <1>1, <1>2 DEF IsTree

(* A change of colors leaves the pointers as they are.                     *)
LEMMA Recolored ==
    ASSUME NEW t, NEW N, NEW at, NEW pos, NEW lo, NEW hi, IsShape(t, N, at, pos, lo, hi),
           NEW u, IsTree(u), u.root = t.root, u.child = t.child, u.parent = t.parent
    PROVE  IsShape(u, N, at, pos, lo, hi) /\ In(u) = In(t)
<1>1. In(u) = In(t)
    BY DEF In
<1>2. Placed(u, N, at, pos)
    BY <1>1 DEF IsShape, Placed
<1>3. Spans(u, N, pos, lo, hi)
    BY <1>1 DEF IsShape, Spans, OnLeft, OnRight, HangsFrom
<1> QED BY <1>1, <1>2, <1>3 DEF IsShape

(* Black heights: b[m] is the number of black nodes on each way down from  *)
(* m, the one that the subtree of x lacks included.                        *)
Weight(t, x, m) == (IF t.color[m] = "black" THEN 1 ELSE 0) + (IF m = x THEN 1 ELSE 0)

Below(t, x, b, m, c) ==
    IF c # sentinel THEN b[c]
    ELSE IF x = sentinel /\ m = t.parent[sentinel] THEN 2 ELSE 1

Even(t, x, b, m) ==
    /\ b[m] >= 1
    /\ \A s \in Sides : b[m] = Weight(t, x, m) + Below(t, x, b, m, t.child[s][m])

Heights(t, x, b) ==
    /\ b \in [Nodes -> Int]
    /\ \A m \in In(t) : Even(t, x, b, m)
    /\ t.color[sentinel] = "black"

LEMMA HeightFacts ==
    ASSUME NEW t, NEW N, NEW at, NEW pos, NEW lo, NEW hi, IsShape(t, N, at, pos, lo, hi),
           NEW x, NEW b, Heights(t, x, b), NEW m \in In(t), NEW s \in Sides
    PROVE  /\ b[m] \in Int /\ b[m] >= 1
           /\ Below(t, x, b, m, t.child[s][m]) \in Int /\ Below(t, x, b, m, t.child[s][m]) >= 1
           /\ b[m] = Weight(t, x, m) + Below(t, x, b, m, t.child[s][m])
           /\ Weight(t, x, m) \in Int /\ Weight(t, x, m) >= 0
<1>1. \A k \in In(t) : b[k] \in Int /\ b[k] >= 1
    BY ShapeFacts DEF Heights, Even
<1>2. t.child[s][m] \in In(t) \cup {sentinel}
    BY ChildIn
<1>3. Below(t, x, b, m, t.child[s][m]) \in Int /\ Below(t, x, b, m, t.child[s][m]) >= 1
    BY <1>1, <1>2 DEF Below
<1>4. b[m] = Weight(t, x, m) + Below(t, x, b, m, t.child[s][m])
    BY DEF Heights, Even
<1> QED BY <1>1, <1>3, <1>4 DEF Weight

(* The nodes that are red under a red parent.                              *)
RedRed(t) ==
    {m \in In(t) : m # t.root /\ t.color[m] = "red" /\ t.color[t.parent[m]] = "red"}

-----------------------------------------------------------------------------
(* What rotations and new colors do to the heights.                        *)

Repainted(t, k) == IsTree(k) /\ k.root = t.root /\ k.child = t.child /\ k.parent = t.parent

LEMMA RepaintedIs ==
    ASSUME NEW t, NEW N, NEW at, NEW pos, NEW lo, NEW hi, IsShape(t, N, at, pos, lo, hi),
           NEW k, Repainted(t, k)
    PROVE  IsShape(k, N, at, pos, lo, hi) /\ In(k) = In(t)
    BY Recolored DEF Repainted

(* A red temp and its parent n change colors and places: what is below     *)
(* them stays as high.                                                     *)
Swapped(b, n, temp) == [b EXCEPT ![n] = b[temp], ![temp] = b[n]]

LEMMA SwapHeights ==
    ASSUME NEW t, NEW N, NEW at, NEW pos, NEW lo, NEW hi, IsShape(t, N, at, pos, lo, hi),
           NEW s \in Sides, NEW n \in Nodes, NEW temp \in Nodes, t.child[Other(s)][n] = temp,
           NEW x, NEW b, Heights(t, x, b), x # n, x # temp, t.color[temp] = "red",
           x = sentinel /\ t.child[s][temp] = sentinel => t.parent[sentinel] \notin {n, temp},
           NEW k, Repainted(t, k), k.color[n] = "red", k.color[temp] = t.color[n],
           \A m \in Ends \ {n, temp} : k.color[m] = t.color[m],
           NEW u, Rotated(k, u, s, n, temp, t.child[s][temp])
    PROVE  Heights(u, x, Swapped(b, n, temp))
<1>1. PICK o \in Sides : o = Other(s)
    BY SidesAre
<1>2. o # s /\ s = Other(o) /\ Sides = {s, o}
    BY <1>1, SidesAre
<1>3. /\ n \in In(t) /\ temp \in In(t) /\ t.parent[temp] = n /\ temp # t.root /\ temp # n
      /\ t.child[s][n] # temp
    BY <1>1, <1>2, ChildOnce
<1>4. PICK inner \in In(t) \cup {sentinel} : inner = t.child[s][temp]
    BY <1>3, ChildIn
<1>5. PICK a \in In(t) \cup {sentinel} : a = t.child[s][n]
    BY <1>3, ChildIn
<1>6. PICK far \in In(t) \cup {sentinel} : far = t.child[o][temp]
    BY <1>3, ChildIn
<1>7. /\ In(t) \subseteq Nodes /\ sentinel \notin Nodes /\ n # sentinel /\ temp # sentinel
    BY ShapeFacts
<1>8. /\ inner # n /\ inner # temp /\ a # n /\ a # temp /\ far # n /\ far # temp
    BY <1>1, <1>3, <1>4, <1>5, <1>6, <1>7, NoLoop, ChildOnce
<1>9. IsShape(k, N, at, pos, lo, hi) /\ In(k) = In(t)
    BY RepaintedIs
<1>10. In(u) = In(t)
    BY <1>9, RotatedIn DEF Repainted
<1>11. /\ u.child[o][n] = inner /\ u.child[s][n] = a /\ u.child[s][temp] = n /\ u.child[o][temp] = far
       /\ \A y \in Sides : \A m \in Nodes \ {n, temp} :
            u.child[y][m] = IF t.child[y][m] = n THEN temp ELSE t.child[y][m]
       /\ u.parent[sentinel] = t.parent[sentinel]
       /\ u.color[n] = "red" /\ u.color[temp] = t.color[n]
       /\ \A m \in Ends \ {n, temp} : u.color[m] = t.color[m]
    BY <1>1, <1>4, <1>5, <1>6, <1>7 DEF Rotated, Repainted, Ends
<1>12. PICK b2 : b2 = Swapped(b, n, temp)
    OBVIOUS
<1>13. /\ b2 \in [Nodes -> Int] /\ b2[n] = b[temp] /\ b2[temp] = b[n]
       /\ \A m \in Nodes \ {n, temp} : b2[m] = b[m]
       /\ b[n] \in Int /\ b[temp] \in Int /\ b[n] >= 1 /\ b[temp] >= 1
    BY <1>3, <1>12 DEF Swapped, Heights, Even
(* Seen from n and from temp, the children they had are as high.           *)
<1>14. PICK h \in Int : h = b[temp]
    BY <1>13
<1>15. /\ Below(t, x, b, temp, inner) = h /\ Below(t, x, b, temp, far) = h
       /\ Below(t, x, b, n, a) = h /\ b[n] = Weight(t, x, n) + h
       /\ Weight(t, x, n) \in Int
  <2>1. Weight(t, x, temp) = 0 /\ Weight(t, x, n) \in Int
      BY DEF Weight
  <2>2. /\ b[temp] = 0 + Below(t, x, b, temp, inner) /\ b[temp] = 0 + Below(t, x, b, temp, far)
        /\ Below(t, x, b, temp, inner) \in Int /\ Below(t, x, b, temp, far) \in Int
      BY <1>1, <1>3, <1>4, <1>6, <2>1, HeightFacts
  <2>3. b[n] = Weight(t, x, n) + Below(t, x, b, n, a) /\ Below(t, x, b, n, a) \in Int
      BY <1>3, <1>5, HeightFacts
  <2>4. b[n] = Weight(t, x, n) + Below(t, x, b, n, temp)
      BY <1>1, <1>3, HeightFacts
  <2>5. Below(t, x, b, n, temp) = b[temp]
      BY <1>7 DEF Below
  <2> QED BY <1>13, <1>14, <2>1, <2>2, <2>3, <2>4, <2>5
<1>16. /\ Below(u, x, b2, n, inner) = h /\ Below(u, x, b2, n, a) = h
       /\ Below(u, x, b2, temp, far) = h /\ Below(u, x, b2, temp, n) = h
  <2>1. Below(u, x, b2, n, inner) = h
    <3>1. CASE inner = sentinel
        BY <1>4, <1>11, <1>15, <3>1 DEF Below
    <3>2. CASE inner # sentinel
        BY <1>7, <1>8, <1>13, <1>15, <3>2 DEF Below
    <3> QED BY <3>1, <3>2
  <2>2. Below(u, x, b2, n, a) = h
      BY <1>7, <1>8, <1>11, <1>13, <1>15 DEF Below
  <2>3. Below(u, x, b2, temp, far) = h
      BY <1>7, <1>8, <1>11, <1>13, <1>15 DEF Below
  <2>4. Below(u, x, b2, temp, n) = h
      BY <1>7, <1>13, <1>14 DEF Below
  <2> QED BY <2>1, <2>2, <2>3, <2>4
<1>17. Weight(u, x, n) = 0 /\ Weight(u, x, temp) = Weight(t, x, n)
    BY <1>11 DEF Weight
<1>18. Even(u, x, b2, n)
    BY <1>2, <1>11, <1>13, <1>14, <1>16, <1>17 DEF Even
<1>19. Even(u, x, b2, temp)
    BY <1>2, <1>11, <1>13, <1>14, <1>15, <1>16, <1>17 DEF Even
<1>20. ASSUME NEW m \in In(t), m \notin {n, temp} PROVE Even(u, x, b2, m)
  <2>1. b2[m] = b[m] /\ Weight(u, x, m) = Weight(t, x, m) /\ b2[m] >= 1
      BY <1>7, <1>11, <1>13, <1>20 DEF Weight, Ends, Heights, Even
  <2>2. ASSUME NEW y \in Sides
        PROVE  Below(u, x, b2, m, u.child[y][m]) = Below(t, x, b, m, t.child[y][m])
    <3>1. CASE t.child[y][m] = n
      <4>1. u.child[y][m] = temp
          BY <1>7, <1>11, <1>20, <3>1
      <4> QED BY <1>7, <1>13, <3>1, <4>1 DEF Below
    <3>2. CASE t.child[y][m] # n
      <4>1. u.child[y][m] = t.child[y][m]
          BY <1>7, <1>11, <1>20, <3>2
      <4>2. t.child[y][m] # temp /\ t.child[y][m] \in In(t) \cup {sentinel}
          BY <1>3, <1>7, <1>20, ChildOnce, ChildIn
      <4> QED BY <1>7, <1>11, <1>13, <3>2, <4>1, <4>2 DEF Below
    <3> QED BY <3>1, <3>2
  <2>3. \A y \in Sides : b[m] = Weight(t, x, m) + Below(t, x, b, m, t.child[y][m])
      BY <1>20 DEF Heights, Even
  <2> QED BY <2>1, <2>2, <2>3 DEF Even
<1>21. u.color[sentinel] = "black"
    BY <1>7, <1>11 DEF Heights, Ends
<1> QED BY <1>10, <1>12, <1>13, <1>18, <1>19, <1>20, <1>21 DEF Heights

(* The last rotation of a deletion: the red far nephew turns black, and    *)
(* the parent p comes down as the black node that the way to x lacks.      *)
Filled(b, x, p, v, far) ==
    [m \in Nodes |-> IF m = x THEN b[m] - 1
                     ELSE IF m = p THEN b[v]
                     ELSE IF m = v THEN b[p]
                     ELSE IF m = far THEN b[m] + 1
                     ELSE b[m]]

LEMMA FillHeights ==
    ASSUME NEW t, NEW N, NEW at, NEW pos, NEW lo, NEW hi, IsShape(t, N, at, pos, lo, hi),
           NEW s \in Sides, NEW p \in Nodes, NEW v \in Nodes, t.child[Other(s)][p] = v,
           NEW x, t.child[s][p] = x, x = sentinel => t.parent[sentinel] = p,
           NEW far \in Nodes, t.child[Other(s)][v] = far,
           t.color[v] = "black", t.color[far] = "red",
           NEW b, Heights(t, x, b),
           NEW k, Repainted(t, k), k.color[v] = t.color[p], k.color[p] = "black",
           k.color[far] = "black", \A m \in Ends \ {p, v, far} : k.color[m] = t.color[m],
           NEW u, Rotated(k, u, s, p, v, t.child[s][v])
    PROVE  Heights(u, NULL, Filled(b, x, p, v, far))
<1>1. PICK o \in Sides : o = Other(s)
    BY SidesAre
<1>2. o # s /\ s = Other(o) /\ Sides = {s, o}
    BY <1>1, SidesAre
<1>3. /\ p \in In(t) /\ v \in In(t) /\ t.parent[v] = p /\ v # t.root /\ v # p /\ x # v
    BY <1>1, <1>2, ChildOnce
<1>4. PICK inner \in In(t) \cup {sentinel} : inner = t.child[s][v]
    BY <1>3, ChildIn
<1>5. x \in In(t) \cup {sentinel}
    BY <1>3, ChildIn
<1>6. /\ In(t) \subseteq Nodes /\ sentinel \notin Nodes /\ NULL \notin Nodes /\ NULL # sentinel
      /\ p # sentinel /\ v # sentinel /\ far # sentinel
    BY ShapeFacts
<1>7. far \in In(t) /\ t.parent[far] = v /\ far # v /\ far # p /\ far # x /\ inner # far
  <2>1. far \in In(t) /\ t.parent[far] = v /\ far # v /\ far # p
      BY <1>1, ChildOnce, NoLoop
  <2>2. x # sentinel => t.parent[x] = p
      BY <1>5, <1>6, ChildOnce
  <2>3. t.child[Other(o)][v] # far
      BY <1>1, ChildOnce
  <2> QED BY <1>2, <1>3, <1>4, <1>6, <2>1, <2>2, <2>3
<1>8. /\ inner # p /\ inner # v /\ (inner # sentinel => inner # x)
      /\ x # p /\ (x # sentinel => t.parent[x] = p)
  <2>1. inner # p
      BY <1>1, <1>4, NoLoop
  <2>2. inner # sentinel => inner # v /\ t.parent[inner] = v
      BY <1>4, <1>6, ChildOnce
  <2>3. x # sentinel => x # p /\ t.parent[x] = p
      BY <1>5, <1>6, ChildOnce
  <2> QED BY <1>3, <1>6, <2>1, <2>2, <2>3
<1>9. IsShape(k, N, at, pos, lo, hi) /\ In(k) = In(t)
    BY RepaintedIs
<1>10. In(u) = In(t)
    BY <1>9, RotatedIn DEF Repainted
<1>11. /\ u.child[o][p] = inner /\ u.child[s][p] = x /\ u.child[s][v] = p /\ u.child[o][v] = far
       /\ \A y \in Sides : \A m \in Nodes \ {p, v} :
            u.child[y][m] = IF t.child[y][m] = p THEN v ELSE t.child[y][m]
       /\ u.color[p] = "black" /\ u.color[v] = t.color[p] /\ u.color[far] = "black"
       /\ \A m \in Ends \ {p, v, far} : u.color[m] = t.color[m]
    BY <1>1, <1>4, <1>6 DEF Rotated, Repainted, Ends
<1>12. PICK b2 : b2 = Filled(b, x, p, v, far)
    OBVIOUS
<1>13. /\ b \in [Nodes -> Int] /\ \A m \in In(t) : b[m] >= 1
    BY DEF Heights, Even
<1>14. /\ b2 \in [Nodes -> Int] /\ b2[p] = b[v] /\ b2[v] = b[p] /\ b2[far] = b[far] + 1
       /\ x # sentinel => b2[x] = b[x] - 1
       /\ \A m \in Nodes \ {p, v, far, x} : b2[m] = b[m]
    BY <1>3, <1>5, <1>6, <1>7, <1>8, <1>12, <1>13 DEF Filled
<1>15. PICK h \in Int : h = b[v]
    BY <1>13
<1>16. /\ Weight(t, x, v) = 1 /\ Weight(t, x, far) = 0 /\ Weight(t, x, p) \in Int
       /\ Weight(u, NULL, p) = 1 /\ Weight(u, NULL, far) = 1
       /\ Weight(u, NULL, v) = Weight(t, x, p)
    BY <1>3, <1>6, <1>7, <1>8, <1>11 DEF Weight
<1>17. /\ Below(t, x, b, v, inner) = h - 1 /\ b[far] = h - 1
       /\ Below(t, x, b, p, x) = h /\ b[p] = Weight(t, x, p) + h
  <2>1. /\ b[v] = 1 + Below(t, x, b, v, inner) /\ b[v] = 1 + Below(t, x, b, v, far)
        /\ Below(t, x, b, v, inner) \in Int /\ Below(t, x, b, v, far) \in Int
      BY <1>1, <1>3, <1>4, <1>16, HeightFacts
  <2>2. b[p] = Weight(t, x, p) + Below(t, x, b, p, x) /\ Below(t, x, b, p, x) \in Int
      BY <1>3, HeightFacts
  <2>3. b[p] = Weight(t, x, p) + Below(t, x, b, p, v)
      BY <1>1, <1>3, HeightFacts
  <2>4. Below(t, x, b, p, v) = b[v] /\ Below(t, x, b, v, far) = b[far]
      BY <1>6 DEF Below
  <2> QED BY <1>13, <1>15, <1>16, <2>1, <2>2, <2>3, <2>4
<1>18. /\ Below(u, NULL, b2, p, x) = h - 1 /\ Below(u, NULL, b2, p, inner) = h - 1
       /\ Below(u, NULL, b2, v, p) = h /\ Below(u, NULL, b2, v, far) = h
  <2>1. Below(u, NULL, b2, p, x) = h - 1
    <3>1. CASE x = sentinel
        BY <1>6, <1>17, <3>1 DEF Below
    <3>2. CASE x # sentinel
        BY <1>6, <1>14, <1>17, <3>2 DEF Below
    <3> QED BY <3>1, <3>2
  <2>2. Below(u, NULL, b2, p, inner) = h - 1
    <3>1. CASE inner = sentinel
        BY <1>3, <1>6, <1>17, <3>1 DEF Below
    <3>2. CASE inner # sentinel
        BY <1>4, <1>6, <1>7, <1>8, <1>14, <1>17, <3>2 DEF Below
    <3> QED BY <3>1, <3>2
  <2>3. Below(u, NULL, b2, v, p) = h /\ Below(u, NULL, b2, v, far) = h
      BY <1>6, <1>14, <1>15, <1>17 DEF Below
  <2> QED BY <2>1, <2>2, <2>3
<1>19. h - 1 >= 1
    BY <1>7, <1>13, <1>17
<1>20. Even(u, NULL, b2, p)
    BY <1>2, <1>11, <1>14, <1>15, <1>16, <1>18, <1>19 DEF Even
<1>21. Even(u, NULL, b2, v)
    BY <1>2, <1>3, <1>11, <1>13, <1>14, <1>16, <1>17, <1>18 DEF Even
<1>22. ASSUME NEW m \in In(t), m \notin {p, v}, NEW y \in Sides
       PROVE  /\ u.child[y][m] \in In(t) \cup {sentinel}
              /\ t.child[y][m] # p => u.child[y][m] = t.child[y][m] /\ u.child[y][m] \notin {x, p, v, far} \ {sentinel}
              /\ t.child[y][m] = p => u.child[y][m] = v
  <2>1. t.child[y][m] # v /\ t.child[y][m] \in In(t) \cup {sentinel}
      BY <1>3, <1>6, <1>22, ChildOnce, ChildIn
  <2>2. t.child[y][m] # far /\ (t.child[y][m] # sentinel => t.child[y][m] # x)
      BY <1>5, <1>6, <1>7, <1>8, <1>22, ChildOnce
  <2> QED BY <1>3, <1>6, <1>11, <1>22, <2>1, <2>2
<1>23. ASSUME NEW m \in In(t), m \notin {p, v}, NEW y \in Sides
       PROVE  /\ t.child[y][m] # p =>
                   Below(u, NULL, b2, m, u.child[y][m]) = Below(t, x, b, m, t.child[y][m])
              /\ t.child[y][m] = p =>
                   Below(u, NULL, b2, m, u.child[y][m]) = Below(t, x, b, m, t.child[y][m])
  <2>1. CASE t.child[y][m] = p
      BY <1>6, <1>14, <1>22, <1>23, <2>1 DEF Below
  <2>2. CASE t.child[y][m] = sentinel
      BY <1>6, <1>8, <1>22, <1>23, <2>2 DEF Below
  <2>3. CASE t.child[y][m] \notin {p, sentinel}
      BY <1>6, <1>14, <1>22, <1>23, <2>3 DEF Below
  <2> QED BY <2>1, <2>2, <2>3
<1>24. ASSUME NEW m \in In(t), m \notin {p, v} PROVE Even(u, NULL, b2, m)
  <2>1. \A y \in Sides : /\ Below(u, NULL, b2, m, u.child[y][m]) = Below(t, x, b, m, t.child[y][m])
                         /\ Below(t, x, b, m, t.child[y][m]) \in Int
                         /\ Below(t, x, b, m, t.child[y][m]) >= 1
                         /\ b[m] = Weight(t, x, m) + Below(t, x, b, m, t.child[y][m])
      BY <1>23, <1>24, HeightFacts
  <2>2. Weight(t, x, m) \in Int /\ Weight(t, x, m) >= 0 /\ b[m] >= 1 /\ b[m] \in Int
      BY <1>24, HeightFacts
  <2>3. CASE m = x
    <3>1. Weight(u, NULL, m) = Weight(t, x, m) - 1 /\ Weight(t, x, m) >= 1
        BY <1>6, <1>7, <1>11, <1>24, <2>3 DEF Weight, Ends
    <3> QED BY <1>6, <1>14, <2>1, <2>2, <2>3, <3>1 DEF Even
  <2>4. CASE m = far
    <3>1. Weight(u, NULL, m) = Weight(t, x, m) + 1
        BY <1>16, <2>4
    <3> QED BY <1>14, <2>1, <2>2, <2>4, <3>1 DEF Even
  <2>5. CASE m # x /\ m # far
    <3>1. Weight(u, NULL, m) = Weight(t, x, m) /\ b2[m] = b[m]
        BY <1>6, <1>11, <1>14, <1>24, <2>5 DEF Weight, Ends
    <3> QED BY <2>1, <2>2, <3>1 DEF Even
  <2> QED BY <2>3, <2>4, <2>5
<1>25. u.color[sentinel] = "black"
    BY <1>6, <1>11 DEF Heights, Ends
<1> QED BY <1>10, <1>12, <1>14, <1>20, <1>21, <1>24, <1>25 DEF Heights

(* Nothing counts the root but itself.                                     *)
LEMMA RootHeights ==
    ASSUME NEW t, NEW N, NEW at, NEW pos, NEW lo, NEW hi, IsShape(t, N, at, pos, lo, hi),
           t.root \in Nodes, NEW x, NEW y, NEW b, Heights(t, x, b),
           x # sentinel, y # sentinel,
           \A m \in In(t) \ {t.root} : m = x <=> m = y,
           NEW k, Repainted(t, k), \A m \in Ends \ {t.root} : k.color[m] = t.color[m]
    PROVE  \E b2 : Heights(k, y, b2)
<1>1. PICK r \in In(t) : r = t.root
    BY DEF In
<1>2. In(t) \subseteq Nodes /\ sentinel \notin Nodes /\ r # sentinel /\ k.child = t.child
    BY ShapeFacts DEF Repainted
<1>3. In(k) = In(t)
    BY RepaintedIs
<1>4. PICK b2 : b2 = [b EXCEPT ![r] = b[r] + Weight(k, y, r) - Weight(t, x, r)]
    OBVIOUS
<1>5. \A m \in Nodes : Weight(k, y, m) \in Int /\ Weight(t, x, m) \in Int /\ Weight(k, y, m) >= 0
    BY DEF Weight
<1>6. /\ b2 \in [Nodes -> Int] /\ b2[r] = b[r] + Weight(k, y, r) - Weight(t, x, r)
      /\ \A m \in Nodes \ {r} : b2[m] = b[m]
    BY <1>2, <1>4, <1>5 DEF Heights
<1>7. ASSUME NEW m \in In(t), NEW s \in Sides
      PROVE  Below(k, y, b2, m, k.child[s][m]) = Below(t, x, b, m, t.child[s][m])
  <2>1. t.child[s][m] \in In(t) \cup {sentinel} /\ t.child[s][m] # r
      BY <1>1, <1>2, ChildIn, ChildOnce
  <2> QED BY <1>2, <1>6, <2>1 DEF Below
<1>8. ASSUME NEW m \in In(t) PROVE Even(k, y, b2, m)
  <2>1. \A s \in Sides : /\ Below(t, x, b, m, t.child[s][m]) \in Int
                         /\ Below(t, x, b, m, t.child[s][m]) >= 1
                         /\ b[m] = Weight(t, x, m) + Below(t, x, b, m, t.child[s][m])
      BY <1>8, HeightFacts
  <2>2. b[m] >= 1 /\ b[m] \in Int
      BY <1>8, SidesAre, HeightFacts
  <2>3. CASE m = r
    <3>1. \A s \in Sides : b2[m] = Weight(k, y, m) + Below(t, x, b, m, t.child[s][m])
        BY <1>2, <1>5, <1>6, <2>1, <2>2, <2>3
    <3>2. b2[m] >= 1
        BY <1>2, <1>5, <2>1, <3>1, SidesAre
    <3> QED BY <1>7, <3>1, <3>2 DEF Even
  <2>4. CASE m # r
    <3>1. Weight(k, y, m) = Weight(t, x, m) /\ b2[m] = b[m]
        BY <1>1, <1>2, <1>6, <1>8, <2>4 DEF Weight, Ends
    <3> QED BY <1>7, <2>1, <2>2, <3>1 DEF Even
  <2> QED BY <2>3, <2>4
<1>9. k.color[sentinel] = "black"
    BY <1>1, <1>2 DEF Heights, Ends
<1> QED BY <1>3, <1>6, <1>8, <1>9 DEF Heights

(* A red node that lacks a black one turns black.                          *)
LEMMA MendHeights ==
    ASSUME NEW t, NEW N, NEW at, NEW pos, NEW lo, NEW hi, IsShape(t, N, at, pos, lo, hi),
           NEW x \in Nodes, NEW b, Heights(t, x, b), t.color[x] = "red",
           NEW k, Repainted(t, k), k.color[x] = "black",
           \A m \in Ends \ {x} : k.color[m] = t.color[m]
    PROVE  Heights(k, NULL, b)
<1>1. In(t) \subseteq Nodes /\ sentinel \notin Nodes /\ NULL \notin Nodes /\ NULL # sentinel
      /\ k.child = t.child
    BY ShapeFacts DEF Repainted
<1>2. In(k) = In(t)
    BY RepaintedIs
<1>3. ASSUME NEW m \in In(t) PROVE Even(k, NULL, b, m)
  <2>1. Weight(k, NULL, m) = Weight(t, x, m)
      BY <1>1, <1>3 DEF Weight, Ends
  <2>2. \A s \in Sides : Below(k, NULL, b, m, k.child[s][m]) = Below(t, x, b, m, t.child[s][m])
      BY <1>1, <1>3 DEF Below
  <2> QED BY <1>3, <2>1, <2>2 DEF Heights, Even
<1>4. k.color[sentinel] = "black"
    BY <1>1 DEF Heights, Ends
<1> QED BY <1>2, <1>3, <1>4 DEF Heights

(* The black sibling w of x turns red: now the subtree of p lacks a node.  *)
LEMMA LiftHeights ==
    ASSUME NEW t, NEW N, NEW at, NEW pos, NEW lo, NEW hi, IsShape(t, N, at, pos, lo, hi),
           NEW s \in Sides, NEW p \in Nodes, NEW w \in Nodes, t.child[Other(s)][p] = w,
           NEW x, t.child[s][p] = x, x = sentinel => t.parent[sentinel] = p,
           NEW b, Heights(t, x, b), t.color[w] = "black",
           NEW k, Repainted(t, k), k.color[w] = "red",
           \A m \in Ends \ {w} : k.color[m] = t.color[m]
    PROVE  \E b2 : Heights(k, p, b2)
<1>1. PICK o \in Sides : o = Other(s)
    BY SidesAre
<1>2. o # s /\ s = Other(o) /\ Sides = {s, o}
    BY <1>1, SidesAre
<1>3. /\ p \in In(t) /\ w \in In(t) /\ t.parent[w] = p /\ w # t.root /\ w # p /\ x # w
    BY <1>1, <1>2, ChildOnce
<1>4. /\ In(t) \subseteq Nodes /\ sentinel \notin Nodes /\ p # sentinel /\ w # sentinel
      /\ k.child = t.child /\ k.parent = t.parent
    BY ShapeFacts DEF Repainted
<1>5. x \in In(t) \cup {sentinel}
    BY <1>3, ChildIn
<1>6. x # sentinel => t.parent[x] = p /\ x # p
    BY <1>4, <1>5, ChildOnce
<1>7. In(k) = In(t)
    BY RepaintedIs
<1>8. PICK b2 : b2 = [m \in Nodes |-> IF m \in {w, x} THEN b[m] - 1 ELSE b[m]]
    OBVIOUS
<1>9. b \in [Nodes -> Int] /\ \A m \in In(t) : b[m] >= 1
    BY DEF Heights, Even
<1>10. /\ b2 \in [Nodes -> Int] /\ b2[w] = b[w] - 1 /\ b2[p] = b[p]
       /\ x # sentinel => b2[x] = b[x] - 1
       /\ \A m \in Nodes \ {w, x} : b2[m] = b[m]
    BY <1>3, <1>4, <1>5, <1>6, <1>8, <1>9
<1>11. ASSUME NEW m \in In(t), m # p, NEW y \in Sides
       PROVE  Below(k, p, b2, m, k.child[y][m]) = Below(t, x, b, m, t.child[y][m])
  <2>1. t.child[y][m] \in In(t) \cup {sentinel} /\ t.child[y][m] # w
        /\ (t.child[y][m] # sentinel => t.child[y][m] # x)
      BY <1>3, <1>4, <1>5, <1>6, <1>11, ChildIn, ChildOnce
  <2> QED BY <1>4, <1>10, <1>11, <2>1 DEF Below
<1>12. ASSUME NEW m \in In(t), m # p PROVE Even(k, p, b2, m)
  <2>1. \A y \in Sides : /\ Below(t, x, b, m, t.child[y][m]) \in Int
                         /\ Below(t, x, b, m, t.child[y][m]) >= 1
                         /\ b[m] = Weight(t, x, m) + Below(t, x, b, m, t.child[y][m])
      BY <1>12, HeightFacts
  <2>2. Weight(k, p, m) = IF m \in {w, x} THEN Weight(t, x, m) - 1 ELSE Weight(t, x, m)
      BY <1>3, <1>4, <1>12 DEF Weight, Ends
  <2>3. Weight(k, p, m) \in Int /\ Weight(k, p, m) >= 0 /\ Weight(t, x, m) \in Int
      BY DEF Weight
  <2>4. /\ b[m] \in Int /\ b2[m] = IF m \in {w, x} THEN b[m] - 1 ELSE b[m]
      BY <1>4, <1>9, <1>10, <1>12
  <2>5. \A y \in Sides : b2[m] = Weight(k, p, m) + Below(t, x, b, m, t.child[y][m])
      BY <2>1, <2>2, <2>3, <2>4
  <2>6. b2[m] >= 1
      BY <2>1, <2>3, <2>5, SidesAre
  <2> QED BY <1>11, <1>12, <2>5, <2>6 DEF Even
<1>13. Even(k, p, b2, p)
  <2>1. Weight(k, p, p) = Weight(t, x, p) + 1 /\ Weight(t, x, p) \in Int
      BY <1>3, <1>4, <1>6 DEF Weight, Ends
  <2>2. /\ b[p] = Weight(t, x, p) + Below(t, x, b, p, x) /\ Below(t, x, b, p, x) \in Int
        /\ b[p] = Weight(t, x, p) + Below(t, x, b, p, w) /\ Below(t, x, b, p, w) \in Int
        /\ b[p] \in Int /\ b[p] >= 1
      BY <1>1, <1>3, HeightFacts
  <2>3. Below(k, p, b2, p, x) = Below(t, x, b, p, x) - 1
      BY <1>4, <1>5, <1>6, <1>9, <1>10 DEF Below
  <2>4. Below(k, p, b2, p, w) = Below(t, x, b, p, w) - 1
      BY <1>4, <1>9, <1>10 DEF Below
  <2>5. b[p] = Weight(k, p, p) + Below(k, p, b2, p, x) /\ b[p] = Weight(k, p, p) + Below(k, p, b2, p, w)
      BY <2>1, <2>2, <2>3, <2>4
  <2> QED BY <1>1, <1>2, <1>4, <1>10, <2>2, <2>5 DEF Even
<1>14. k.color[sentinel] = "black"
    BY <1>4 DEF Heights, Ends
<1> QED BY <1>7, <1>10, <1>12, <1>13, <1>14 DEF Heights

(* A red pair turns black below a parent that turns red.                   *)
LEMMA PairHeights ==
    ASSUME NEW t, NEW N, NEW at, NEW pos, NEW lo, NEW hi, IsShape(t, N, at, pos, lo, hi),
           NEW s \in Sides, NEW g \in Nodes, NEW p \in Nodes, NEW w \in Nodes,
           t.child[s][g] = p, t.child[Other(s)][g] = w,
           NEW b, Heights(t, NULL, b),
           t.color[g] = "black", t.color[p] = "red", t.color[w] = "red",
           NEW k, Repainted(t, k), k.color[g] = "red", k.color[p] = "black", k.color[w] = "black",
           \A m \in Ends \ {g, p, w} : k.color[m] = t.color[m]
    PROVE  \E b2 : Heights(k, NULL, b2)
<1>1. PICK o \in Sides : o = Other(s)
    BY SidesAre
<1>2. o # s /\ s = Other(o) /\ Sides = {s, o}
    BY <1>1, SidesAre
<1>3. /\ g \in In(t) /\ p \in In(t) /\ w \in In(t) /\ t.parent[p] = g /\ t.parent[w] = g
      /\ p # g /\ w # g /\ p # w
    BY <1>1, <1>2, ChildOnce
<1>4. /\ In(t) \subseteq Nodes /\ sentinel \notin Nodes /\ NULL \notin Nodes /\ NULL # sentinel
      /\ k.child = t.child
    BY ShapeFacts DEF Repainted
<1>5. In(k) = In(t)
    BY RepaintedIs
<1>6. PICK b2 : b2 = [m \in Nodes |-> IF m \in {p, w} THEN b[m] + 1 ELSE b[m]]
    OBVIOUS
<1>7. b \in [Nodes -> Int] /\ b2 \in [Nodes -> Int] /\ \A m \in In(t) : b[m] >= 1
    BY <1>6 DEF Heights, Even
<1>8. ASSUME NEW m \in In(t), NEW y \in Sides
      PROVE  Below(k, NULL, b2, m, k.child[y][m])
               = Below(t, NULL, b, m, t.child[y][m]) + IF m = g THEN 1 ELSE 0
  <2>1. t.child[y][m] \in In(t) \cup {sentinel}
      BY <1>8, ChildIn
  <2>2. t.child[y][m] \in {p, w} <=> m = g
      BY <1>1, <1>2, <1>3, <1>4, <1>8, ChildOnce
  <2>3. CASE m = g
      BY <1>3, <1>4, <1>6, <1>7, <2>2, <2>3 DEF Below
  <2>4. CASE m # g /\ t.child[y][m] = sentinel
      BY <1>4, <2>4 DEF Below
  <2>5. CASE m # g /\ t.child[y][m] # sentinel
      BY <1>4, <1>6, <1>7, <2>1, <2>2, <2>5 DEF Below
  <2> QED BY <2>3, <2>4, <2>5
<1>9. ASSUME NEW m \in In(t) PROVE Even(k, NULL, b2, m)
  <2>1. \A y \in Sides : /\ Below(t, NULL, b, m, t.child[y][m]) \in Int
                         /\ Below(t, NULL, b, m, t.child[y][m]) >= 1
                         /\ b[m] = Weight(t, NULL, m) + Below(t, NULL, b, m, t.child[y][m])
      BY <1>9, HeightFacts
  <2>2. Weight(k, NULL, m) = IF m = g THEN Weight(t, NULL, m) - 1
                             ELSE IF m \in {p, w} THEN Weight(t, NULL, m) + 1
                             ELSE Weight(t, NULL, m)
      BY <1>3, <1>4, <1>9 DEF Weight, Ends
  <2>3. Weight(t, NULL, m) \in Int
      BY DEF Weight
  <2>4. b[m] \in Int /\ b[m] >= 1 /\ b2[m] = IF m \in {p, w} THEN b[m] + 1 ELSE b[m]
      BY <1>4, <1>6, <1>7, <1>9
  <2>5. \A y \in Sides : b2[m] = Weight(k, NULL, m) + Below(k, NULL, b2, m, k.child[y][m])
      BY <1>3, <1>8, <1>9, <2>1, <2>2, <2>3, <2>4
  <2>6. b2[m] >= 1
      BY <2>4
  <2> QED BY <2>5, <2>6 DEF Even
<1>10. k.color[sentinel] = "black"
  <2>1. sentinel \in Ends \ {g, p, w}
      BY <1>4 DEF Ends
  <2> QED BY <2>1 DEF Heights
<1> QED BY <1>5, <1>7, <1>9, <1>10 DEF Heights

-----------------------------------------------------------------------------
(* The trees between two steps of a call.                                  *)

Shaped(t) == \E N, at, pos, lo, hi : IsShape(t, N, at, pos, lo, hi)
High(t, x) == \E b : Heights(t, x, b)

(* The nodes of t in order are at[1] to at[N].                             *)
Ordered(t, N, at) == \E pos, lo, hi : IsShape(t, N, at, pos, lo, hi)

Settled(t) ==
    /\ Shaped(t) /\ High(t, NULL)
    /\ RedRed(t) = {} /\ t.color[t.root] = "black"

RedOnlyAt(t, n) == RedRed(t) \subseteq {n}

Balancing(t, n) ==
    /\ Shaped(t) /\ High(t, NULL)
    /\ n \in In(t) /\ t.color[n] = "red"
    /\ RedRed(t) \subseteq {n}
    /\ t.color[t.root] = "red" => n = t.root

(* When the lacking place is an empty one, it is known which one.          *)
Alone(t, x) ==
    x = sentinel => /\ t.parent[x] \in In(t)
                    /\ \E s \in Sides : /\ t.child[s][t.parent[x]] = sentinel
                                        /\ t.child[Other(s)][t.parent[x]] # sentinel

Fixing(t, x) ==
    /\ Shaped(t) /\ High(t, x)
    /\ t.root \in In(t) /\ x \in In(t) \cup {sentinel} /\ Alone(t, x)
    /\ \A m \in RedRed(t) : x = m \/ x = t.parent[m]
    /\ t.color[t.root] = "red" => x = t.root

LEMMA TwoPaints ==
    ASSUME NEW t, IsTree(t), NEW n \in Ends, NEW m \in Ends, n # m,
           NEW k, k = Red(Black(t, m), n)
    PROVE  /\ Repainted(t, k) /\ k.color[n] = "red" /\ k.color[m] = "black"
           /\ \A e \in Ends \ {n, m} : k.color[e] = t.color[e]
<1>1. PICK c : c = Black(t, m)
    OBVIOUS
<1>2. /\ IsTree(c) /\ c.root = t.root /\ c.child = t.child /\ c.parent = t.parent
      /\ c.color = [t.color EXCEPT ![m] = "black"] /\ t.color \in [Ends -> {"red", "black"}]
    BY <1>1, ColorFields
<1>3. /\ IsTree(k) /\ k.root = c.root /\ k.child = c.child /\ k.parent = c.parent
      /\ k.color = [c.color EXCEPT ![n] = "red"] /\ c.color \in [Ends -> {"red", "black"}]
  <2>1. IsTree(c)
      BY <1>2
  <2>2. /\ IsTree(Red(c, n)) /\ Red(c, n).root = c.root /\ Red(c, n).child = c.child
        /\ Red(c, n).parent = c.parent /\ Red(c, n).color = [c.color EXCEPT ![n] = "red"]
        /\ c.color \in [Ends -> {"red", "black"}]
      BY <2>1, ColorFields
  <2>3. k = Red(c, n)
      BY <1>1
  <2> QED BY <2>2, <2>3
<1> QED BY <1>2, <1>3 DEF Repainted

LEMMA OnePaint ==
    ASSUME NEW t, IsTree(t), NEW n \in Ends, NEW k
    PROVE  /\ k = Red(t, n) => /\ Repainted(t, k) /\ k.color[n] = "red"
                               /\ \A e \in Ends \ {n} : k.color[e] = t.color[e]
           /\ k = Black(t, n) => /\ Repainted(t, k) /\ k.color[n] = "black"
                                 /\ \A e \in Ends \ {n} : k.color[e] = t.color[e]
<1>1. ASSUME k = Red(t, n)
      PROVE  Repainted(t, k) /\ k.color[n] = "red" /\ \A e \in Ends \ {n} : k.color[e] = t.color[e]
  <2>1. /\ IsTree(k) /\ k.root = t.root /\ k.child = t.child /\ k.parent = t.parent
        /\ k.color = [t.color EXCEPT ![n] = "red"] /\ t.color \in [Ends -> {"red", "black"}]
      BY <1>1, ColorFields
  <2> QED BY <2>1 DEF Repainted
<1>2. ASSUME k = Black(t, n)
      PROVE  Repainted(t, k) /\ k.color[n] = "black" /\ \A e \in Ends \ {n} : k.color[e] = t.color[e]
  <2>1. /\ IsTree(k) /\ k.root = t.root /\ k.child = t.child /\ k.parent = t.parent
        /\ k.color = [t.color EXCEPT ![n] = "black"] /\ t.color \in [Ends -> {"red", "black"}]
      BY <1>2, ColorFields
  <2> QED BY <2>1 DEF Repainted
<1> QED BY <1>1, <1>2

(* What is so after a red child temp of n has been turned above it.        *)
Turned(t, u, x, s, n, temp) ==
    /\ Shaped(u) /\ High(u, x) /\ In(u) = In(t)
    /\ \A m \in RedRed(u) : m \in RedRed(t) /\ t.parent[m] # temp
    /\ u.color[n] = "red" /\ u.color[temp] = "black"
    /\ \A m \in Ends \ {n, temp} : u.color[m] = t.color[m]
    /\ u.root = IF n = t.root THEN temp ELSE t.root
    /\ u.child[Other(s)][n] = t.child[s][temp] /\ u.child[s][n] = t.child[s][n]
    /\ u.child[s][temp] = n /\ u.child[Other(s)][temp] = t.child[Other(s)][temp]
    /\ \A y \in Sides : \A m \in Nodes \ {n, temp} :
         u.child[y][m] = IF t.child[y][m] = n THEN temp ELSE t.child[y][m]
    /\ u.parent[n] = temp
    /\ \A m \in Ends \ {n, temp} :
         u.parent[m] = IF m = t.child[s][temp] /\ m # sentinel THEN n ELSE t.parent[m]

(* A red child temp of a black n is turned above it, and they change       *)
(* colors.                                                                 *)
LEMMA TurnUp ==
    ASSUME NEW t, Shaped(t), NEW x, High(t, x),
           NEW s \in Sides, NEW n \in Nodes, NEW temp \in Nodes, t.child[Other(s)][n] = temp,
           x # n, x # temp, t.color[n] = "black", t.color[temp] = "red",
           t.color[t.child[s][n]] = "black", t.color[t.child[s][temp]] = "black",
           x = sentinel /\ t.child[s][temp] = sentinel => t.parent[sentinel] \notin {n, temp},
           NEW u, u = Rotate(Red(Black(t, temp), n), s, n)
    PROVE  Turned(t, u, x, s, n, temp)
<1>1. PICK N, at, pos, lo, hi : IsShape(t, N, at, pos, lo, hi)
    BY DEF Shaped
<1>2. PICK b : Heights(t, x, b)
    BY DEF High
<1>3. PICK k : k = Red(Black(t, temp), n)
    OBVIOUS
<1>4. PICK o \in Sides : o = Other(s) /\ s = Other(o) /\ o # s
    BY SidesAre
<1>5. /\ n \in In(t) /\ temp \in In(t) /\ t.parent[temp] = n /\ temp # t.root /\ temp # n
      /\ t.child[s][n] # temp
    BY <1>1, <1>4, ChildOnce
<1>6. PICK inner \in In(t) \cup {sentinel} : inner = t.child[s][temp]
    BY <1>1, <1>5, ChildIn
<1>7. /\ In(t) \subseteq Nodes /\ sentinel \notin Nodes /\ n \in Ends /\ temp \in Ends
      /\ IsTree(t)
    BY <1>1, ShapeFacts DEF Ends, IsShape
<1>8. /\ Repainted(t, k) /\ k.color[n] = "red" /\ k.color[temp] = "black"
      /\ \A e \in Ends \ {n, temp} : k.color[e] = t.color[e]
    BY <1>3, <1>5, <1>7, TwoPaints
<1>9. IsShape(k, N, at, pos, lo, hi) /\ In(k) = In(t) /\ k.child = t.child
    BY <1>1, <1>8, RepaintedIs DEF Repainted
<1>10. Rotated(k, u, s, n, temp, inner)
    BY <1>3, <1>6, <1>9, RotateFields
<1>11. Shaped(u) /\ In(u) = In(t)
  <2>1. k.child[Other(s)][n] = temp /\ Rotated(k, u, s, n, temp, k.child[s][temp])
      BY <1>6, <1>9, <1>10
  <2>2. IsShape(u, N, at, pos, NewLo(s, n, temp, pos, lo), NewHi(s, n, temp, pos, hi))
      BY <1>9, <2>1, RotateSpans
  <2>3. In(u) = In(k)
      BY <1>9, <2>1, RotatedIn
  <2> QED BY <1>9, <2>2, <2>3 DEF Shaped
<1>12. High(u, x)
  <2>1. Rotated(k, u, s, n, temp, t.child[s][temp]) /\ k.color[temp] = t.color[n]
      BY <1>6, <1>8, <1>10
  <2>2. Heights(u, x, Swapped(b, n, temp))
      BY <1>1, <1>2, <1>8, <2>1, SwapHeights
  <2> QED BY <2>2 DEF High
<1>13. /\ u.color[n] = "red" /\ u.color[temp] = "black"
       /\ \A m \in Ends \ {n, temp} : u.color[m] = t.color[m]
       /\ u.root = IF n = t.root THEN temp ELSE t.root
       /\ u.child[o][n] = inner /\ u.child[s][n] = t.child[s][n]
       /\ u.child[s][temp] = n /\ u.child[o][temp] = t.child[o][temp]
       /\ \A y \in Sides : \A m \in Nodes \ {n, temp} :
            u.child[y][m] = IF t.child[y][m] = n THEN temp ELSE t.child[y][m]
       /\ u.parent[n] = temp
       /\ \A m \in Ends \ {n, temp} :
            u.parent[m] = IF m = inner /\ inner # sentinel THEN n ELSE t.parent[m]
    BY <1>4, <1>8, <1>10 DEF Rotated, Repainted
<1>14. ASSUME NEW m \in RedRed(u) PROVE m \in RedRed(t) /\ t.parent[m] # temp
  <2>1. m \in In(t) /\ m # u.root /\ u.color[m] = "red" /\ u.color[u.parent[m]] = "red"
      BY <1>11 DEF RedRed
  <2>2. m # temp /\ m # n
      BY <1>13, <2>1
  <2>3. m # t.root /\ m \in Ends /\ t.color[m] = "red"
      BY <1>7, <1>13, <2>1, <2>2 DEF Ends
  <2>4. m # inner
      BY <1>6, <2>3
  <2>5. u.parent[m] = t.parent[m]
      BY <1>13, <2>2, <2>3, <2>4
  <2>6. PICK y \in Sides : y = SideOf(t, m)
      BY <1>1, <2>1, <2>3, ParentOf
  <2>7. PICK q \in In(t) : q = t.parent[m] /\ t.child[y][q] = m
      BY <1>1, <2>1, <2>3, <2>6, ParentOf
  <2>8. q # temp
      BY <1>13, <2>1, <2>5, <2>7
  <2>9. q # n
    <3>1. t.child[o][n] # m /\ t.child[s][n] # m
        BY <1>4, <2>2, <2>3
    <3> QED BY <1>4, <2>7, <3>1, SidesAre
  <2>10. t.color[q] = "red"
      BY <1>7, <1>13, <2>1, <2>5, <2>7, <2>8, <2>9 DEF Ends
  <2> QED BY <2>1, <2>3, <2>7, <2>8, <2>10 DEF RedRed
<1> QED BY <1>4, <1>6, <1>11, <1>12, <1>13, <1>14 DEF Turned

-----------------------------------------------------------------------------
(* The rounds of an insertion.                                             *)

LEMMA PairFacts ==
    ASSUME NEW t, NEW n, Balancing(t, n), n # t.root, t.color[t.parent[n]] = "red",
           NEW p, p = t.parent[n], NEW g, g = t.parent[p],
           NEW s, s = SideOf(t, p), NEW w, w = t.child[Other(s)][g]
    PROVE  /\ IsTree(t) /\ In(t) \subseteq Nodes /\ sentinel \notin Nodes
           /\ n \in In(t) /\ p \in In(t) /\ g \in In(t) /\ p # t.root
           /\ s \in Sides /\ t.child[s][g] = p /\ \E y \in Sides : t.child[y][p] = n
           /\ w \in In(t) \cup {sentinel} /\ w # p /\ w # g /\ p # g /\ n # p /\ n # g
           /\ t.color[g] = "black" /\ t.color[t.root] = "black" /\ t.color[sentinel] = "black"
<1>1. PICK N, at, pos, lo, hi : IsShape(t, N, at, pos, lo, hi)
    BY DEF Balancing, Shaped
<1>2. /\ IsTree(t) /\ In(t) \subseteq Nodes /\ sentinel \notin Nodes /\ n \in In(t)
      /\ t.root \in In(t)
    BY <1>1, ShapeFacts DEF IsShape, Balancing
<1>3. t.color[t.root] = "black" /\ t.color[sentinel] = "black"
    BY <1>2 DEF Balancing, High, Heights, IsTree, Ends
<1>4. p \in In(t) /\ p # t.root /\ \E y \in Sides : t.child[y][p] = n
    BY <1>1, <1>2, <1>3, ParentOf
<1>5. g \in In(t) /\ s \in Sides /\ t.child[s][g] = p
    BY <1>1, <1>4, ParentOf
<1>6. w \in In(t) \cup {sentinel} /\ w # p /\ p # g /\ n # p
    BY <1>1, <1>2, <1>4, <1>5, SidesAre, ChildIn, ChildOnce
<1>7. w # g
    BY <1>1, <1>2, <1>5, <1>6, SidesAre, ChildOnce
<1>8. n # g
    BY <1>1, <1>2, <1>4, <1>5, NoLoop
<1>9. t.color[g] = "black"
  <2>1. p \notin RedRed(t)
      BY <1>6 DEF Balancing
  <2>2. t.color[g] # "red"
      BY <1>4, <2>1 DEF RedRed
  <2> QED BY <1>2, <1>5, <2>2 DEF IsTree, Ends
<1> QED BY <1>2, <1>3, <1>4, <1>5, <1>6, <1>7, <1>8, <1>9

LEMMA PairBalancing ==
    ASSUME NEW t, NEW n, Balancing(t, n), NEW s \in Sides,
           NEW g \in Nodes, NEW p \in Nodes, NEW w \in Nodes,
           t.child[s][g] = p, t.child[Other(s)][g] = w, t.parent[n] = p,
           t.color[g] = "black", t.color[p] = "red", t.color[w] = "red", n # t.root,
           NEW k, k = Red(Black(Black(t, p), w), g)
    PROVE  Balancing(k, g)
<1>1. PICK N, at, pos, lo, hi : IsShape(t, N, at, pos, lo, hi)
    BY DEF Balancing, Shaped
<1>2. /\ g \in In(t) /\ p \in In(t) /\ w \in In(t) /\ p # t.root /\ w # p /\ w # g /\ p # g
    BY <1>1, SidesAre, ChildOnce
<1>3. /\ IsTree(t) /\ In(t) \subseteq Nodes /\ sentinel \notin Nodes
      /\ t.color[t.root] = "black" /\ t.color[sentinel] = "black"
      /\ g # sentinel /\ w # sentinel /\ p # sentinel
  <2>1. /\ IsTree(t) /\ In(t) \subseteq Nodes /\ sentinel \notin Nodes
      BY <1>1, ShapeFacts DEF IsShape
  <2>2. t.color[t.root] # "red"
      BY <1>1, <1>2, ParentOf, ChildOnce DEF Balancing
  <2> QED BY <2>1, <2>2 DEF Balancing, High, Heights, IsTree, Ends
<1>4. p \in Ends /\ w \in Ends /\ g \in Ends
    BY DEF Ends
<1>5. PICK c : c = Black(t, p)
    OBVIOUS
<1>6. /\ Repainted(t, c) /\ c.color[p] = "black" /\ \A e \in Ends \ {p} : c.color[e] = t.color[e]
    BY <1>3, <1>4, <1>5, OnePaint
<1>8. /\ Repainted(c, k) /\ k.color[g] = "red" /\ k.color[w] = "black"
      /\ \A e \in Ends \ {g, w} : k.color[e] = c.color[e]
  <2>1. IsTree(c) /\ g # w /\ k = Red(Black(c, w), g)
      BY <1>2, <1>5, <1>6 DEF Repainted
  <2> QED BY <1>4, <2>1, TwoPaints
<1>9. /\ Repainted(t, k) /\ k.color[g] = "red" /\ k.color[w] = "black" /\ k.color[p] = "black"
      /\ \A e \in Ends \ {g, w, p} : k.color[e] = t.color[e]
    BY <1>2, <1>4, <1>6, <1>8 DEF Repainted
<1>10. IsShape(k, N, at, pos, lo, hi) /\ In(k) = In(t)
    BY <1>1, <1>9, RepaintedIs
<1>11. High(k, NULL)
  <2>1. PICK b : Heights(t, NULL, b)
      BY DEF Balancing, High
  <2>2. \A m \in Ends \ {g, p, w} : k.color[m] = t.color[m]
      BY <1>9
  <2>3. \E b2 : Heights(k, NULL, b2)
      BY <1>1, <1>9, <2>1, <2>2, PairHeights
  <2> QED BY <2>3 DEF High
<1>12. ASSUME NEW m \in RedRed(k) PROVE m = g
  <2>1. /\ m \in In(t) /\ m # t.root /\ k.color[m] = "red" /\ k.color[t.parent[m]] = "red"
      BY <1>9, <1>10 DEF RedRed, Repainted
  <2> SUFFICES ASSUME m # g PROVE FALSE
      OBVIOUS
  <2>2. m \in Ends \ {g, w, p} /\ t.color[m] = "red"
      BY <1>3, <1>9, <2>1 DEF Ends
  <2>3. PICK y \in Sides : y = SideOf(t, m)
      BY <1>1, <2>1, ParentOf
  <2>4. PICK q \in In(t) : q = t.parent[m] /\ t.child[y][q] = m
      BY <1>1, <2>1, <2>3, ParentOf
  <2>5. q # g
    <3>1. t.child[s][g] # m /\ t.child[Other(s)][g] # m
        BY <2>2
    <3> QED BY <2>4, <3>1, SidesAre
  <2>6. q \notin {g, w, p}
      BY <1>9, <2>1, <2>4, <2>5
  <2>7. t.color[q] = "red"
      BY <1>3, <1>9, <2>1, <2>4, <2>6 DEF Ends
  <2>8. m \in RedRed(t)
      BY <2>1, <2>2, <2>4, <2>7 DEF RedRed
  <2>9. m = n
      BY <2>8 DEF Balancing
  <2>10. t.parent[n] = p
      OBVIOUS
  <2> QED BY <2>4, <2>6, <2>9, <2>10
<1>13. k.color[k.root] = "red" => g = k.root
  <2>1. k.root = t.root /\ t.root \in Ends
      BY <1>3, <1>9 DEF Repainted, IsTree
  <2>2. g # k.root => k.root \notin {g, p, w} \/ k.color[k.root] = "black"
      BY <1>9
  <2> QED BY <1>3, <1>9, <2>1, <2>2
<1> QED
    BY <1>2, <1>3, <1>9, <1>10, <1>11, <1>12, <1>13 DEF Balancing, Shaped

LEMMA RecolorsBalancing ==
    ASSUME NEW t, NEW n, Balancing(t, n), n # t.root, t.color[t.parent[n]] = "red",
           NEW p, p = t.parent[n], NEW g, g = t.parent[p],
           NEW w, w = t.child[Other(SideOf(t, p))][g], t.color[w] = "red"
    PROVE  Balancing(Red(Black(Black(t, p), w), g), g)
<1>1. PICK s : s = SideOf(t, p)
    OBVIOUS
<1>2. /\ In(t) \subseteq Nodes /\ p \in In(t) /\ g \in In(t)
      /\ s \in Sides /\ t.child[s][g] = p /\ w \in In(t) \cup {sentinel}
      /\ t.color[g] = "black" /\ t.color[sentinel] = "black"
    BY <1>1, PairFacts
<1>3. w \in Nodes /\ t.child[Other(s)][g] = w /\ p \in Nodes /\ g \in Nodes
    BY <1>1, <1>2
<1> QED BY <1>2, <1>3, PairBalancing

(* The node low, its parent p and g in a row: p is lifted over g.          *)
LEMMA OuterTurn ==
    ASSUME NEW t, Shaped(t), High(t, NULL), NEW s \in Sides,
           NEW g \in Nodes, NEW p \in Nodes, NEW low \in Nodes,
           t.child[s][g] = p, t.child[s][p] = low,
           t.color[low] = "red", t.color[p] = "red", t.color[g] = "black",
           t.color[t.child[Other(s)][g]] = "black",
           RedRed(t) \subseteq {low}, t.color[t.root] = "black"
    PROVE  Balancing(Rotate(Red(Black(t, p), g), Other(s), g), low)
<1>1. PICK N, at, pos, lo, hi : IsShape(t, N, at, pos, lo, hi)
    BY DEF Shaped
<1>2. PICK o \in Sides : o = Other(s) /\ Other(o) = s /\ o # s
    BY SidesAre
<1>3. /\ g \in In(t) /\ p \in In(t) /\ t.parent[p] = g /\ p # t.root /\ p # g
      /\ low \in In(t) /\ t.parent[low] = p /\ low # t.root /\ low # p /\ low # g
    BY <1>1, ChildOnce, NoLoop
<1>4. /\ NULL \notin Nodes /\ NULL # sentinel /\ sentinel \notin Nodes /\ In(t) \subseteq Nodes
      /\ IsTree(t)
    BY <1>1, ShapeFacts DEF IsShape
<1>5. PICK inner \in In(t) \cup {sentinel} : inner = t.child[o][p]
    BY <1>1, <1>3, ChildIn
<1>6. t.color[inner] = "black"
  <2>1. CASE inner = sentinel
      BY <2>1 DEF High, Heights
  <2>2. CASE inner # sentinel
    <3>1. t.parent[inner] = p /\ inner # t.root /\ inner \in In(t)
        BY <1>1, <1>4, <1>5, <2>2, ChildOnce
    <3>2. inner # low
        BY <1>1, <1>2, <1>5, ChildOnce
    <3>3. inner \notin RedRed(t)
        BY <3>2
    <3>4. t.color[inner] # "red"
        BY <3>1, <3>3 DEF RedRed
    <3> QED BY <1>4, <3>1, <3>4 DEF IsTree, Ends
  <2> QED BY <2>1, <2>2
<1>7. PICK u : u = Rotate(Red(Black(t, p), g), o, g)
    OBVIOUS
<1>8. /\ Shaped(u) /\ High(u, NULL) /\ In(u) = In(t)
      /\ \A m \in RedRed(u) : m \in RedRed(t) /\ t.parent[m] # p
      /\ u.color[g] = "red" /\ u.color[p] = "black"
      /\ \A m \in Ends \ {g, p} : u.color[m] = t.color[m]
      /\ u.root = IF g = t.root THEN p ELSE t.root
  <2>1. t.child[Other(o)][g] = p /\ t.color[t.child[o][g]] = "black" /\ t.color[t.child[o][p]] = "black"
      BY <1>2, <1>5, <1>6
  <2>2. Turned(t, u, NULL, o, g, p)
      BY <1>4, <1>7, <2>1, TurnUp
  <2> QED BY <2>2 DEF Turned
<1>9. RedRed(u) = {}
    BY <1>3, <1>8
<1>10. u.color[low] = "red" /\ u.color[u.root] = "black"
  <2>1. low \in Ends \ {g, p}
      BY <1>3 DEF Ends
  <2>2. g # t.root => t.root \in Ends \ {g, p}
      BY <1>3, <1>4 DEF IsTree
  <2> QED BY <1>8, <2>1, <2>2
<1>11. Balancing(u, low)
    BY <1>3, <1>8, <1>9, <1>10 DEF Balancing
<1> QED BY <1>2, <1>7, <1>11

(* A red node low on the inner side of its red parent p: turned outwards,  *)
(* they change places.                                                     *)
LEMMA InnerTurn ==
    ASSUME NEW t, Shaped(t), High(t, NULL), NEW s \in Sides,
           NEW g \in Nodes, NEW p \in Nodes, NEW n \in Nodes,
           t.child[s][g] = p, t.child[Other(s)][p] = n,
           t.color[n] = "red", t.color[p] = "red", t.color[g] = "black",
           RedRed(t) \subseteq {n},
           NEW u, u = Rotate(t, s, p)
    PROVE  /\ Shaped(u) /\ High(u, NULL) /\ RedOnlyAt(u, p)
           /\ u.root = t.root /\ u.color = t.color
           /\ u.child[s][g] = n /\ u.child[s][n] = p
           /\ u.child[Other(s)][g] = t.child[Other(s)][g]
           /\ u.parent[p] = n /\ u.parent[n] = g
<1>1. PICK N, at, pos, lo, hi : IsShape(t, N, at, pos, lo, hi)
    BY DEF Shaped
<1>2. PICK o \in Sides : o = Other(s) /\ Other(o) = s /\ o # s
    BY SidesAre
<1>3. /\ g \in In(t) /\ p \in In(t) /\ t.parent[p] = g /\ p # t.root /\ p # g
      /\ n \in In(t) /\ t.parent[n] = p /\ n # t.root /\ n # p /\ n # g
      /\ t.child[o][g] # p /\ t.child[s][p] # n
    BY <1>1, <1>2, ChildOnce, NoLoop
<1>4. /\ NULL \notin Nodes /\ NULL # sentinel /\ sentinel \notin Nodes /\ In(t) \subseteq Nodes
      /\ IsTree(t)
    BY <1>1, ShapeFacts DEF IsShape
<1>5. Rotated(t, u, s, p, n, t.child[s][n])
    BY <1>1, RotateFields
<1>6. Shaped(u) /\ In(u) = In(t)
  <2>1. IsShape(u, N, at, pos, NewLo(s, p, n, pos, lo), NewHi(s, p, n, pos, hi))
      BY <1>1, <1>5, RotateSpans
  <2>2. In(u) = In(t)
      BY <1>1, <1>5, RotatedIn
  <2> QED BY <2>1, <2>2 DEF Shaped
<1>7. High(u, NULL)
  <2>1. PICK b : Heights(t, NULL, b)
      BY DEF High
  <2>2. Repainted(t, t)
      BY <1>4 DEF Repainted
  <2>3. Heights(u, NULL, Swapped(b, p, n))
      BY <1>1, <1>4, <1>5, <2>1, <2>2, SwapHeights
  <2> QED BY <2>3 DEF High
<1>8. /\ u.root = t.root /\ u.color = t.color
      /\ u.child[s][g] = n /\ u.child[s][n] = p
      /\ u.child[o][g] = t.child[o][g]
      /\ u.parent[p] = n /\ u.parent[n] = g
    BY <1>2, <1>3, <1>5 DEF Rotated
<1>9. ASSUME NEW m \in RedRed(u) PROVE m = p
  <2>1. m \in In(t) /\ m # t.root /\ t.color[m] = "red" /\ t.color[u.parent[m]] = "red"
      BY <1>6, <1>8 DEF RedRed
  <2> SUFFICES ASSUME m # p PROVE FALSE
      OBVIOUS
  <2>2. m # n
      BY <1>8, <2>1
  <2>3. t.color[t.parent[m]] = "red"
    <3>1. CASE m = t.child[s][n]
      <4>1. t.parent[m] = n
          BY <1>1, <1>4, <2>1, <3>1, ChildOnce
      <4> QED BY <4>1
    <3>2. CASE m # t.child[s][n]
      <4>1. u.parent[m] = t.parent[m]
          BY <1>4, <1>5, <2>1, <2>2, <3>2 DEF Rotated, Ends
      <4> QED BY <2>1, <4>1
    <3> QED BY <3>1, <3>2
  <2>4. m \in RedRed(t)
      BY <2>1, <2>3 DEF RedRed
  <2> QED BY <2>2, <2>4
<1> QED BY <1>2, <1>6, <1>7, <1>8, <1>9 DEF RedOnlyAt

LEMMA InsideTurns ==
    ASSUME NEW t, Shaped(t), High(t, NULL), NEW s \in Sides,
           NEW g \in Nodes, NEW p \in Nodes, NEW n \in Nodes,
           t.child[s][g] = p, t.child[Other(s)][p] = n,
           t.color[n] = "red", t.color[p] = "red", t.color[g] = "black",
           t.color[t.child[Other(s)][g]] = "black",
           RedRed(t) \subseteq {n}, t.color[t.root] = "black"
    PROVE  /\ Rotate(t, s, p).parent[p] = n /\ Rotate(t, s, p).parent[n] = g
           /\ Balancing(Rotate(Red(Black(Rotate(t, s, p), n), g), Other(s), g), p)
<1>1. PICK v : v = Rotate(t, s, p)
    OBVIOUS
<1>2. /\ Shaped(v) /\ High(v, NULL) /\ RedOnlyAt(v, p)
      /\ v.root = t.root /\ v.color = t.color
      /\ v.child[s][g] = n /\ v.child[s][n] = p
      /\ v.child[Other(s)][g] = t.child[Other(s)][g]
      /\ v.parent[p] = n /\ v.parent[n] = g
    BY <1>1, InnerTurn
<1>3. Balancing(Rotate(Red(Black(v, n), g), Other(s), g), p)
  <2>1. RedRed(v) \subseteq {p} /\ v.color[v.child[Other(s)][g]] = "black"
        /\ v.color[p] = "red" /\ v.color[n] = "red" /\ v.color[g] = "black" /\ v.color[v.root] = "black"
      BY <1>2 DEF RedOnlyAt
  <2> QED BY <1>2, <2>1, OuterTurn
<1> QED BY <1>1, <1>2, <1>3

LEMMA RotatesBalancing ==
    ASSUME NEW t, NEW n, Balancing(t, n), n # t.root, t.color[t.parent[n]] = "red",
           NEW s, s = SideOf(t, t.parent[n]),
           t.color[t.child[Other(s)][t.parent[t.parent[n]]]] # "red",
           NEW low, low = IF n = t.child[Other(s)][t.parent[n]] THEN t.parent[n] ELSE n,
           NEW u, u = IF n = t.child[Other(s)][t.parent[n]] THEN Rotate(t, s, low) ELSE t
    PROVE  Balancing(Rotate(Red(Black(u, u.parent[low]), u.parent[u.parent[low]]),
                            Other(s), u.parent[u.parent[low]]), low)
<1>1. PICK p : p = t.parent[n]
    OBVIOUS
<1>2. PICK g : g = t.parent[p]
    OBVIOUS
<1>3. PICK w : w = t.child[Other(s)][g]
    OBVIOUS
<1>4. /\ IsTree(t) /\ In(t) \subseteq Nodes
      /\ n \in In(t) /\ p \in In(t) /\ g \in In(t)
      /\ s \in Sides /\ t.child[s][g] = p /\ \E y \in Sides : t.child[y][p] = n
      /\ w \in In(t) \cup {sentinel}
      /\ t.color[g] = "black" /\ t.color[t.root] = "black"
    BY <1>1, <1>2, <1>3, PairFacts
<1>5. t.color[w] = "black"
    BY <1>1, <1>2, <1>3, <1>4 DEF IsTree, Ends
<1>6. /\ Shaped(t) /\ High(t, NULL) /\ t.color[n] = "red" /\ t.color[p] = "red"
      /\ RedRed(t) \subseteq {n} /\ p \in Nodes /\ g \in Nodes /\ n \in Nodes
    BY <1>1, <1>4 DEF Balancing
<1>7. CASE n = t.child[Other(s)][p]
  <2>1. low = p /\ u = Rotate(t, s, p) /\ t.child[Other(s)][p] = n
      BY <1>1, <1>7
  <2>2. /\ Rotate(t, s, p).parent[p] = n /\ Rotate(t, s, p).parent[n] = g
        /\ Balancing(Rotate(Red(Black(Rotate(t, s, p), n), g), Other(s), g), p)
      BY <1>3, <1>4, <1>5, <1>6, <2>1, InsideTurns
  <2> QED BY <2>1, <2>2
<1>8. CASE n # t.child[Other(s)][p]
  <2>1. low = n /\ u = t /\ u.parent[low] = p /\ u.parent[p] = g
      BY <1>1, <1>2, <1>8
  <2>2. t.child[s][p] = n
      BY <1>4, <1>8, SidesAre
  <2>3. Balancing(Rotate(Red(Black(t, p), g), Other(s), g), n)
      BY <1>3, <1>4, <1>5, <1>6, <2>2, OuterTurn
  <2> QED BY <2>1, <2>3
<1> QED BY <1>7, <1>8

(* The last step colors the root.                                          *)
LEMMA EndsSettled ==
    ASSUME NEW t, NEW n, Balancing(t, n), n = t.root \/ t.color[t.parent[n]] # "red"
    PROVE  Settled(Black(t, t.root))
<1>1. PICK N, at, pos, lo, hi : IsShape(t, N, at, pos, lo, hi)
    BY DEF Balancing, Shaped
<1>2. PICK r : r = t.root
    OBVIOUS
<1>3. PICK k : k = Black(t, r)
    OBVIOUS
<1>4. r \in In(t) /\ r \in Nodes /\ r \in Ends /\ IsTree(t) /\ r # sentinel
    BY <1>1, <1>2, ShapeFacts DEF Balancing, Ends, IsShape
<1>5. Repainted(t, k) /\ k.color[r] = "black" /\ \A e \in Ends \ {r} : k.color[e] = t.color[e]
    BY <1>3, <1>4, OnePaint
<1>6. IsShape(k, N, at, pos, lo, hi) /\ In(k) = In(t)
    BY <1>1, <1>5, RepaintedIs
<1>7. High(k, NULL)
  <2>1. PICK b : Heights(t, NULL, b)
      BY DEF Balancing, High
  <2>2. NULL # sentinel
      BY TreeNames
  <2>3. \E b2 : Heights(k, NULL, b2)
      BY <1>1, <1>2, <1>4, <1>5, <2>1, <2>2, RootHeights
  <2> QED BY <2>3 DEF High
<1>8. RedRed(t) = {}
    BY DEF Balancing, RedRed
<1>9. ASSUME NEW m \in RedRed(k) PROVE FALSE
  <2>1. /\ m \in In(t) /\ m # r /\ k.color[m] = "red" /\ k.color[t.parent[m]] = "red"
      BY <1>2, <1>5, <1>6, <1>9 DEF RedRed, Repainted
  <2>2. t.parent[m] \in Nodes /\ m \in Nodes
      BY <1>1, <1>2, <2>1, ParentOf
  <2>3. t.color[m] = "red" /\ t.color[t.parent[m]] = "red"
      BY <1>5, <2>1, <2>2 DEF Ends
  <2> QED BY <1>2, <1>8, <2>1, <2>3 DEF RedRed
<1>10. Settled(k)
  <2>1. k.root = r
      BY <1>2, <1>5 DEF Repainted
  <2> QED BY <1>5, <1>6, <1>7, <1>9, <2>1 DEF Settled, Shaped
<1> QED BY <1>2, <1>3, <1>10

-----------------------------------------------------------------------------
(* The rounds of the fixup after a deletion.                               *)

(* The subtree of x, on side s of p, lacks a black node; its sibling is    *)
(* a black one.                                                            *)
Lacking(t, x, s, p) ==
    /\ Shaped(t) /\ High(t, x)
    /\ s \in Sides /\ p \in In(t) /\ x \in In(t) \cup {sentinel}
    /\ t.child[s][p] = x /\ t.child[Other(s)][p] \in In(t)
    /\ t.color[t.child[Other(s)][p]] = "black" /\ t.color[x] = "black"
    /\ x = sentinel => t.parent[sentinel] = p
    /\ RedRed(t) = {} /\ t.color[t.root] = "black"

(* There is a sibling: without one the ways down could not be even.        *)
LEMMA Sibling ==
    ASSUME NEW t, NEW x, Fixing(t, x), x # t.root, t.color[x] # "red",
           NEW p, p = t.parent[x], NEW s, s = SideOf(t, x)
    PROVE  /\ s \in Sides /\ p \in In(t) /\ t.child[s][p] = x
           /\ t.child[Other(s)][p] \in In(t)
           /\ RedRed(t) = {} /\ t.color[t.root] = "black" /\ t.color[x] = "black"
           /\ t.color[sentinel] = "black" /\ IsTree(t)
<1>1. PICK N, at, pos, lo, hi : IsShape(t, N, at, pos, lo, hi)
    BY DEF Fixing, Shaped
<1>2. PICK b : Heights(t, x, b)
    BY DEF Fixing, High
<1>3. /\ In(t) \subseteq Nodes /\ sentinel \notin Nodes /\ IsTree(t)
      /\ x \in In(t) \cup {sentinel} /\ t.root \in In(t)
    BY <1>1, ShapeFacts DEF IsShape, Fixing
<1>4. /\ t.color[x] = "black" /\ t.color[t.root] = "black" /\ t.color[sentinel] = "black"
    BY <1>2, <1>3 DEF Fixing, IsTree, Ends, Heights
<1>5. RedRed(t) = {}
  <2>1. \A m \in RedRed(t) : t.color[m] = "red" /\ t.color[t.parent[m]] = "red" /\ (x = m \/ x = t.parent[m])
      BY DEF RedRed, Fixing
  <2> QED BY <1>4, <2>1
<1>6. s \in Sides /\ p \in In(t) /\ t.child[s][p] = x
  <2>1. CASE x = sentinel
    <3>1. t.parent[x] \in In(t) /\ \E y \in Sides : t.child[y][t.parent[x]] = x
        BY <2>1 DEF Fixing, Alone
    <3> QED BY <3>1, SidesAre DEF SideOf
  <2>2. CASE x # sentinel
      BY <1>1, <1>3, <2>2, ParentOf
  <2> QED BY <2>1, <2>2
<1>7. PICK o \in Sides : o = Other(s)
    BY <1>6, SidesAre
<1>8. PICK w \in In(t) \cup {sentinel} : w = t.child[o][p]
    BY <1>1, <1>6, ChildIn
<1>9. w # sentinel
  <2> SUFFICES ASSUME w = sentinel PROVE FALSE
      OBVIOUS
  <2>1. Below(t, x, b, p, x) = Below(t, x, b, p, w)
    <3>1. /\ b[p] = Weight(t, x, p) + Below(t, x, b, p, x)
          /\ b[p] = Weight(t, x, p) + Below(t, x, b, p, w)
          /\ Below(t, x, b, p, x) \in Int /\ Below(t, x, b, p, w) \in Int
          /\ Weight(t, x, p) \in Int
        BY <1>1, <1>2, <1>6, <1>7, <1>8, HeightFacts
    <3>2. PICK i \in Int : i = Below(t, x, b, p, x)
        BY <3>1
    <3>3. PICK j \in Int : j = Below(t, x, b, p, w)
        BY <3>1
    <3>4. PICK e \in Int : e = Weight(t, x, p)
        BY <3>1
    <3>5. e + i = e + j
        BY <3>1, <3>2, <3>3, <3>4
    <3> QED BY <3>2, <3>3, <3>5
  <2>2. CASE x = sentinel
    <3>1. PICK y \in Sides : t.child[y][p] = sentinel /\ t.child[Other(y)][p] # sentinel
        BY <2>2 DEF Fixing, Alone
    <3>2. y = s \/ y = o
        BY <1>6, <1>7, SidesAre
    <3> QED BY <1>6, <1>7, <1>8, <2>2, <3>1, <3>2, SidesAre
  <2>3. CASE x # sentinel
    <3>1. Below(t, x, b, p, w) = 1
        BY <2>3 DEF Below
    <3>2. Below(t, x, b, p, x) = b[x]
        BY <2>3 DEF Below
    <3>3. /\ b[x] = Weight(t, x, x) + Below(t, x, b, x, t.child["left"][x])
          /\ Below(t, x, b, x, t.child["left"][x]) \in Int
          /\ Below(t, x, b, x, t.child["left"][x]) >= 1
        BY <1>1, <1>2, <1>3, <2>3, SidesAre, HeightFacts
    <3>4. Weight(t, x, x) = 2
        BY <1>4 DEF Weight
    <3> QED BY <2>1, <3>1, <3>2, <3>3, <3>4
  <2> QED BY <2>2, <2>3
<1> QED BY <1>3, <1>4, <1>5, <1>6, <1>7, <1>8, <1>9

(* Whoever is red has black children.                                      *)
LEMMA BlackBelow ==
    ASSUME NEW t, Shaped(t), NEW x, High(t, x), RedRed(t) = {},
           NEW m \in In(t), t.color[m] = "red", NEW y \in Sides
    PROVE  t.color[t.child[y][m]] = "black"
<1>1. PICK N, at, pos, lo, hi : IsShape(t, N, at, pos, lo, hi)
    BY DEF Shaped
<1>2. PICK c \in In(t) \cup {sentinel} : c = t.child[y][m]
    BY <1>1, ChildIn
<1>3. In(t) \subseteq Nodes /\ sentinel \notin Nodes /\ IsTree(t)
    BY <1>1, ShapeFacts DEF IsShape
<1>4. CASE c = sentinel
    BY <1>2, <1>4 DEF High, Heights
<1>5. CASE c # sentinel
  <2>1. c \in In(t) /\ t.parent[c] = m /\ c # t.root
      BY <1>1, <1>2, <1>3, <1>5, ChildOnce
  <2>2. t.color[c] # "red"
      BY <2>1 DEF RedRed
  <2> QED BY <1>2, <1>3, <2>1, <2>2 DEF IsTree, Ends
<1> QED BY <1>4, <1>5

(* A red sibling is turned above p, which leaves a black one.              *)
LEMMA SiblingTurn ==
    ASSUME NEW t, Shaped(t), NEW x, High(t, x), NEW s \in Sides, NEW p \in In(t),
           x \in In(t) \cup {sentinel}, t.child[s][p] = x,
           NEW w \in In(t), t.child[Other(s)][p] = w,
           x = sentinel => t.parent[sentinel] = p,
           RedRed(t) = {}, t.color[t.root] = "black", t.color[x] = "black", t.color[w] = "red",
           NEW u, u = Rotate(Red(Black(t, w), p), s, p)
    PROVE  Lacking(u, x, s, p)
<1>1. PICK N, at, pos, lo, hi : IsShape(t, N, at, pos, lo, hi)
    BY DEF Shaped
<1>2. PICK o \in Sides : o = Other(s) /\ Other(o) = s /\ o # s
    BY SidesAre
<1>3. /\ In(t) \subseteq Nodes /\ sentinel \notin Nodes /\ IsTree(t) /\ p \in Nodes /\ w \in Nodes
      /\ p # sentinel /\ w # sentinel
    BY <1>1, ShapeFacts DEF IsShape
<1>4. t.parent[w] = p /\ w # t.root /\ w # p /\ x # w /\ x # p
    BY <1>1, <1>2, <1>3, ChildOnce
<1>5. t.color[p] = "black"
  <2>1. t.color[p] # "red"
      BY <1>4 DEF RedRed
  <2> QED BY <1>3, <2>1 DEF IsTree, Ends
<1>6. PICK inner \in In(t) \cup {sentinel} : inner = t.child[s][w]
    BY <1>1, ChildIn
<1>7. t.color[inner] = "black"
    BY <1>6, BlackBelow
<1>8. inner # sentinel
  <2>1. PICK b : Heights(t, x, b)
      BY DEF High
  <2> SUFFICES ASSUME inner = sentinel PROVE FALSE
      OBVIOUS
  <2>2. PICK i \in Int : i = Below(t, x, b, p, x)
      BY <1>1, <2>1, HeightFacts
  <2>3. PICK j \in Int : j = Below(t, x, b, w, inner)
      BY <1>1, <1>6, <2>1, HeightFacts
  <2>4. PICK e \in Int : e = Weight(t, x, p)
      BY <1>1, <2>1, HeightFacts
  <2>5. b[p] = e + i
      BY <1>1, <2>1, <2>2, <2>4, HeightFacts
  <2>6. b[w] = Weight(t, x, w) + j
      BY <1>1, <1>6, <2>1, <2>3, HeightFacts
  <2>7. Weight(t, x, w) = 0
      BY <1>4 DEF Weight
  <2>8. b[p] = e + Below(t, x, b, p, w)
      BY <1>1, <1>2, <2>1, <2>4, HeightFacts
  <2>9. Below(t, x, b, p, w) = b[w]
      BY <1>3 DEF Below
  <2>10. b[p] = e + j
      BY <2>6, <2>7, <2>8, <2>9
  <2>11. i = j
      BY <2>5, <2>10
  <2>12. j = 1
      BY <1>3, <1>4, <2>3 DEF Below
  <2>13. CASE x = sentinel
      BY <2>2, <2>11, <2>12, <2>13 DEF Below
  <2>14. CASE x # sentinel
    <3>1. i = b[x]
        BY <2>2, <2>14 DEF Below
    <3>2. PICK l \in Int : l = Below(t, x, b, x, t.child["left"][x])
        BY <1>1, <2>1, <2>14, SidesAre, HeightFacts
    <3>3. b[x] = Weight(t, x, x) + l /\ l >= 1
        BY <1>1, <2>1, <2>14, <3>2, SidesAre, HeightFacts
    <3>4. Weight(t, x, x) = 2
        BY DEF Weight
    <3> QED BY <2>11, <2>12, <3>1, <3>3, <3>4
  <2> QED BY <2>13, <2>14
<1>9. /\ Shaped(u) /\ High(u, x) /\ In(u) = In(t)
      /\ \A m \in RedRed(u) : m \in RedRed(t) /\ t.parent[m] # w
      /\ u.color[p] = "red" /\ u.color[w] = "black"
      /\ \A m \in Ends \ {p, w} : u.color[m] = t.color[m]
      /\ u.root = IF p = t.root THEN w ELSE t.root
      /\ u.child[o][p] = inner /\ u.child[s][p] = x
      /\ \A m \in Ends \ {p, w} :
           u.parent[m] = IF m = inner /\ m # sentinel THEN p ELSE t.parent[m]
  <2>1. /\ t.child[Other(s)][p] = w /\ t.color[t.child[s][p]] = "black" /\ t.color[t.child[s][w]] = "black"
        /\ x # p /\ x # w /\ (x = sentinel /\ t.child[s][w] = sentinel => t.parent[sentinel] \notin {p, w})
      BY <1>2, <1>4, <1>6, <1>7, <1>8
  <2>2. Turned(t, u, x, s, p, w)
      BY <1>3, <1>5, <2>1, TurnUp
  <2> QED BY <1>2, <1>6, <2>1, <2>2 DEF Turned
<1>10. RedRed(u) = {}
    BY <1>9
<1>11. u.color[u.root] = "black"
  <2>1. p # t.root => t.root \in Ends \ {p, w}
      BY <1>3, <1>4 DEF IsTree
  <2> QED BY <1>9, <2>1
<1>12. u.color[inner] = "black" /\ u.color[x] = "black"
  <2>1. inner \in Ends \ {p, w}
      BY <1>1, <1>2, <1>3, <1>6, <1>8, ChildOnce, NoLoop DEF Ends
  <2>2. x \in Ends \ {p, w}
      BY <1>3, <1>4 DEF Ends
  <2> QED BY <1>7, <1>9, <2>1, <2>2
<1>13. x = sentinel => u.parent[sentinel] = p
    BY <1>3, <1>9 DEF Ends
<1> QED BY <1>2, <1>6, <1>8, <1>9, <1>10, <1>11, <1>12, <1>13 DEF Lacking

(* Two black nephews: the sibling turns red, and p lacks the node.         *)
LEMMA BothBlack ==
    ASSUME NEW t, NEW x, NEW s, NEW p, Lacking(t, x, s, p),
           NEW w, w = t.child[Other(s)][p],
           t.color[t.child["left"][w]] = "black", t.color[t.child["right"][w]] = "black",
           NEW k, k = Red(t, w)
    PROVE  Fixing(k, p)
<1>1. PICK N, at, pos, lo, hi : IsShape(t, N, at, pos, lo, hi)
    BY DEF Lacking, Shaped
<1>2. /\ s \in Sides /\ p \in In(t) /\ w \in In(t) /\ t.child[s][p] = x
      /\ t.color[w] = "black" /\ (x = sentinel => t.parent[sentinel] = p)
      /\ RedRed(t) = {} /\ t.color[t.root] = "black"
    BY DEF Lacking
<1>3. /\ In(t) \subseteq Nodes /\ sentinel \notin Nodes /\ IsTree(t) /\ t.root \in In(t)
      /\ p # sentinel /\ w \in Ends
    BY <1>1, <1>2, ShapeFacts DEF IsShape, Ends
<1>4. t.parent[w] = p /\ w # t.root /\ w # p
    BY <1>1, <1>2, <1>3, SidesAre, ChildOnce
<1>5. Repainted(t, k) /\ k.color[w] = "red" /\ \A e \in Ends \ {w} : k.color[e] = t.color[e]
    BY <1>3, OnePaint
<1>6. IsShape(k, N, at, pos, lo, hi) /\ In(k) = In(t)
    BY <1>1, <1>5, RepaintedIs
<1>7. High(k, p)
  <2>1. PICK b : Heights(t, x, b)
      BY DEF Lacking, High
  <2>3. /\ p \in Nodes /\ w \in Nodes /\ t.child[Other(s)][p] = w /\ t.child[s][p] = x
        /\ s \in Sides /\ (x = sentinel => t.parent[sentinel] = p) /\ t.color[w] = "black"
      BY <1>2, <1>3
  <2>2. \E b2 : Heights(k, p, b2)
      BY <1>1, <1>5, <2>1, <2>3, LiftHeights
  <2> QED BY <2>2 DEF High
<1>8. ASSUME NEW m \in RedRed(k) PROVE p = t.parent[m]
  <2> SUFFICES ASSUME m # w PROVE FALSE
      BY <1>4
  <2>1. /\ m \in In(t) /\ m # t.root /\ k.color[m] = "red" /\ k.color[t.parent[m]] = "red"
      BY <1>5, <1>6, <1>8 DEF RedRed, Repainted
  <2>2. PICK y \in Sides : y = SideOf(t, m)
      BY <1>1, <2>1, ParentOf
  <2>3. PICK q \in In(t) : q = t.parent[m] /\ t.child[y][q] = m
      BY <1>1, <2>1, <2>2, ParentOf
  <2>4. t.color[m] = "red"
      BY <1>3, <1>5, <2>1 DEF Ends
  <2>5. q # w
      BY <2>3, <2>4, SidesAre
  <2>6. t.color[q] = "red"
      BY <1>3, <1>5, <2>1, <2>3, <2>5 DEF Ends
  <2> QED BY <1>2, <2>1, <2>3, <2>4, <2>6 DEF RedRed
<1>9. k.root = t.root /\ k.color[k.root] = "black" /\ k.parent = t.parent
    BY <1>2, <1>3, <1>4, <1>5 DEF Repainted, IsTree
<1> QED BY <1>2, <1>3, <1>6, <1>7, <1>8, <1>9 DEF Fixing, Shaped, Alone

(* A red near nephew is turned above the sibling, which becomes a red far  *)
(* one.                                                                    *)
LEMMA NearTurn ==
    ASSUME NEW t, NEW x, NEW s, NEW p, Lacking(t, x, s, p),
           NEW w \in Nodes, t.child[Other(s)][p] = w, NEW near \in Nodes, t.child[s][w] = near,
           t.color[near] = "red", t.color[t.child[Other(s)][w]] = "black",
           NEW u, u = Rotate(Red(Black(t, near), w), Other(s), w)
    PROVE  Lacking(u, x, s, p) /\ u.child[Other(s)][p] = near
           /\ u.child[Other(s)][near] = w /\ u.color[w] = "red"
<1>1. PICK N, at, pos, lo, hi : IsShape(t, N, at, pos, lo, hi)
    BY DEF Lacking, Shaped
<1>2. PICK o \in Sides : o = Other(s) /\ Other(o) = s /\ o # s
    BY SidesAre DEF Lacking
<1>3. /\ s \in Sides /\ p \in In(t) /\ w \in In(t) /\ t.child[s][p] = x /\ t.child[o][p] = w
      /\ x \in In(t) \cup {sentinel} /\ t.child[s][w] = near
      /\ t.color[w] = "black" /\ (x = sentinel => t.parent[sentinel] = p)
      /\ RedRed(t) = {} /\ t.color[t.root] = "black" /\ t.color[x] = "black"
      /\ Shaped(t) /\ High(t, x)
    BY <1>2 DEF Lacking
<1>4. /\ In(t) \subseteq Nodes /\ sentinel \notin Nodes /\ IsTree(t) /\ t.root \in In(t)
      /\ p \in Nodes
    BY <1>1, <1>3, ShapeFacts DEF IsShape
<1>5. t.parent[w] = p /\ w # t.root /\ w # p /\ x # w /\ x # p
    BY <1>1, <1>2, <1>3, <1>4, ChildOnce
<1>6. near \in In(t) /\ t.parent[near] = w /\ near # t.root /\ near # w /\ near # p /\ near # x
  <2>1. near \in In(t) /\ t.parent[near] = w /\ near # t.root /\ near # w
      BY <1>1, <1>3, ChildOnce
  <2>2. near # p
      BY <1>1, <1>2, <1>3, <1>4, NoLoop
  <2> QED BY <1>3, <2>1, <2>2
<1>7. t.color[t.child[o][near]] = "black"
    BY <1>3, <1>6, BlackBelow
<1>8. /\ Shaped(u) /\ High(u, x) /\ In(u) = In(t)
      /\ \A m \in RedRed(u) : m \in RedRed(t) /\ t.parent[m] # near
      /\ u.color[w] = "red" /\ u.color[near] = "black"
      /\ \A m \in Ends \ {w, near} : u.color[m] = t.color[m]
      /\ u.root = IF w = t.root THEN near ELSE t.root
      /\ u.child[o][near] = w
      /\ \A y \in Sides : \A m \in Nodes \ {w, near} :
           u.child[y][m] = IF t.child[y][m] = w THEN near ELSE t.child[y][m]
      /\ \A m \in Ends \ {w, near} :
           u.parent[m] = IF m = t.child[o][near] /\ m # sentinel THEN w ELSE t.parent[m]
  <2>1. /\ t.child[Other(o)][w] = near /\ t.color[t.child[o][w]] = "black"
        /\ u = Rotate(Red(Black(t, near), w), o, w)
        /\ (x = sentinel /\ t.child[o][near] = sentinel => t.parent[sentinel] \notin {w, near})
      BY <1>2, <1>3, <1>5, <1>6
  <2>2. Turned(t, u, x, o, w, near)
      BY <1>3, <1>5, <1>6, <1>7, <2>1, TurnUp
  <2> QED BY <1>2, <2>2 DEF Turned
<1>9. u.child[o][p] = near /\ u.child[s][p] = x /\ u.root = t.root /\ RedRed(u) = {}
    BY <1>3, <1>4, <1>5, <1>6, <1>8
<1>10. u.color[x] = "black" /\ u.color[t.root] = "black"
  <2>1. x \in Ends \ {w, near} /\ t.root \in Ends \ {w, near}
      BY <1>3, <1>4, <1>5, <1>6 DEF Ends
  <2> QED BY <1>3, <1>8, <2>1
<1>11. x = sentinel => u.parent[sentinel] = p
    BY <1>3, <1>4, <1>8 DEF Ends
<1> QED BY <1>2, <1>3, <1>6, <1>8, <1>9, <1>10, <1>11 DEF Lacking

(* A red far nephew: the sibling is turned above p, and nothing lacks any  *)
(* more; that the loop goes on at the root makes it stop.                  *)
LEMMA FarTurn ==
    ASSUME NEW t, NEW x, NEW s, NEW p \in Nodes, Lacking(t, x, s, p),
           NEW v \in Nodes, t.child[Other(s)][p] = v,
           NEW far \in Nodes, t.child[Other(s)][v] = far, t.color[far] = "red",
           NEW k, Repainted(t, k), k.color[v] = t.color[p], k.color[p] = "black",
           k.color[far] = "black", \A m \in Ends \ {p, v, far} : k.color[m] = t.color[m],
           NEW u, u = Rotate(k, s, p)
    PROVE  Fixing(u, u.root)
<1>1. PICK N, at, pos, lo, hi : IsShape(t, N, at, pos, lo, hi)
    BY DEF Lacking, Shaped
<1>2. /\ s \in Sides /\ p \in In(t) /\ t.child[s][p] = x /\ t.color[v] = "black"
      /\ (x = sentinel => t.parent[sentinel] = p)
      /\ RedRed(t) = {} /\ t.color[t.root] = "black"
    BY DEF Lacking
<1>3. PICK o \in Sides : o = Other(s) /\ Other(o) = s /\ o # s
    BY <1>2, SidesAre
<1>4. /\ In(t) \subseteq Nodes /\ sentinel \notin Nodes /\ NULL \notin Nodes /\ NULL # sentinel
      /\ IsTree(t) /\ t.root \in In(t)
    BY <1>1, <1>2, ShapeFacts DEF IsShape
<1>5. /\ v \in In(t) /\ far \in In(t) /\ t.parent[v] = p /\ t.parent[far] = v
      /\ v # t.root /\ v # p /\ far # v /\ far # p /\ far # t.root
    BY <1>1, <1>2, <1>3, ChildOnce, NoLoop
<1>6. PICK inner \in In(t) \cup {sentinel} : inner = t.child[s][v]
    BY <1>1, <1>2, <1>5, ChildIn
<1>7. IsShape(k, N, at, pos, lo, hi) /\ In(k) = In(t) /\ k.child = t.child
    BY <1>1, RepaintedIs DEF Repainted
<1>8. Rotated(k, u, s, p, v, inner)
    BY <1>2, <1>6, <1>7, RotateFields
<1>9. Shaped(u) /\ In(u) = In(t)
  <2>1. k.child[Other(s)][p] = v /\ Rotated(k, u, s, p, v, k.child[s][v])
      BY <1>6, <1>7, <1>8
  <2>2. IsShape(u, N, at, pos, NewLo(s, p, v, pos, lo), NewHi(s, p, v, pos, hi))
      BY <1>2, <1>7, <2>1, RotateSpans
  <2>3. In(u) = In(k)
      BY <1>2, <1>7, <2>1, RotatedIn
  <2> QED BY <1>7, <2>2, <2>3 DEF Shaped
<1>10. /\ u.root = IF p = t.root THEN v ELSE t.root
       /\ u.color[v] = t.color[p] /\ u.color[p] = "black" /\ u.color[far] = "black"
       /\ \A m \in Ends \ {p, v, far} : u.color[m] = t.color[m]
       /\ u.parent[v] = t.parent[p] /\ u.parent[p] = v
       /\ \A m \in Ends \ {p, v} :
            u.parent[m] = IF m = inner /\ inner # sentinel THEN p ELSE t.parent[m]
    BY <1>8 DEF Rotated, Repainted
<1>11. u.root \in In(u) /\ u.root \in Nodes /\ u.root # sentinel
    BY <1>4, <1>5, <1>9, <1>10
<1>12. High(u, u.root)
  <2>1. PICK b : Heights(t, x, b)
      BY DEF Lacking, High
  <2>2. Rotated(k, u, s, p, v, t.child[s][v])
      BY <1>6, <1>8
  <2>3. Heights(u, NULL, Filled(b, x, p, v, far))
      BY <1>1, <1>2, <2>1, <2>2, FillHeights
  <2>4. PICK N2, at2, pos2, lo2, hi2 : IsShape(u, N2, at2, pos2, lo2, hi2)
      BY <1>9 DEF Shaped
  <2>5. Repainted(u, u)
      BY <1>8 DEF Repainted, Rotated
  <2>6. PICK r : r = u.root
      OBVIOUS
  <2>7. \A m \in In(u) \ {u.root} : m = NULL <=> m = r
      BY <1>4, <1>9, <2>6
  <2>8. \A m \in Ends \ {u.root} : u.color[m] = u.color[m]
      OBVIOUS
  <2>9. \E b2 : Heights(u, r, b2)
      BY <1>4, <1>11, <2>3, <2>4, <2>5, <2>6, <2>7, <2>8, RootHeights
  <2> QED BY <2>6, <2>9 DEF High
<1>13. ASSUME NEW m \in RedRed(u) PROVE FALSE
  <2>1. m \in In(t) /\ m # u.root /\ u.color[m] = "red" /\ u.color[u.parent[m]] = "red"
      BY <1>9, <1>13 DEF RedRed
  <2>2. m # p /\ m # far
      BY <1>10, <2>1
  <2>3. CASE m = v
    <3>1. p # t.root /\ t.color[p] = "red" /\ u.parent[m] = t.parent[p]
        BY <1>10, <2>1, <2>3
    <3>2. PICK y \in Sides : y = SideOf(t, p)
        BY <1>1, <1>2, <3>1, ParentOf
    <3>3. PICK q \in In(t) : q = t.parent[p] /\ t.child[y][q] = p
        BY <1>1, <1>2, <3>1, <3>2, ParentOf
    <3>4. q \notin {p, v, far}
      <4>1. q # p
          BY <1>1, <1>4, <3>3, ChildOnce
      <4>2. q # v
          BY <1>1, <1>3, <3>3, NoLoop
      <4>3. q # far
          BY <1>10, <2>1, <3>1, <3>3
      <4> QED BY <4>1, <4>2, <4>3
    <3>5. t.color[q] = "red"
        BY <1>4, <1>10, <2>1, <3>1, <3>3, <3>4 DEF Ends
    <3> QED BY <1>2, <3>1, <3>3, <3>5 DEF RedRed
  <2>4. CASE m # v
    <3>1. m # t.root /\ t.color[m] = "red" /\ m \in Nodes
        BY <1>2, <1>4, <1>10, <2>1, <2>2, <2>4 DEF Ends
    <3>2. m # inner
        BY <1>4, <1>10, <2>1, <2>2, <2>4, <3>1 DEF Ends
    <3>3. u.parent[m] = t.parent[m]
        BY <1>10, <2>2, <2>4, <3>1, <3>2 DEF Ends
    <3>4. PICK y \in Sides : y = SideOf(t, m)
        BY <1>1, <2>1, <3>1, ParentOf
    <3>5. PICK q \in In(t) : q = t.parent[m] /\ t.child[y][q] = m
        BY <1>1, <2>1, <3>1, <3>4, ParentOf
    <3>6. q # v
      <4>1. t.child[o][v] # m /\ t.child[s][v] # m
          BY <1>3, <1>6, <2>2, <3>2
      <4> QED BY <1>2, <1>3, <3>5, <4>1, SidesAre
    <3>7. t.color[q] = "red"
        BY <1>4, <1>10, <2>1, <3>3, <3>5, <3>6 DEF Ends
    <3> QED BY <1>2, <2>1, <3>1, <3>5, <3>7 DEF RedRed
  <2> QED BY <2>3, <2>4
<1> QED BY <1>9, <1>11, <1>12, <1>13 DEF Fixing, Alone

Painted(t, k, n, color) ==
    Repainted(t, k) /\ k.color[n] = color /\ \A e \in Ends \ {n} : k.color[e] = t.color[e]

LEMMA PaintedIs ==
    ASSUME NEW t, IsTree(t), NEW n \in Ends
    PROVE  Painted(t, Black(t, n), n, "black") /\ Painted(t, Red(t, n), n, "red")
<1>1. PICK k : k = Black(t, n)
    OBVIOUS
<1>2. PICK c : c = Red(t, n)
    OBVIOUS
<1>3. Painted(t, k, n, "black") /\ Painted(t, c, n, "red")
    BY <1>1, <1>2, OnePaint DEF Painted
<1> QED BY <1>1, <1>2, <1>3

(* The colors that the rotation of FarTurn is made with.                   *)
LEMMA FarPaint ==
    ASSUME NEW t, IsTree(t), NEW p \in Nodes, NEW v \in Nodes, NEW far \in Nodes,
           p # v, p # far, v # far, NEW k,
           k = Black(Black([t EXCEPT !.color[v] = t.color[p]], p), far)
    PROVE  /\ Repainted(t, k) /\ k.color[v] = t.color[p] /\ k.color[p] = "black"
           /\ k.color[far] = "black" /\ \A m \in Ends \ {p, v, far} : k.color[m] = t.color[m]
<1>1. PICK c : c = [t EXCEPT !.color[v] = t.color[p]]
    OBVIOUS
<1>2. PICK e : e = Black(c, p)
    OBVIOUS
<1>3. p \in Ends /\ v \in Ends /\ far \in Ends
    BY DEF Ends
<1>4. /\ Repainted(t, c) /\ c.color[v] = t.color[p] /\ \A m \in Ends \ {v} : c.color[m] = t.color[m]
  <2>1. c = [root |-> t.root, child |-> t.child, parent |-> t.parent,
             color |-> [t.color EXCEPT ![v] = t.color[p]]]
      BY <1>1 DEF IsTree
  <2>2. [t.color EXCEPT ![v] = t.color[p]] \in [Ends -> {"red", "black"}]
      BY <1>3 DEF IsTree
  <2>3. t.color \in [Ends -> {"red", "black"}]
      BY DEF IsTree
  <2> QED BY <1>3, <2>1, <2>2, <2>3 DEF Repainted, IsTree
<1>5. Repainted(c, e) /\ e.color[p] = "black" /\ \A m \in Ends \ {p} : e.color[m] = c.color[m]
  <2>1. IsTree(c)
      BY <1>4 DEF Repainted
  <2>2. Painted(c, e, p, "black")
      BY <1>2, <1>3, <2>1, PaintedIs
  <2> QED BY <2>2 DEF Painted
<1>6. Repainted(e, k) /\ k.color[far] = "black" /\ \A m \in Ends \ {far} : k.color[m] = e.color[m]
  <2>1. k = Black(e, far) /\ IsTree(e)
      BY <1>1, <1>2, <1>5 DEF Repainted
  <2>2. Painted(e, k, far, "black")
      BY <1>3, <2>1, PaintedIs
  <2> QED BY <2>2 DEF Painted
<1>7. Repainted(t, k)
    BY <1>4, <1>5, <1>6 DEF Repainted
<1>8. k.color[v] = t.color[p] /\ k.color[p] = "black"
    BY <1>3, <1>4, <1>5, <1>6
<1>9. \A m \in Ends \ {p, v, far} : k.color[m] = t.color[m]
    BY <1>4, <1>5, <1>6
<1> QED BY <1>6, <1>7, <1>8, <1>9

(* The end of the fixup.                                                   *)
LEMMA FixupSettled ==
    ASSUME NEW t, NEW x, Fixing(t, x), x = t.root \/ t.color[x] = "red"
    PROVE  Settled(Black(t, x))
<1>1. PICK N, at, pos, lo, hi : IsShape(t, N, at, pos, lo, hi)
    BY DEF Fixing, Shaped
<1>2. PICK b : Heights(t, x, b)
    BY DEF Fixing, High
<1>3. PICK k : k = Black(t, x)
    OBVIOUS
<1>4. /\ x \in In(t) /\ x \in Nodes /\ x \in Ends /\ IsTree(t) /\ x # sentinel
      /\ NULL # sentinel /\ NULL \notin Nodes /\ In(t) \subseteq Nodes
      /\ t.root \in In(t)
    BY <1>1, <1>2, ShapeFacts DEF Fixing, Ends, IsShape, Heights
<1>5. Repainted(t, k) /\ k.color[x] = "black" /\ \A e \in Ends \ {x} : k.color[e] = t.color[e]
    BY <1>3, <1>4, OnePaint
<1>6. IsShape(k, N, at, pos, lo, hi) /\ In(k) = In(t)
    BY <1>1, <1>5, RepaintedIs
<1>7. High(k, NULL)
  <2>1. CASE t.color[x] = "red"
      BY <1>1, <1>2, <1>4, <1>5, <2>1, MendHeights DEF High
  <2>2. CASE x = t.root
    <3>1. t.root \in Nodes /\ \A m \in In(t) \ {t.root} : m = x <=> m = NULL
        BY <1>4, <2>2
    <3>2. \A m \in Ends \ {t.root} : k.color[m] = t.color[m]
        BY <1>5, <2>2
    <3>3. \E b2 : Heights(k, NULL, b2)
        BY <1>1, <1>2, <1>4, <1>5, <3>1, <3>2, RootHeights
    <3> QED BY <3>3 DEF High
  <2> QED BY <2>1, <2>2
<1>8. ASSUME NEW m \in RedRed(k) PROVE FALSE
  <2>1. /\ m \in In(t) /\ m # t.root /\ k.color[m] = "red" /\ k.color[t.parent[m]] = "red"
      BY <1>5, <1>6, <1>8 DEF RedRed, Repainted
  <2>2. t.parent[m] \in Nodes /\ m \in Nodes /\ m # x /\ t.parent[m] # x
      BY <1>1, <1>5, <2>1, ParentOf
  <2>3. t.color[m] = "red" /\ t.color[t.parent[m]] = "red"
      BY <1>5, <2>1, <2>2 DEF Ends
  <2>4. m \in RedRed(t)
      BY <2>1, <2>3 DEF RedRed
  <2> QED BY <2>2, <2>4 DEF Fixing
<1>9. k.root = t.root /\ k.color[k.root] = "black"
  <2>1. k.root = t.root /\ t.root \in Ends
      BY <1>4, <1>5 DEF Repainted, IsTree
  <2>2. CASE x = t.root
      BY <1>5, <2>1, <2>2
  <2>3. CASE x # t.root
    <3>1. t.color[t.root] # "red"
        BY <2>3 DEF Fixing
    <3>2. t.color[t.root] = "black"
        BY <1>4, <2>1, <3>1 DEF IsTree
    <3> QED BY <1>5, <2>1, <2>3, <3>2
  <2> QED BY <2>2, <2>3
<1>10. Settled(k)
    BY <1>6, <1>7, <1>8, <1>9 DEF Settled, Shaped
<1> QED BY <1>3, <1>10

(* The first rotation of FixupRound, if it is made, and the second.        *)
Outwards(t, s, w) ==
    IF IsBlack(t, t.child[Other(s)][w])
      THEN Rotate(Red(Black(t, t.child[s][w]), w), Other(s), w) ELSE t

Above(t, s, p, v) ==
    Rotate(Black(Black([t EXCEPT !.color[v] = t.color[p]], p), t.child[Other(s)][v]), s, p)

LEMMA AboveFixing ==
    ASSUME NEW t, NEW x, NEW s, NEW p \in Nodes, Lacking(t, x, s, p),
           NEW v \in Nodes, t.child[Other(s)][p] = v,
           NEW far \in Nodes, t.child[Other(s)][v] = far, t.color[far] = "red"
    PROVE  Fixing(Above(t, s, p, v), Above(t, s, p, v).root)
<1>1. PICK N, at, pos, lo, hi : IsShape(t, N, at, pos, lo, hi)
    BY DEF Lacking, Shaped
<1>2. PICK o \in Sides : o = Other(s)
    BY SidesAre DEF Lacking
<1>3. IsTree(t)
    BY <1>1 DEF IsShape
<1>4. p # v /\ v # far
    BY <1>1, <1>2, ChildOnce
<1>5. p # far
    BY <1>1, <1>2, NoLoop
<1>6. PICK k : k = Black(Black([t EXCEPT !.color[v] = t.color[p]], p), far)
    OBVIOUS
<1>7. /\ Repainted(t, k) /\ k.color[v] = t.color[p] /\ k.color[p] = "black"
      /\ k.color[far] = "black" /\ \A m \in Ends \ {p, v, far} : k.color[m] = t.color[m]
    BY <1>3, <1>4, <1>5, <1>6, FarPaint
<1>8. PICK u : u = Rotate(k, s, p)
    OBVIOUS
<1>9. Fixing(u, u.root)
    BY <1>7, <1>8, FarTurn
<1>10. Above(t, s, p, v) = u
    BY <1>6, <1>8 DEF Above
<1> QED BY <1>9, <1>10

(* Either way there is then a black sibling with a red far child.          *)
LEMMA OutwardsFar ==
    ASSUME NEW t, NEW x, NEW s, NEW p \in Nodes, Lacking(t, x, s, p),
           NEW w \in Nodes, t.child[Other(s)][p] = w,
           IsRed(t, t.child[s][w]) \/ IsRed(t, t.child[Other(s)][w])
    PROVE  \E v, far \in Nodes :
              /\ Lacking(Outwards(t, s, w), x, s, p)
              /\ Outwards(t, s, w).child[Other(s)][p] = v
              /\ Outwards(t, s, w).child[Other(s)][v] = far
              /\ Outwards(t, s, w).color[far] = "red"
<1>1. PICK N, at, pos, lo, hi : IsShape(t, N, at, pos, lo, hi)
    BY DEF Lacking, Shaped
<1>2. /\ s \in Sides /\ p \in In(t) /\ w \in In(t) /\ t.color[sentinel] = "black"
    BY DEF Lacking, High, Heights
<1>3. Other(s) \in Sides
    BY <1>2, SidesAre
<1>4. /\ In(t) \subseteq Nodes /\ sentinel \notin Nodes /\ IsTree(t)
    BY <1>1, ShapeFacts DEF IsShape
<1>5. PICK near \in In(t) \cup {sentinel} : t.child[s][w] = near
    BY <1>1, <1>2, ChildIn
<1>6. PICK far \in In(t) \cup {sentinel} : t.child[Other(s)][w] = far
    BY <1>1, <1>2, <1>3, ChildIn
<1>7. CASE t.color[far] = "red"
  <2>1. Outwards(t, s, w) = t
      BY <1>6, <1>7 DEF Outwards, IsBlack, IsRed
  <2>2. far \in Nodes
      BY <1>2, <1>4, <1>7
  <2> QED BY <1>6, <1>7, <2>1, <2>2
<1>8. CASE t.color[far] # "red"
  <2>1. t.color[far] = "black"
      BY <1>4, <1>6, <1>8 DEF IsTree, Ends
  <2>2. near \in Nodes /\ t.color[near] = "red"
      BY <1>2, <1>4, <1>5, <1>6, <1>8 DEF IsRed
  <2>3. PICK z : z = Rotate(Red(Black(t, near), w), Other(s), w)
      OBVIOUS
  <2>4. t.color[t.child[Other(s)][w]] = "black"
      BY <1>6, <2>1
  <2>5. Lacking(z, x, s, p) /\ z.child[Other(s)][p] = near
        /\ z.child[Other(s)][near] = w /\ z.color[w] = "red"
      BY <1>5, <2>2, <2>3, <2>4, NearTurn
  <2>6. Outwards(t, s, w) = z
      BY <1>5, <1>6, <1>8, <2>3 DEF Outwards, IsBlack, IsRed
  <2> QED BY <2>2, <2>5, <2>6
<1> QED BY <1>7, <1>8

LEMMA LiftedLacking ==
    ASSUME Fixing(tree, call.temp), DoubleBlack
    PROVE  Lacking(Lifted, call.temp, SideOf(tree, call.temp), tree.parent[call.temp])
<1>1. PICK x : x = call.temp
    OBVIOUS
<1>2. PICK p : p = tree.parent[x]
    OBVIOUS
<1>3. PICK s : s = SideOf(tree, x)
    OBVIOUS
<1>4. Fixing(tree, x) /\ x # tree.root /\ tree.color[x] # "red"
    BY <1>1 DEF DoubleBlack, IsBlack, IsRed
<1>5. /\ s \in Sides /\ p \in In(tree) /\ tree.child[s][p] = x
      /\ tree.child[Other(s)][p] \in In(tree)
      /\ RedRed(tree) = {} /\ tree.color[tree.root] = "black" /\ tree.color[x] = "black"
      /\ tree.color[sentinel] = "black" /\ IsTree(tree)
    BY <1>2, <1>3, <1>4, Sibling
<1>6. PICK w \in In(tree) : w = tree.child[Other(s)][p]
    BY <1>5
<1>7. Shaped(tree) /\ High(tree, x) /\ x \in In(tree) \cup {sentinel}
      /\ (x = sentinel => tree.parent[sentinel] = p)
    BY <1>2, <1>4 DEF Fixing
<1>8. Lacking(Lifted, x, s, p)
  <2>1. CASE tree.color[w] = "red"
    <3>1. PICK u : u = Rotate(Red(Black(tree, w), p), s, p)
        OBVIOUS
    <3>2. Lifted = u
        BY <1>1, <1>2, <1>3, <1>6, <2>1, <3>1 DEF Lifted, IsRed
    <3>3. Lacking(u, x, s, p)
        BY <1>5, <1>6, <1>7, <2>1, <3>1, SiblingTurn
    <3> QED BY <3>2, <3>3
  <2>2. CASE tree.color[w] # "red"
    <3>1. Lifted = tree
        BY <1>1, <1>2, <1>3, <1>6, <2>2 DEF Lifted, IsRed
    <3>2. tree.color[w] = "black"
        BY <1>5, <1>6, <2>2 DEF IsTree, In, Ends
    <3> QED BY <1>5, <1>6, <1>7, <3>1, <3>2 DEF Lacking
  <2> QED BY <2>1, <2>2
<1> QED BY <1>1, <1>2, <1>3, <1>8

LEMMA RoundFixing ==
    ASSUME Fixing(tree, call.temp), FixupRound,
           call \in [pc : {"idle", "descend", "balance", "fixup"},
                     node : Nodes \cup {NULL}, temp : Nodes \cup {sentinel, NULL}]
    PROVE  Fixing(tree', call'.temp) /\ call'.pc = "fixup" /\ call'.node = call.node
<1>1. PICK s : s = SideOf(tree, call.temp)
    OBVIOUS
<1>2. PICK p : p = tree.parent[call.temp]
    OBVIOUS
<1>3. PICK t : t = Lifted
    OBVIOUS
<1>4. Lacking(t, call.temp, s, p)
    BY <1>1, <1>2, <1>3, LiftedLacking DEF FixupRound
<1>5. PICK w : t.child[Other(s)][p] = w
    OBVIOUS
<1>6. PICK u : u = Outwards(t, s, w)
    OBVIOUS
<1>7. PICK v : u.child[Other(s)][p] = v
    OBVIOUS
<1>9. /\ call.pc = "fixup"
      /\ IF IsBlack(t, t.child[s][w]) /\ IsBlack(t, t.child[Other(s)][w])
           THEN /\ tree' = Red(t, w)
                /\ call' = [call EXCEPT !.temp = p]
           ELSE /\ tree' = Above(u, s, p, v)
                /\ call' = [call EXCEPT !.temp = tree'.root]
    BY <1>1, <1>2, <1>3, <1>5, <1>6, <1>7 DEF FixupRound, DoubleBlack, Outwards, Above
<1>10. CASE IsBlack(t, t.child[s][w]) /\ IsBlack(t, t.child[Other(s)][w])
  <2>1. PICK k : k = Red(t, w)
      OBVIOUS
  <2>2. s \in Sides /\ w \in In(t) /\ Shaped(t)
      BY <1>4, <1>5 DEF Lacking
  <2>3. \A y \in Sides : t.child[y][w] \in Ends /\ t.color[t.child[y][w]] # "red"
    <3>1. \A y \in Sides : t.child[y][w] \in Ends
        BY <2>2, ChildIn DEF Shaped
    <3> QED BY <1>10, <2>2, <3>1, SidesAre DEF IsBlack, IsRed
  <2>4. IsTree(t)
      BY <2>2 DEF Shaped, IsShape
  <2>5. \A y \in Sides : t.color[t.child[y][w]] = "black"
      BY <2>3, <2>4 DEF IsTree
  <2>6. w = t.child[Other(s)][p] /\ t.color[t.child["left"][w]] = "black"
        /\ t.color[t.child["right"][w]] = "black"
      BY <1>5, <2>5, SidesAre
  <2>7. Fixing(k, p)
      BY <1>4, <2>1, <2>6, BothBlack
  <2>8. tree' = k /\ call' = [call EXCEPT !.temp = p]
      BY <1>9, <1>10, <2>1
  <2> QED BY <1>9, <2>7, <2>8
<1>11. CASE IsRed(t, t.child[s][w]) \/ IsRed(t, t.child[Other(s)][w])
  <2>1. p \in Nodes /\ w \in Nodes
    <3>1. p \in In(t) /\ w \in In(t)
        BY <1>4, <1>5 DEF Lacking
    <3> QED BY <3>1 DEF In
  <2>2. PICK far \in Nodes : /\ Lacking(u, call.temp, s, p) /\ v \in Nodes
                             /\ u.child[Other(s)][v] = far /\ u.color[far] = "red"
      BY <1>4, <1>5, <1>6, <1>7, <1>11, <2>1, OutwardsFar
  <2>3. PICK r : r = Above(u, s, p, v)
      OBVIOUS
  <2>4. Fixing(r, r.root)
      BY <1>7, <2>1, <2>2, <2>3, AboveFixing
  <2>5. tree' = r /\ call' = [call EXCEPT !.temp = r.root]
      BY <1>9, <1>11, <2>3 DEF IsBlack
  <2> QED BY <1>9, <2>4, <2>5
<1> QED BY <1>10, <1>11 DEF IsBlack

-----------------------------------------------------------------------------
(* A new leaf.                                                             *)

Hung(t, u, s, n, up) ==
    /\ IsTree(u) /\ u.root = t.root
    /\ \A y \in Sides : u.child[y][n] = sentinel
    /\ u.child[s][up] = n
    /\ \A y \in Sides : \A m \in Nodes \ {n} : y # s \/ m # up => u.child[y][m] = t.child[y][m]
    /\ u.parent[n] = up /\ \A m \in Ends \ {n} : u.parent[m] = t.parent[m]
    /\ u.color[n] = "red" /\ \A m \in Ends \ {n} : u.color[m] = t.color[m]

Hanging(t, u, n, up, color) ==
    /\ IsTree(u) /\ u.root = t.root
    /\ \A y \in Sides : \A m \in Nodes :
         u.child[y][m] = IF m = n THEN sentinel ELSE t.child[y][m]
    /\ u.parent[n] = up /\ \A m \in Ends \ {n} : u.parent[m] = t.parent[m]
    /\ u.color[n] = color /\ \A m \in Ends \ {n} : u.color[m] = t.color[m]

LEMMA HangFields ==
    ASSUME NEW t, IsTree(t), NEW n \in Nodes, NEW up \in Nodes \cup {NULL}, NEW color \in {"red", "black"}
    PROVE  Hanging(t, Hang(t, n, up, color), n, up, color)
<1>0. PICK u : u = Hang(t, n, up, color)
    OBVIOUS
<1>1. /\ t.child \in [Sides -> [Nodes -> Ends \cup {NULL}]] /\ t.root \in Ends
      /\ t.parent \in [Ends -> Nodes \cup {NULL}] /\ t.color \in [Ends -> {"red", "black"}]
    BY DEF IsTree
<1>2. PICK kids : kids = [y \in Sides |-> [t.child[y] EXCEPT ![n] = sentinel]]
    OBVIOUS
<1>3. PICK ups : ups = [t.parent EXCEPT ![n] = up]
    OBVIOUS
<1>4. PICK colors : colors = [t.color EXCEPT ![n] = color]
    OBVIOUS
<1>5. u = [root |-> t.root, child |-> kids, parent |-> ups, color |-> colors]
    BY <1>0, <1>2, <1>3, <1>4 DEF Hang, IsTree
<1>6. kids \in [Sides -> [Nodes -> Ends \cup {NULL}]]
    BY <1>1, <1>2 DEF Ends
<1>7. ups \in [Ends -> Nodes \cup {NULL}] /\ colors \in [Ends -> {"red", "black"}]
    BY <1>1, <1>3, <1>4 DEF Ends
<1>8. u.root = t.root /\ u.child = kids /\ u.parent = ups /\ u.color = colors
    BY <1>5
<1>9. IsTree(u)
    BY <1>1, <1>5, <1>6, <1>7 DEF IsTree
<1>10. \A y \in Sides : \A m \in Nodes :
         kids[y][m] = IF m = n THEN sentinel ELSE t.child[y][m]
    BY <1>1, <1>2
<1>11. ups[n] = up /\ \A m \in Ends \ {n} : ups[m] = t.parent[m]
    BY <1>1, <1>3 DEF Ends
<1>12. colors[n] = color /\ \A m \in Ends \ {n} : colors[m] = t.color[m]
    BY <1>1, <1>4 DEF Ends
<1>13. Hanging(t, u, n, up, color)
    BY <1>8, <1>9, <1>10, <1>11, <1>12 DEF Hanging
<1> QED BY <1>0, <1>13

LEMMA HungIs ==
    ASSUME NEW t, IsTree(t), NEW s \in Sides, NEW n \in Nodes, NEW up \in Nodes, n # up,
           NEW u, u = [Hang(t, n, up, "red") EXCEPT !.child[s][up] = n]
    PROVE  Hung(t, u, s, n, up)
<1>1. PICK h : h = Hang(t, n, up, "red")
    OBVIOUS
<1>2. Hanging(t, h, n, up, "red")
    BY <1>1, HangFields
<1>20. IsTree(h) /\ h.root = t.root
    BY <1>2 DEF Hanging
<1>3. PICK kids : kids = [h.child EXCEPT ![s][up] = n]
    OBVIOUS
<1>4. u = [root |-> h.root, child |-> kids, parent |-> h.parent, color |-> h.color]
    BY <1>1, <1>20, <1>3 DEF IsTree
<1>5. /\ t.child \in [Sides -> [Nodes -> Ends \cup {NULL}]] /\ t.root \in Ends
      /\ t.parent \in [Ends -> Nodes \cup {NULL}] /\ t.color \in [Ends -> {"red", "black"}]
      /\ h.child \in [Sides -> [Nodes -> Ends \cup {NULL}]]
      /\ h.parent \in [Ends -> Nodes \cup {NULL}] /\ h.color \in [Ends -> {"red", "black"}]
    BY <1>20 DEF IsTree
<1>6. /\ kids \in [Sides -> [Nodes -> Ends \cup {NULL}]] /\ kids[s][up] = n
      /\ \A y \in Sides : \A m \in Nodes : y # s \/ m # up => kids[y][m] = h.child[y][m]
    BY <1>3, <1>5 DEF Ends
<1>7. \A y \in Sides : \A m \in Nodes : h.child[y][m] = IF m = n THEN sentinel ELSE t.child[y][m]
    BY <1>2 DEF Hanging
<1>8. u.root = t.root /\ u.child = kids /\ u.parent = h.parent /\ u.color = h.color
    BY <1>20, <1>4
<1>9. IsTree(u)
  <2>1. h.root \in Ends
      BY <1>5, <1>20
  <2>2. PICK z : z = [root |-> h.root, child |-> kids, parent |-> h.parent, color |-> h.color]
      OBVIOUS
  <2>3. IsTree(z)
      BY <1>5, <1>6, <2>1, <2>2 DEF IsTree
  <2>4. u = z
      BY <1>4, <2>2
  <2> QED BY <2>3, <2>4
<1>10. u.parent[n] = up /\ \A m \in Ends \ {n} : u.parent[m] = t.parent[m]
    BY <1>2, <1>8 DEF Hanging
<1>11. u.color[n] = "red" /\ \A m \in Ends \ {n} : u.color[m] = t.color[m]
    BY <1>2, <1>8 DEF Hanging
<1>12. \A y \in Sides : u.child[y][n] = sentinel
    BY <1>6, <1>7, <1>8
<1>13. \A y \in Sides : \A m \in Nodes \ {n} : y # s \/ m # up => u.child[y][m] = t.child[y][m]
    BY <1>6, <1>7, <1>8
<1> QED BY <1>6, <1>8, <1>9, <1>10, <1>11, <1>12, <1>13 DEF Hung

(* The places after the new one move up, and the spans with them.          *)
NewPlace(pos, s, up) == IF s = "left" THEN pos[up] ELSE pos[up] + 1
Spread(i, from) == IF i >= from THEN i + 1 ELSE i
SpreadPos(pos, n, q) == [m \in Nodes |-> IF m = n THEN q ELSE Spread(pos[m], q)]
SpreadLo(lo, s, n, q) ==
    [m \in Nodes |-> IF m = n THEN q ELSE Spread(lo[m], IF s = "left" THEN q + 1 ELSE q)]
SpreadHi(hi, s, n, q) ==
    [m \in Nodes |-> IF m = n THEN q ELSE Spread(hi[m], IF s = "left" THEN q ELSE q - 1)]
SpreadAt(at, N, n, q) ==
    [i \in 1 .. N + 1 |-> IF i < q THEN at[i] ELSE IF i = q THEN n ELSE at[i - 1]]

LEMMA HungIn ==
    ASSUME NEW t, NEW N, NEW at, NEW pos, NEW lo, NEW hi, IsShape(t, N, at, pos, lo, hi),
           NEW s \in Sides, NEW n \in Nodes, n \notin In(t), NEW up \in In(t),
           t.child[s][up] = sentinel, NEW u, Hung(t, u, s, n, up)
    PROVE  In(u) = In(t) \cup {n} /\ n # up /\ n # sentinel /\ n # t.root
<1>1. In(t) \subseteq Nodes /\ sentinel \notin Nodes /\ NULL \notin Nodes /\ n # t.root
    BY ShapeFacts DEF In
<1>2. ASSUME NEW m \in Nodes PROVE m \in In(u) <=> m \in In(t) \/ m = n
  <2>1. m = n => u.parent[m] # NULL
      BY <1>1 DEF Hung
  <2>2. m # n => u.parent[m] = t.parent[m] /\ u.root = t.root
      BY DEF Hung, Ends
  <2> QED BY <2>1, <2>2 DEF In
<1> QED BY <1>1, <1>2 DEF In

LEMMA HungPlaced ==
    ASSUME NEW t, NEW N, NEW at, NEW pos, NEW lo, NEW hi, IsShape(t, N, at, pos, lo, hi),
           NEW n \in Nodes, n \notin In(t), NEW q \in 1 .. N + 1,
           NEW u, In(u) = In(t) \cup {n}
    PROVE  Placed(u, N + 1, SpreadAt(at, N, n, q), SpreadPos(pos, n, q))
<1>1. /\ N \in Nat /\ at \in [1 .. N -> Nodes] /\ pos \in [Nodes -> Int]
      /\ \A i \in 1 .. N : at[i] \in In(t) /\ pos[at[i]] = i
      /\ \A m \in In(t) : pos[m] \in 1 .. N /\ at[pos[m]] = m
    BY DEF IsShape, Placed
<1>2. In(t) \subseteq Nodes
    BY ShapeFacts
<1>3. PICK at2 : at2 = SpreadAt(at, N, n, q)
    OBVIOUS
<1>4. PICK pos2 : pos2 = SpreadPos(pos, n, q)
    OBVIOUS
<1>5. /\ at2[q] = n
      /\ \A i \in 1 .. N : /\ i < q => at2[i] = at[i]
                           /\ i >= q => at2[i + 1] = at[i]
    BY <1>1, <1>3 DEF SpreadAt
<1>6. at2 \in [1 .. N + 1 -> Nodes]
    BY <1>1, <1>2, <1>3 DEF SpreadAt
<1>7. /\ pos2 \in [Nodes -> Int] /\ pos2[n] = q
      /\ \A m \in Nodes \ {n} : /\ pos[m] < q => pos2[m] = pos[m]
                                /\ pos[m] >= q => pos2[m] = pos[m] + 1
    BY <1>1, <1>4 DEF SpreadPos, Spread
<1>8. ASSUME NEW m \in In(u) PROVE pos2[m] \in 1 .. N + 1 /\ at2[pos2[m]] = m
  <2>1. CASE m = n
      BY <1>5, <1>7, <2>1
  <2>2. CASE m # n
    <3>1. m \in In(t) /\ m \in Nodes /\ pos[m] \in 1 .. N /\ at[pos[m]] = m
        BY <1>1, <1>2, <1>8, <2>2
    <3>2. CASE pos[m] < q
        BY <1>1, <1>5, <1>7, <2>2, <3>1, <3>2
    <3>3. CASE pos[m] >= q
        BY <1>1, <1>5, <1>7, <2>2, <3>1, <3>3
    <3> QED BY <3>1, <3>2, <3>3
  <2> QED BY <2>1, <2>2
<1>9. ASSUME NEW i \in 1 .. N + 1 PROVE at2[i] \in In(u) /\ pos2[at2[i]] = i
  <2>1. CASE i = q
      BY <1>5, <1>7, <2>1
  <2>2. CASE i < q
    <3>1. i \in 1 .. N /\ at2[i] = at[i] /\ at[i] \in In(t) /\ pos[at[i]] = i /\ at[i] # n
        BY <1>1, <1>5, <2>2
    <3> QED BY <1>2, <1>7, <2>2, <3>1
  <2>3. CASE i > q
    <3>1. PICK j \in 1 .. N : i = j + 1 /\ j >= q
        BY <1>1, <2>3
    <3>2. at2[i] = at[j] /\ at[j] \in In(t) /\ pos[at[j]] = j /\ at[j] # n
        BY <1>1, <1>5, <3>1
    <3> QED BY <1>2, <1>7, <3>1, <3>2
  <2> QED BY <2>1, <2>2, <2>3
<1>10. N + 1 \in Nat
    BY <1>1
<1> QED BY <1>3, <1>4, <1>6, <1>7, <1>8, <1>9, <1>10 DEF Placed

LEMMA HungShape ==
    ASSUME NEW t, NEW N, NEW at, NEW pos, NEW lo, NEW hi, IsShape(t, N, at, pos, lo, hi),
           NEW s \in Sides, NEW n \in Nodes, n \notin In(t), NEW up \in In(t),
           t.child[s][up] = sentinel, NEW u, Hung(t, u, s, n, up),
           NEW q, q = NewPlace(pos, s, up)
    PROVE  IsShape(u, N + 1, SpreadAt(at, N, n, q), SpreadPos(pos, n, q),
                   SpreadLo(lo, s, n, q), SpreadHi(hi, s, n, q))
<1>1. /\ In(t) \subseteq Nodes /\ N \in Nat /\ sentinel \notin Nodes
      /\ \A m \in In(t) : /\ pos[m] \in Int /\ lo[m] \in Int /\ hi[m] \in Int
                          /\ 1 <= pos[m] /\ pos[m] <= N
      /\ \A m, k \in In(t) : pos[m] = pos[k] => m = k
      /\ t.root \in In(t) /\ NULL \notin Nodes /\ NULL # sentinel
    BY ShapeFacts
<1>2. s = "left" \/ s = "right"
    BY SidesAre
<1>3. q \in 1 .. N + 1 /\ q \in Int
    BY <1>1, <1>2 DEF NewPlace
<1>4. In(u) = In(t) \cup {n} /\ n # up /\ n # sentinel /\ n # t.root
    BY HungIn
<1>5. PICK pos2 : pos2 = SpreadPos(pos, n, q)
    OBVIOUS
<1>6. PICK lf \in Int : lf = IF s = "left" THEN q + 1 ELSE q
    BY <1>3
<1>7. PICK hf \in Int : hf = IF s = "left" THEN q ELSE q - 1
    BY <1>3
<1>8. PICK lo2 : lo2 = SpreadLo(lo, s, n, q)
    OBVIOUS
<1>9. PICK hi2 : hi2 = SpreadHi(hi, s, n, q)
    OBVIOUS
<1>10. /\ pos2[n] = q /\ lo2[n] = q /\ hi2[n] = q
       /\ \A m \in Nodes \ {n} : /\ pos2[m] = Spread(pos[m], q) /\ lo2[m] = Spread(lo[m], lf)
                                 /\ hi2[m] = Spread(hi[m], hf)
    BY <1>5, <1>6, <1>7, <1>8, <1>9 DEF SpreadPos, SpreadLo, SpreadHi
<1>11. lo2 \in [Nodes -> Int] /\ hi2 \in [Nodes -> Int]
  <2>1. lo \in [Nodes -> Int] /\ hi \in [Nodes -> Int]
      BY DEF IsShape, Spans
  <2> QED BY <1>2, <1>3, <1>8, <1>9, <2>1 DEF SpreadLo, SpreadHi, Spread
<1>12. /\ IsTree(u) /\ u.root = t.root
       /\ \A y \in Sides : u.child[y][n] = sentinel
       /\ u.child[s][up] = n
       /\ \A y \in Sides : \A m \in Nodes \ {n} : y # s \/ m # up => u.child[y][m] = t.child[y][m]
       /\ u.parent[n] = up /\ \A m \in Ends \ {n} : u.parent[m] = t.parent[m]
    BY DEF Hung
<1>13. pos[up] = IF s = "left" THEN q ELSE q - 1
    BY <1>1, <1>2 DEF NewPlace
<1>14. ASSUME NEW m \in In(t)
       PROVE  /\ m # up => pos[m] # IF s = "left" THEN q ELSE q - 1
              /\ lo[m] <= pos[m] /\ pos[m] <= hi[m]
              /\ OnLeft(t, m, t.child["left"][m], pos, lo, hi)
              /\ OnRight(t, m, t.child["right"][m], pos, lo, hi)
    BY <1>1, <1>13, <1>14 DEF IsShape, Spans
<1>15. ASSUME NEW m \in In(t) PROVE lo2[m] <= pos2[m] /\ pos2[m] <= hi2[m]
  <2>1. /\ pos2[m] = Spread(pos[m], q) /\ lo2[m] = Spread(lo[m], lf) /\ hi2[m] = Spread(hi[m], hf)
        /\ lo[m] \in Int /\ pos[m] \in Int /\ hi[m] \in Int /\ lo[m] <= pos[m] /\ pos[m] <= hi[m]
      BY <1>1, <1>10, <1>14, <1>15
  <2> QED BY <1>2, <1>3, <1>6, <1>7, <2>1 DEF Spread
<1>16. ASSUME NEW m \in In(t) PROVE OnLeft(u, m, u.child["left"][m], pos2, lo2, hi2)
  <2>1. /\ pos2[m] = Spread(pos[m], q) /\ lo2[m] = Spread(lo[m], lf) /\ m # n /\ m \in Nodes
        /\ lo[m] \in Int /\ pos[m] \in Int
      BY <1>1, <1>10, <1>16
  <2>2. CASE s = "left" /\ m = up
    <3>1. lo[m] = pos[m] /\ pos[m] = q
        BY <1>1, <1>13, <1>14, <2>2 DEF OnLeft
    <3>2. lo2[m] = q /\ pos2[m] = q + 1
        BY <1>3, <1>6, <2>1, <2>2, <3>1 DEF Spread
    <3> QED BY <1>3, <1>4, <1>10, <1>12, <2>2, <3>2 DEF OnLeft
  <2>3. CASE ~(s = "left" /\ m = up)
    <3>1. u.child["left"][m] = t.child["left"][m]
        BY <1>2, <1>12, <2>1, <2>3, SidesAre
    <3>2. PICK c \in In(t) \cup {sentinel} : c = t.child["left"][m]
        BY <1>16, SidesAre, ChildIn
    <3>3. OnLeft(t, m, c, pos, lo, hi)
        BY <1>14, <1>16, <3>2
    <3>4. s = "left" => pos[m] # q
        BY <1>14, <1>16, <2>3
    <3>5. CASE c = sentinel
      <4>1. lo[m] = pos[m]
          BY <3>3, <3>5 DEF OnLeft
      <4>2. lo2[m] = pos2[m]
          BY <1>2, <1>3, <1>6, <2>1, <3>4, <4>1 DEF Spread
      <4> QED BY <1>4, <3>1, <3>2, <3>5, <4>2 DEF OnLeft
    <3>6. CASE c # sentinel
      <4>1. t.parent[c] = m /\ lo[c] = lo[m] /\ hi[c] = pos[m] - 1 /\ c \in In(t) /\ c # n /\ c \in Nodes
          BY <1>1, <3>2, <3>3, <3>6 DEF OnLeft
      <4>2. lo2[c] = Spread(lo[c], lf) /\ hi2[c] = Spread(hi[c], hf) /\ u.parent[c] = m
          BY <1>10, <1>12, <4>1 DEF Ends
      <4>3. hi2[c] = pos2[m] - 1
          BY <1>2, <1>3, <1>7, <2>1, <3>4, <4>1, <4>2 DEF Spread
      <4> QED BY <1>4, <2>1, <3>1, <3>2, <3>6, <4>1, <4>2, <4>3 DEF OnLeft
    <3> QED BY <3>5, <3>6
  <2> QED BY <2>2, <2>3
<1>17. ASSUME NEW m \in In(t) PROVE OnRight(u, m, u.child["right"][m], pos2, lo2, hi2)
  <2>1. /\ pos2[m] = Spread(pos[m], q) /\ hi2[m] = Spread(hi[m], hf) /\ m # n /\ m \in Nodes
        /\ hi[m] \in Int /\ pos[m] \in Int
      BY <1>1, <1>10, <1>17
  <2>2. CASE s = "right" /\ m = up
    <3>1. hi[m] = pos[m] /\ pos[m] = q - 1
        BY <1>1, <1>13, <1>14, <2>2 DEF OnRight
    <3>2. hi2[m] = q /\ pos2[m] = q - 1
        BY <1>3, <1>7, <2>1, <2>2, <3>1 DEF Spread
    <3> QED BY <1>3, <1>4, <1>10, <1>12, <2>2, <3>2 DEF OnRight
  <2>3. CASE ~(s = "right" /\ m = up)
    <3>1. u.child["right"][m] = t.child["right"][m]
        BY <1>2, <1>12, <2>1, <2>3, SidesAre
    <3>2. PICK c \in In(t) \cup {sentinel} : c = t.child["right"][m]
        BY <1>17, SidesAre, ChildIn
    <3>3. OnRight(t, m, c, pos, lo, hi)
        BY <1>14, <1>17, <3>2
    <3>4. s = "right" => pos[m] # q - 1
        BY <1>14, <1>17, <2>3
    <3>5. CASE c = sentinel
      <4>1. hi[m] = pos[m]
          BY <3>3, <3>5 DEF OnRight
      <4>2. hi2[m] = pos2[m]
          BY <1>2, <1>3, <1>7, <2>1, <3>4, <4>1 DEF Spread
      <4> QED BY <1>4, <3>1, <3>2, <3>5, <4>2 DEF OnRight
    <3>6. CASE c # sentinel
      <4>1. t.parent[c] = m /\ hi[c] = hi[m] /\ lo[c] = pos[m] + 1 /\ c \in In(t) /\ c # n /\ c \in Nodes
          BY <1>1, <3>2, <3>3, <3>6 DEF OnRight
      <4>2. lo2[c] = Spread(lo[c], lf) /\ hi2[c] = Spread(hi[c], hf) /\ u.parent[c] = m
          BY <1>10, <1>12, <4>1 DEF Ends
      <4>3. lo2[c] = pos2[m] + 1
          BY <1>2, <1>3, <1>6, <2>1, <3>4, <4>1, <4>2 DEF Spread
      <4> QED BY <1>4, <2>1, <3>1, <3>2, <3>6, <4>1, <4>2, <4>3 DEF OnRight
    <3> QED BY <3>5, <3>6
  <2> QED BY <2>2, <2>3
<1>18. /\ OnLeft(u, n, u.child["left"][n], pos2, lo2, hi2)
       /\ OnRight(u, n, u.child["right"][n], pos2, lo2, hi2)
       /\ lo2[n] <= pos2[n] /\ pos2[n] <= hi2[n]
    BY <1>3, <1>10, <1>12, SidesAre DEF OnLeft, OnRight
<1>19. u.root \in Nodes => lo2[u.root] = 1 /\ hi2[u.root] = N + 1
  <2>1. lo[t.root] = 1 /\ hi[t.root] = N
      BY <1>1 DEF IsShape, Spans
  <2>2. lo2[t.root] = Spread(1, lf) /\ hi2[t.root] = Spread(N, hf)
      BY <1>1, <1>4, <1>10, <2>1
  <2>3. 1 <= pos[up] /\ pos[up] <= N /\ pos[up] \in Int
      BY <1>1
  <2>4. lf > 1 /\ N >= hf
      BY <1>1, <1>2, <1>3, <1>6, <1>7, <1>13, <2>3
  <2> QED BY <1>1, <1>12, <2>2, <2>4 DEF Spread
<1>20. ASSUME NEW m \in In(u), m # u.root PROVE HangsFrom(u, m, u.parent[m])
  <2>1. CASE m = n
      BY <1>2, <1>4, <1>12, <2>1 DEF HangsFrom
  <2>2. CASE m # n
    <3>1. m \in In(t) /\ m # t.root /\ u.parent[m] = t.parent[m] /\ m # sentinel
        BY <1>1, <1>4, <1>12, <1>20, <2>2 DEF Ends
    <3>2. PICK y \in Sides : y = SideOf(t, m)
        BY <3>1, ParentOf
    <3>3. PICK p \in In(t) : p = t.parent[m] /\ t.child[y][p] = m
        BY <3>1, <3>2, ParentOf
    <3>4. y # s \/ p # up
        BY <3>1, <3>3
    <3>5. u.child[y][p] = m
        BY <1>1, <1>12, <3>3, <3>4
    <3> QED BY <1>4, <3>1, <3>3, <3>5, SidesAre DEF HangsFrom
  <2> QED BY <2>1, <2>2
<1>21. ASSUME NEW m \in Nodes \ In(u) PROVE u.child["left"][m] = NULL /\ u.child["right"][m] = NULL
  <2>1. m \in Nodes \ In(t) /\ m # n /\ m # up
      BY <1>4
  <2>2. t.child["left"][m] = NULL /\ t.child["right"][m] = NULL
      BY <2>1 DEF IsShape, Spans
  <2> QED BY <1>12, <2>1, <2>2, SidesAre
<1>22. Spans(u, N + 1, pos2, lo2, hi2)
  <2>1. u.root # sentinel
      BY <1>1, <1>12
  <2>2. \A m \in In(u) : /\ lo2[m] <= pos2[m] /\ pos2[m] <= hi2[m]
                         /\ OnLeft(u, m, u.child["left"][m], pos2, lo2, hi2)
                         /\ OnRight(u, m, u.child["right"][m], pos2, lo2, hi2)
      BY <1>4, <1>15, <1>16, <1>17, <1>18
  <2> QED BY <1>11, <1>19, <1>20, <1>21, <2>1, <2>2 DEF Spans
<1>23. Placed(u, N + 1, SpreadAt(at, N, n, q), pos2)
    BY <1>3, <1>4, <1>5, HungPlaced
<1> QED BY <1>5, <1>8, <1>9, <1>12, <1>22, <1>23 DEF IsShape

LEMMA HungHeights ==
    ASSUME NEW t, NEW N, NEW at, NEW pos, NEW lo, NEW hi, IsShape(t, N, at, pos, lo, hi),
           NEW s \in Sides, NEW n \in Nodes, n \notin In(t), NEW up \in In(t),
           t.child[s][up] = sentinel, NEW u, Hung(t, u, s, n, up),
           NEW b, Heights(t, NULL, b)
    PROVE  Heights(u, NULL, [b EXCEPT ![n] = 1])
<1>1. /\ In(t) \subseteq Nodes /\ sentinel \notin Nodes /\ NULL \notin Nodes /\ NULL # sentinel
    BY ShapeFacts
<1>2. In(u) = In(t) \cup {n} /\ n # up /\ n # sentinel
    BY HungIn
<1>3. PICK b2 : b2 = [b EXCEPT ![n] = 1]
    OBVIOUS
<1>4. /\ b2 \in [Nodes -> Int] /\ b2[n] = 1 /\ \A m \in Nodes \ {n} : b2[m] = b[m]
    BY <1>3 DEF Heights
<1>5. /\ \A y \in Sides : u.child[y][n] = sentinel
      /\ u.child[s][up] = n
      /\ \A y \in Sides : \A m \in Nodes \ {n} : y # s \/ m # up => u.child[y][m] = t.child[y][m]
      /\ u.color[n] = "red" /\ \A m \in Ends \ {n} : u.color[m] = t.color[m]
    BY DEF Hung
<1>6. Even(u, NULL, b2, n)
  <2>1. Weight(u, NULL, n) = 0 /\ \A y \in Sides : Below(u, NULL, b2, n, u.child[y][n]) = 1
      BY <1>1, <1>5 DEF Weight, Below
  <2> QED BY <1>4, <2>1 DEF Even
<1>7. ASSUME NEW m \in In(t) PROVE Even(u, NULL, b2, m)
  <2>1. m \in Nodes /\ m # n
      BY <1>1, <1>7
  <2>2. Weight(u, NULL, m) = Weight(t, NULL, m)
      BY <1>5, <2>1 DEF Weight, Ends
  <2>3. ASSUME NEW y \in Sides
        PROVE  Below(u, NULL, b2, m, u.child[y][m]) = Below(t, NULL, b, m, t.child[y][m])
    <3>1. CASE y = s /\ m = up
        BY <1>1, <1>2, <1>4, <1>5, <3>1 DEF Below
    <3>2. CASE y # s \/ m # up
      <4>1. u.child[y][m] = t.child[y][m] /\ t.child[y][m] \in In(t) \cup {sentinel}
          BY <1>5, <1>7, <2>1, <3>2, ChildIn
      <4> QED BY <1>1, <1>4, <4>1 DEF Below
    <3> QED BY <3>1, <3>2
  <2> QED BY <1>4, <1>7, <2>1, <2>2, <2>3 DEF Heights, Even
<1>8. u.color[sentinel] = "black"
    BY <1>2, <1>5 DEF Heights, Ends
<1> QED BY <1>2, <1>3, <1>4, <1>6, <1>7, <1>8 DEF Heights

LEMMA HungBalancing ==
    ASSUME NEW t, Settled(t), NEW s \in Sides, NEW n \in Nodes, n \notin In(t), NEW up \in In(t),
           t.child[s][up] = sentinel,
           NEW u, u = [Hang(t, n, up, "red") EXCEPT !.child[s][up] = n]
    PROVE  Balancing(u, n)
<1>1. PICK N, at, pos, lo, hi : IsShape(t, N, at, pos, lo, hi)
    BY DEF Settled, Shaped
<1>2. PICK b : Heights(t, NULL, b)
    BY DEF Settled, High
<1>3. /\ IsTree(t) /\ In(t) \subseteq Nodes /\ t.root \in In(t) /\ n # up /\ sentinel \notin Nodes
    BY <1>1, ShapeFacts DEF IsShape
<1>4. Hung(t, u, s, n, up)
    BY <1>3, HungIs
<1>5. In(u) = In(t) \cup {n} /\ n # sentinel /\ n # t.root
    BY <1>1, <1>4, HungIn
<1>6. Shaped(u)
  <2>1. PICK q : q = NewPlace(pos, s, up)
      OBVIOUS
  <2>2. IsShape(u, N + 1, SpreadAt(at, N, n, q), SpreadPos(pos, n, q),
                SpreadLo(lo, s, n, q), SpreadHi(hi, s, n, q))
      BY <1>1, <1>4, <2>1, HungShape
  <2> QED BY <2>2 DEF Shaped
<1>7. High(u, NULL)
  <2>1. Heights(u, NULL, [b EXCEPT ![n] = 1])
      BY <1>1, <1>2, <1>4, HungHeights
  <2> QED BY <2>1 DEF High
<1>8. /\ u.root = t.root /\ u.parent[n] = up /\ \A m \in Ends \ {n} : u.parent[m] = t.parent[m]
      /\ u.color[n] = "red" /\ \A m \in Ends \ {n} : u.color[m] = t.color[m]
    BY <1>4 DEF Hung
<1>9. ASSUME NEW m \in RedRed(u), m # n PROVE FALSE
  <2>1. m \in In(t) /\ m # t.root /\ u.color[m] = "red" /\ u.color[u.parent[m]] = "red"
      BY <1>5, <1>8, <1>9 DEF RedRed
  <2>2. t.parent[m] \in In(t)
      BY <1>1, <2>1, ParentOf
  <2>3. u.parent[m] = t.parent[m] /\ t.color[m] = "red" /\ t.color[t.parent[m]] = "red"
      BY <1>3, <1>8, <1>9, <2>1, <2>2 DEF Ends
  <2>4. m \in RedRed(t)
      BY <2>1, <2>3 DEF RedRed
  <2> QED BY <2>4 DEF Settled
<1>10. u.color[u.root] = "black"
  <2>1. t.root \in Ends \ {n} /\ t.color[t.root] = "black"
      BY <1>3, <1>5 DEF IsTree, Settled
  <2> QED BY <1>8, <2>1
<1> QED BY <1>5, <1>6, <1>7, <1>8, <1>9, <1>10 DEF Balancing

(* The first node.                                                         *)
LEMMA FirstSettled ==
    ASSUME NEW t, Settled(t), t.root = sentinel, NEW n \in Nodes,
           NEW u, u = [Hang(t, n, NULL, "black") EXCEPT !.root = n]
    PROVE  Settled(u) /\ Ordered(u, 1, [i \in 1 .. 1 |-> n])
<1>1. PICK N, at, pos, lo, hi : IsShape(t, N, at, pos, lo, hi)
    BY DEF Settled, Shaped
<1>2. /\ IsTree(t) /\ sentinel \notin Nodes /\ NULL \notin Nodes /\ NULL # sentinel
    BY <1>1, ShapeFacts DEF IsShape
<1>3. In(t) = {} /\ \A m \in Nodes : t.child["left"][m] = NULL /\ t.child["right"][m] = NULL
    BY <1>1 DEF IsShape, Spans
<1>4. PICK h : h = Hang(t, n, NULL, "black")
    OBVIOUS
<1>5. Hanging(t, h, n, NULL, "black")
    BY <1>2, <1>4, HangFields
<1>6. /\ IsTree(h)
      /\ \A y \in Sides : \A m \in Nodes :
           h.child[y][m] = IF m = n THEN sentinel ELSE t.child[y][m]
      /\ h.parent[n] = NULL /\ \A m \in Ends \ {n} : h.parent[m] = t.parent[m]
      /\ h.color[n] = "black" /\ \A m \in Ends \ {n} : h.color[m] = t.color[m]
    BY <1>5 DEF Hanging
<1>7. PICK z : z = [root |-> n, child |-> h.child, parent |-> h.parent, color |-> h.color]
    OBVIOUS
<1>8. IsTree(z) /\ z.root = n /\ z.child = h.child /\ z.parent = h.parent /\ z.color = h.color
    BY <1>6, <1>7 DEF IsTree, Ends
<1>9. u = z
    BY <1>4, <1>6, <1>7 DEF IsTree
<1>10. In(z) = {n}
  <2>1. ASSUME NEW m \in Nodes, m # n PROVE m \notin In(z)
    <3>1. z.parent[m] = t.parent[m]
        BY <1>6, <1>8, <2>1 DEF Ends
    <3>2. t.parent[m] = NULL
        BY <1>3 DEF In
    <3> QED BY <1>8, <2>1, <3>1, <3>2 DEF In
  <2> QED BY <1>8, <2>1 DEF In
<1>11. PICK one : one = [m \in Nodes |-> 1]
    OBVIOUS
<1>12. PICK at1 : at1 = [i \in 1 .. 1 |-> n]
    OBVIOUS
<1>13. \A y \in Sides : z.child[y][n] = sentinel
    BY <1>6, <1>8
<1>14. Placed(z, 1, at1, one)
    BY <1>10, <1>11, <1>12 DEF Placed
<1>15. Spans(z, 1, one, one, one)
  <2>1. one \in [Nodes -> Int] /\ \A m \in Nodes : one[m] = 1
      BY <1>11
  <2>2. ASSUME NEW m \in Nodes \ In(z) PROVE z.child["left"][m] = NULL /\ z.child["right"][m] = NULL
      BY <1>3, <1>6, <1>8, <1>10, SidesAre
  <2>3. OnLeft(z, n, z.child["left"][n], one, one, one) /\ OnRight(z, n, z.child["right"][n], one, one, one)
      BY <1>13, <2>1, SidesAre DEF OnLeft, OnRight
  <2> QED BY <1>2, <1>8, <1>10, <2>1, <2>2, <2>3 DEF Spans
<1>16. Shaped(z) /\ Ordered(z, 1, [i \in 1 .. 1 |-> n])
    BY <1>8, <1>12, <1>14, <1>15 DEF Shaped, Ordered, IsShape
<1>17. High(z, NULL)
  <2>1. PICK b : b = [m \in Nodes |-> 2]
      OBVIOUS
  <2>2. b \in [Nodes -> Int] /\ b[n] = 2
      BY <2>1
  <2>3. Weight(z, NULL, n) = 1
      BY <1>2, <1>6, <1>8 DEF Weight
  <2>4. \A y \in Sides : Below(z, NULL, b, n, z.child[y][n]) = 1
      BY <1>2, <1>13 DEF Below
  <2>5. Even(z, NULL, b, n)
      BY <2>2, <2>3, <2>4 DEF Even
  <2>6. z.color[sentinel] = "black"
    <3>1. t.color[sentinel] = "black" /\ sentinel \in Ends \ {n}
        BY <1>2 DEF Settled, High, Heights, Ends
    <3> QED BY <1>6, <1>8, <3>1
  <2> QED BY <1>10, <2>2, <2>5, <2>6 DEF High, Heights
<1>18. RedRed(z) = {} /\ z.color[z.root] = "black"
    BY <1>6, <1>8, <1>10 DEF RedRed
<1>19. Settled(z)
    BY <1>16, <1>17, <1>18 DEF Settled
<1> QED BY <1>9, <1>16, <1>19

-----------------------------------------------------------------------------
(* A node z with no child on side e is cut out: its other child temp, a    *)
(* node or none, hangs in its place.                                       *)

Cut(t, u, z, temp) ==
    /\ IsTree(u) /\ u.root = IF z = t.root THEN temp ELSE t.root
    /\ \A y \in Sides : u.child[y][z] = NULL
    /\ \A y \in Sides : \A m \in Nodes \ {z} :
         u.child[y][m] = IF t.child[y][m] = z THEN temp ELSE t.child[y][m]
    /\ u.parent[z] = NULL /\ \A m \in Nodes \ {z, temp} : u.parent[m] = t.parent[m]
    /\ temp # sentinel /\ z # t.root => u.parent[temp] = t.parent[z]

LEMMA CutIn ==
    ASSUME NEW t, NEW N, NEW at, NEW pos, NEW lo, NEW hi, IsShape(t, N, at, pos, lo, hi),
           NEW e \in Sides, NEW z \in In(t), t.child[e][z] = sentinel,
           NEW temp, t.child[Other(e)][z] = temp, NEW u, Cut(t, u, z, temp)
    PROVE  /\ In(u) = In(t) \ {z}
           /\ temp \in In(u) \cup {sentinel} /\ temp # z
           /\ temp # sentinel => t.parent[temp] = z
<1>1. In(t) \subseteq Nodes /\ sentinel \notin Nodes /\ NULL \notin Nodes
    BY ShapeFacts
<1>2. temp \in In(t) \cup {sentinel}
    BY SidesAre, ChildIn
<1>3. temp # sentinel => t.parent[temp] = z /\ temp # z
    BY <1>1, <1>2, SidesAre, ChildOnce
<1>4. z # t.root => t.parent[z] \in Nodes
    BY ParentOf
<1>5. ASSUME NEW m \in Nodes PROVE m \in In(u) <=> m \in In(t) /\ m # z
  <2>1. CASE m = z
      BY <1>1, <1>3, <2>1 DEF Cut, In
  <2>2. CASE m = temp
      BY <1>1, <1>2, <1>3, <1>4, <2>2 DEF Cut, In
  <2>3. CASE m # z /\ m # temp
      BY <1>1, <2>3 DEF Cut, In
  <2> QED BY <2>1, <2>2, <2>3
<1>6. In(u) = In(t) \ {z}
    BY <1>1, <1>5 DEF In
<1> QED BY <1>1, <1>2, <1>3, <1>6

Closed(i, from) == IF i > from THEN i - 1 ELSE i
ClosedBy(f, from) == [m \in Nodes |-> Closed(f[m], from)]
ClosedAt(at, N, q) == [i \in 1 .. N - 1 |-> IF i < q THEN at[i] ELSE at[i + 1]]

LEMMA CutPlaced ==
    ASSUME NEW t, NEW N, NEW at, NEW pos, NEW lo, NEW hi, IsShape(t, N, at, pos, lo, hi),
           NEW z \in In(t), NEW u, In(u) = In(t) \ {z}, NEW q, q = pos[z]
    PROVE  Placed(u, N - 1, ClosedAt(at, N, q), ClosedBy(pos, q))
<1>1. /\ N \in Nat /\ at \in [1 .. N -> Nodes] /\ pos \in [Nodes -> Int]
      /\ \A i \in 1 .. N : at[i] \in In(t) /\ pos[at[i]] = i
      /\ \A m \in In(t) : pos[m] \in 1 .. N /\ at[pos[m]] = m
    BY DEF IsShape, Placed
<1>2. In(t) \subseteq Nodes
    BY ShapeFacts
<1>3. PICK at2 : at2 = ClosedAt(at, N, q)
    OBVIOUS
<1>4. PICK pos2 : pos2 = ClosedBy(pos, q)
    OBVIOUS
<1>5. q \in 1 .. N /\ at[q] = z
    BY <1>1
<1>6. \A i \in 1 .. N - 1 : at2[i] = IF i < q THEN at[i] ELSE at[i + 1]
    BY <1>3 DEF ClosedAt
<1>7. at2 \in [1 .. N - 1 -> Nodes]
    BY <1>1, <1>3, <1>5 DEF ClosedAt
<1>8. /\ pos2 \in [Nodes -> Int]
      /\ \A m \in Nodes : pos2[m] = IF pos[m] > q THEN pos[m] - 1 ELSE pos[m]
    BY <1>1, <1>4, <1>5 DEF ClosedBy, Closed
<1>9. ASSUME NEW m \in In(u) PROVE pos2[m] \in 1 .. N - 1 /\ at2[pos2[m]] = m
  <2>1. m \in In(t) /\ m \in Nodes /\ pos[m] \in 1 .. N /\ at[pos[m]] = m /\ pos[m] # q
      BY <1>1, <1>2, <1>5, <1>9
  <2>2. PICK p \in 1 .. N : p = pos[m] /\ at[p] = m /\ p # q
      BY <2>1
  <2>3. N \in Int /\ q \in Int /\ p \in Int /\ 1 <= q /\ q <= N /\ 1 <= p /\ p <= N
      BY <1>1, <1>5, <2>2
  <2>4. pos2[m] = IF p > q THEN p - 1 ELSE p
      BY <1>8, <2>1, <2>2
  <2>5. CASE p > q
    <3>1. pos2[m] = p - 1 /\ p - 1 \in 1 .. N - 1 /\ ~(p - 1 < q) /\ (p - 1) + 1 = p
        BY <2>3, <2>4, <2>5
    <3>2. at2[p - 1] = at[(p - 1) + 1]
        BY <1>6, <3>1
    <3> QED BY <2>2, <3>1, <3>2
  <2>6. CASE p < q
    <3>1. pos2[m] = p /\ p \in 1 .. N - 1
        BY <2>3, <2>4, <2>6
    <3>2. at2[p] = at[p]
        BY <1>6, <2>6, <3>1
    <3> QED BY <2>2, <3>1, <3>2
  <2> QED BY <2>2, <2>3, <2>5, <2>6
<1>10. ASSUME NEW i \in 1 .. N - 1 PROVE at2[i] \in In(u) /\ pos2[at2[i]] = i
  <2>1. CASE i < q
    <3>1. i \in 1 .. N /\ at2[i] = at[i] /\ at[i] \in In(t) /\ pos[at[i]] = i
        BY <1>1, <1>5, <1>6, <2>1
    <3> QED BY <1>2, <1>5, <1>8, <2>1, <3>1
  <2>2. CASE i >= q
    <3>1. i + 1 \in 1 .. N /\ at2[i] = at[i + 1] /\ at[i + 1] \in In(t) /\ pos[at[i + 1]] = i + 1
        BY <1>1, <1>5, <1>6, <2>2
    <3> QED BY <1>2, <1>5, <1>8, <2>2, <3>1
  <2> QED BY <1>5, <2>1, <2>2
<1>11. N - 1 \in Nat
    BY <1>1, <1>5
<1> QED BY <1>3, <1>4, <1>7, <1>8, <1>9, <1>10, <1>11 DEF Placed

LEMMA CutShape ==
    ASSUME NEW t, NEW N, NEW at, NEW pos, NEW lo, NEW hi, IsShape(t, N, at, pos, lo, hi),
           NEW e \in Sides, NEW z \in In(t), t.child[e][z] = sentinel,
           NEW temp, t.child[Other(e)][z] = temp, NEW u, Cut(t, u, z, temp),
           NEW q, q = pos[z]
    PROVE  IsShape(u, N - 1, ClosedAt(at, N, q), ClosedBy(pos, q),
                   ClosedBy(lo, q), ClosedBy(hi, q - 1))
<1>1. /\ In(t) \subseteq Nodes /\ N \in Nat /\ sentinel \notin Nodes
      /\ \A m \in In(t) : /\ pos[m] \in Int /\ lo[m] \in Int /\ hi[m] \in Int
                          /\ 1 <= pos[m] /\ pos[m] <= N
      /\ \A m, k \in In(t) : pos[m] = pos[k] => m = k
      /\ t.root \in In(t) /\ NULL \notin Nodes /\ NULL # sentinel
    BY ShapeFacts
<1>2. (e = "left" /\ Other(e) = "right") \/ (e = "right" /\ Other(e) = "left")
    BY SidesAre
<1>3. q \in Int /\ 1 <= q /\ q <= N
    BY <1>1
<1>4. /\ In(u) = In(t) \ {z} /\ temp \in In(u) \cup {sentinel} /\ temp # z
      /\ (temp # sentinel => t.parent[temp] = z)
    BY CutIn
<1>5. PICK pos2 : pos2 = ClosedBy(pos, q)
    OBVIOUS
<1>6. PICK lo2 : lo2 = ClosedBy(lo, q)
    OBVIOUS
<1>7. PICK hi2 : hi2 = ClosedBy(hi, q - 1)
    OBVIOUS
<1>8. \A m \in Nodes : /\ pos2[m] = Closed(pos[m], q) /\ lo2[m] = Closed(lo[m], q)
                       /\ hi2[m] = Closed(hi[m], q - 1)
    BY <1>5, <1>6, <1>7 DEF ClosedBy
<1>9. lo2 \in [Nodes -> Int] /\ hi2 \in [Nodes -> Int]
  <2>1. lo \in [Nodes -> Int] /\ hi \in [Nodes -> Int]
      BY DEF IsShape, Spans
  <2> QED BY <1>3, <1>6, <1>7, <2>1 DEF ClosedBy, Closed
<1>10. /\ IsTree(u) /\ u.root = IF z = t.root THEN temp ELSE t.root
       /\ \A y \in Sides : u.child[y][z] = NULL
       /\ \A y \in Sides : \A m \in Nodes \ {z} :
            u.child[y][m] = IF t.child[y][m] = z THEN temp ELSE t.child[y][m]
       /\ \A m \in Nodes \ {z, temp} : u.parent[m] = t.parent[m]
       /\ temp # sentinel /\ z # t.root => u.parent[temp] = t.parent[z]
    BY DEF Cut
<1>11. ASSUME NEW m \in In(t)
       PROVE  /\ m # z => pos[m] # q
              /\ lo[m] <= pos[m] /\ pos[m] <= hi[m]
              /\ OnLeft(t, m, t.child["left"][m], pos, lo, hi)
              /\ OnRight(t, m, t.child["right"][m], pos, lo, hi)
    BY <1>1, <1>11 DEF IsShape, Spans
(* The spans of z and of its child.                                        *)
<1>12. /\ lo[z] \in Int /\ hi[z] \in Int /\ lo[z] <= q /\ q <= hi[z]
       /\ temp = sentinel => lo[z] = q /\ hi[z] = q
       /\ temp # sentinel /\ e = "left" =>
            lo[z] = q /\ lo[temp] = q + 1 /\ hi[temp] = hi[z] /\ hi[z] > q
       /\ temp # sentinel /\ e = "right" => hi[z] = q /\ lo[temp] = lo[z] /\ hi[temp] = q - 1
       /\ temp # sentinel => lo[temp] \in Int /\ hi[temp] \in Int /\ temp \in Nodes
  <2>1. /\ lo[z] <= q /\ q <= hi[z] /\ lo[z] \in Int /\ hi[z] \in Int
        /\ OnLeft(t, z, t.child["left"][z], pos, lo, hi)
        /\ OnRight(t, z, t.child["right"][z], pos, lo, hi)
      BY <1>1, <1>11
  <2>2. temp # sentinel => /\ lo[temp] \in Int /\ hi[temp] \in Int /\ temp \in Nodes
                           /\ lo[temp] <= pos[temp] /\ pos[temp] <= hi[temp] /\ pos[temp] \in Int
      BY <1>1, <1>4, <1>11
  <2>3. CASE e = "left"
    <3>1. lo[z] = q
        BY <1>2, <2>1, <2>3 DEF OnLeft
    <3>2. OnRight(t, z, temp, pos, lo, hi)
        BY <1>2, <2>1, <2>3
    <3> QED BY <1>3, <2>1, <2>2, <2>3, <3>1, <3>2 DEF OnRight
  <2>4. CASE e = "right"
    <3>1. hi[z] = q
        BY <1>2, <2>1, <2>4 DEF OnRight
    <3>2. OnLeft(t, z, temp, pos, lo, hi)
        BY <1>2, <2>1, <2>4
    <3> QED BY <1>3, <2>1, <2>2, <2>4, <3>1, <3>2 DEF OnLeft
  <2> QED BY <1>2, <2>3, <2>4
<1>13. temp # sentinel => lo2[temp] = lo[z] /\ hi2[temp] = hi[z] - 1
    BY <1>2, <1>3, <1>8, <1>12 DEF Closed
<1>14. ASSUME NEW m \in In(u) PROVE lo2[m] <= pos2[m] /\ pos2[m] <= hi2[m]
  <2>1. /\ pos2[m] = Closed(pos[m], q) /\ lo2[m] = Closed(lo[m], q) /\ hi2[m] = Closed(hi[m], q - 1)
        /\ lo[m] \in Int /\ pos[m] \in Int /\ hi[m] \in Int /\ lo[m] <= pos[m] /\ pos[m] <= hi[m]
        /\ pos[m] # q
      BY <1>1, <1>4, <1>8, <1>11, <1>14
  <2> QED BY <1>3, <2>1 DEF Closed
<1>15. ASSUME NEW m \in In(u) PROVE OnLeft(u, m, u.child["left"][m], pos2, lo2, hi2)
  <2>1. /\ pos2[m] = Closed(pos[m], q) /\ lo2[m] = Closed(lo[m], q) /\ m # z /\ m \in Nodes
        /\ lo[m] \in Int /\ pos[m] \in Int /\ pos[m] # q /\ m \in In(t)
      BY <1>1, <1>4, <1>8, <1>11, <1>15
  <2>2. CASE t.child["left"][m] = z
    <3>1. u.child["left"][m] = temp
        BY <1>10, <2>1, <2>2, SidesAre
    <3>2. t.parent[z] = m /\ lo[z] = lo[m] /\ hi[z] = pos[m] - 1 /\ z # t.root
      <4>1. z # sentinel /\ OnLeft(t, m, z, pos, lo, hi)
          BY <1>1, <1>11, <2>1, <2>2
      <4>2. z # t.root
          BY <1>1, <2>1, <2>2, SidesAre, ChildOnce
      <4> QED BY <4>1, <4>2 DEF OnLeft
    <3>3. pos2[m] = pos[m] - 1 /\ lo2[m] = lo[z]
        BY <1>3, <1>12, <2>1, <3>2 DEF Closed
    <3>4. CASE temp = sentinel
        BY <1>12, <2>1, <3>1, <3>2, <3>3, <3>4 DEF OnLeft
    <3>5. CASE temp # sentinel
      <4>1. u.parent[temp] = m
          BY <1>10, <3>2, <3>5
      <4> QED BY <1>4, <1>12, <1>13, <2>1, <3>1, <3>2, <3>3, <3>5, <4>1 DEF OnLeft
    <3> QED BY <3>4, <3>5
  <2>3. CASE t.child["left"][m] # z
    <3>1. u.child["left"][m] = t.child["left"][m]
        BY <1>10, <2>1, <2>3, SidesAre
    <3>2. PICK c \in In(t) \cup {sentinel} : c = t.child["left"][m]
        BY <2>1, SidesAre, ChildIn
    <3>3. OnLeft(t, m, c, pos, lo, hi)
        BY <1>11, <2>1, <3>2
    <3>4. CASE c = sentinel
      <4>1. lo[m] = pos[m]
          BY <3>3, <3>4 DEF OnLeft
      <4>2. lo2[m] = pos2[m]
          BY <2>1, <4>1
      <4> QED BY <3>1, <3>2, <3>4, <4>2 DEF OnLeft
    <3>5. CASE c # sentinel
      <4>1. t.parent[c] = m /\ lo[c] = lo[m] /\ hi[c] = pos[m] - 1 /\ c \in In(t) /\ c \in Nodes
          BY <1>1, <3>2, <3>3, <3>5 DEF OnLeft
      <4>2. c # z /\ c # temp
          BY <1>4, <2>1, <2>3, <3>2, <3>5, <4>1
      <4>3. lo2[c] = lo2[m] /\ hi2[c] = Closed(hi[c], q - 1) /\ u.parent[c] = m
          BY <1>8, <1>10, <2>1, <4>1, <4>2
      <4>4. hi2[c] = pos2[m] - 1
          BY <1>3, <2>1, <4>1, <4>3 DEF Closed
      <4> QED BY <1>4, <3>1, <3>2, <3>5, <4>1, <4>2, <4>3, <4>4 DEF OnLeft
    <3> QED BY <3>4, <3>5
  <2> QED BY <2>2, <2>3
<1>16. ASSUME NEW m \in In(u) PROVE OnRight(u, m, u.child["right"][m], pos2, lo2, hi2)
  <2>1. /\ pos2[m] = Closed(pos[m], q) /\ hi2[m] = Closed(hi[m], q - 1) /\ m # z /\ m \in Nodes
        /\ hi[m] \in Int /\ pos[m] \in Int /\ pos[m] # q /\ m \in In(t)
      BY <1>1, <1>4, <1>8, <1>11, <1>16
  <2>2. CASE t.child["right"][m] = z
    <3>1. u.child["right"][m] = temp
        BY <1>10, <2>1, <2>2, SidesAre
    <3>2. t.parent[z] = m /\ lo[z] = pos[m] + 1 /\ hi[z] = hi[m] /\ z # t.root
      <4>1. z # sentinel /\ OnRight(t, m, z, pos, lo, hi)
          BY <1>1, <1>11, <2>1, <2>2
      <4>2. z # t.root
          BY <1>1, <2>1, <2>2, SidesAre, ChildOnce
      <4> QED BY <4>1, <4>2 DEF OnRight
    <3>3. pos2[m] = pos[m] /\ hi2[m] = hi[z] - 1
        BY <1>3, <1>12, <2>1, <3>2 DEF Closed
    <3>4. CASE temp = sentinel
        BY <1>12, <2>1, <3>1, <3>2, <3>3, <3>4 DEF OnRight
    <3>5. CASE temp # sentinel
      <4>1. u.parent[temp] = m
          BY <1>10, <3>2, <3>5
      <4> QED BY <1>4, <1>12, <1>13, <2>1, <3>1, <3>2, <3>3, <3>5, <4>1 DEF OnRight
    <3> QED BY <3>4, <3>5
  <2>3. CASE t.child["right"][m] # z
    <3>1. u.child["right"][m] = t.child["right"][m]
        BY <1>10, <2>1, <2>3, SidesAre
    <3>2. PICK c \in In(t) \cup {sentinel} : c = t.child["right"][m]
        BY <2>1, SidesAre, ChildIn
    <3>3. OnRight(t, m, c, pos, lo, hi)
        BY <1>11, <2>1, <3>2
    <3>4. CASE c = sentinel
      <4>1. hi[m] = pos[m]
          BY <3>3, <3>4 DEF OnRight
      <4>2. hi2[m] = pos2[m]
          BY <1>3, <2>1, <4>1 DEF Closed
      <4> QED BY <3>1, <3>2, <3>4, <4>2 DEF OnRight
    <3>5. CASE c # sentinel
      <4>1. t.parent[c] = m /\ hi[c] = hi[m] /\ lo[c] = pos[m] + 1 /\ c \in In(t) /\ c \in Nodes
          BY <1>1, <3>2, <3>3, <3>5 DEF OnRight
      <4>2. c # z /\ c # temp
          BY <1>4, <2>1, <2>3, <3>2, <3>5, <4>1
      <4>3. hi2[c] = hi2[m] /\ lo2[c] = Closed(lo[c], q) /\ u.parent[c] = m
          BY <1>8, <1>10, <2>1, <4>1, <4>2
      <4>4. lo2[c] = pos2[m] + 1
          BY <1>3, <2>1, <4>1, <4>3 DEF Closed
      <4> QED BY <1>4, <3>1, <3>2, <3>5, <4>1, <4>2, <4>3, <4>4 DEF OnRight
    <3> QED BY <3>4, <3>5
  <2> QED BY <2>2, <2>3
<1>17. u.root \in Nodes => lo2[u.root] = 1 /\ hi2[u.root] = N - 1
  <2>1. lo[t.root] = 1 /\ hi[t.root] = N
      BY <1>1 DEF IsShape, Spans
  <2>2. CASE z = t.root
      BY <1>1, <1>10, <1>13, <2>1, <2>2
  <2>3. CASE z # t.root
    <3>1. lo2[t.root] = Closed(1, q) /\ hi2[t.root] = Closed(N, q - 1)
        BY <1>1, <1>8, <2>1
    <3> QED BY <1>1, <1>3, <1>10, <2>3, <3>1 DEF Closed
  <2> QED BY <2>2, <2>3
<1>18. u.root = sentinel => In(u) = {}
  <2>1. ASSUME u.root = sentinel, NEW m \in In(u) PROVE FALSE
    <3>1. z = t.root /\ temp = sentinel
        BY <1>1, <1>10, <2>1
    <3>2. N = 1 /\ q = 1
        BY <1>1, <1>12, <3>1 DEF IsShape, Spans
    <3>3. m \in In(t) /\ m # z /\ pos[m] = 1
        BY <1>1, <1>4, <2>1, <3>2
    <3> QED BY <1>1, <3>2, <3>3
  <2> QED BY <2>1
<1>19. ASSUME NEW m \in In(u), m # u.root PROVE HangsFrom(u, m, u.parent[m])
  <2>0. m \in In(t) /\ m # z /\ m \in Nodes
      BY <1>1, <1>4, <1>19
  <2>1. CASE m = temp
    <3>1. z # t.root /\ temp # sentinel
        BY <1>1, <1>10, <1>19, <2>0, <2>1
    <3>2. PICK y \in Sides : y = SideOf(t, z)
        BY <3>1, ParentOf
    <3>3. PICK p \in In(t) : p = t.parent[z] /\ t.child[y][p] = z
        BY <3>1, <3>2, ParentOf
    <3>4. p # z
        BY <1>1, <3>3, ChildOnce
    <3>5. u.child[y][p] = temp /\ u.parent[m] = p
        BY <1>1, <1>10, <2>1, <3>1, <3>3, <3>4
    <3> QED BY <1>4, <2>1, <3>3, <3>4, <3>5, SidesAre DEF HangsFrom
  <2>2. CASE m # temp
    <3>1. m # t.root /\ u.parent[m] = t.parent[m]
        BY <1>10, <1>19, <2>0, <2>2
    <3>2. PICK y \in Sides : y = SideOf(t, m)
        BY <2>0, <3>1, ParentOf
    <3>3. PICK p \in In(t) : p = t.parent[m] /\ t.child[y][p] = m
        BY <2>0, <3>1, <3>2, ParentOf
    <3>4. p # z
        BY <1>1, <1>2, <2>0, <2>2, <3>3, SidesAre
    <3>5. u.child[y][p] = m
        BY <1>1, <1>10, <2>0, <3>3, <3>4
    <3> QED BY <1>4, <3>1, <3>3, <3>4, <3>5, SidesAre DEF HangsFrom
  <2> QED BY <2>1, <2>2
<1>20. ASSUME NEW m \in Nodes \ In(u) PROVE u.child["left"][m] = NULL /\ u.child["right"][m] = NULL
  <2>1. CASE m = z
      BY <1>10, <2>1, SidesAre
  <2>2. CASE m # z
    <3>1. t.child["left"][m] = NULL /\ t.child["right"][m] = NULL
        BY <1>4, <1>20, <2>2 DEF IsShape, Spans
    <3>2. z # NULL
        BY <1>1
    <3> QED BY <1>10, <1>20, <2>2, <3>1, <3>2, SidesAre
  <2> QED BY <2>1, <2>2
<1>21. Spans(u, N - 1, pos2, lo2, hi2)
    BY <1>9, <1>14, <1>15, <1>16, <1>17, <1>18, <1>19, <1>20 DEF Spans
<1>22. Placed(u, N - 1, ClosedAt(at, N, q), pos2)
    BY <1>4, <1>5, CutPlaced
<1> QED BY <1>5, <1>6, <1>7, <1>10, <1>21, <1>22 DEF IsShape

Full(t, up) == \A y \in Sides : t.child[y][up] # sentinel

(* What is missing after z has been cut out: where z was, a black node if  *)
(* z was black.                                                            *)
Missing(t, z, temp, x) ==
    \/ x = temp /\ t.color[z] = "black" /\ (temp = sentinel => Full(t, t.parent[z]))
    \/ x = NULL /\ t.color[z] = "red" /\ temp = sentinel

LEMMA CutHeights ==
    ASSUME NEW t, NEW N, NEW at, NEW pos, NEW lo, NEW hi, IsShape(t, N, at, pos, lo, hi),
           NEW e \in Sides, NEW z \in In(t), t.child[e][z] = sentinel,
           NEW temp, t.child[Other(e)][z] = temp, NEW u, Cut(t, u, z, temp),
           z # t.root, \A m \in Ends \ {z} : u.color[m] = t.color[m],
           temp = sentinel => u.parent[sentinel] = t.parent[z],
           NEW b, Heights(t, NULL, b), NEW x, Missing(t, z, temp, x)
    PROVE  \E b2 : Heights(u, x, b2)
<1>1. /\ In(t) \subseteq Nodes /\ sentinel \notin Nodes /\ NULL \notin Nodes /\ NULL # sentinel
    BY ShapeFacts
<1>2. /\ In(u) = In(t) \ {z} /\ temp \in In(u) \cup {sentinel} /\ temp # z
      /\ (temp # sentinel => t.parent[temp] = z)
    BY CutIn
<1>3. PICK d \in {0, 1} : d = IF x = temp THEN 1 ELSE 0
    OBVIOUS
<1>4. PICK b2 : b2 = [m \in Nodes |-> IF m = temp THEN b[m] + d ELSE b[m]]
    OBVIOUS
<1>5. /\ b2 \in [Nodes -> Int] /\ (temp # sentinel => b2[temp] = b[temp] + d)
      /\ \A m \in Nodes \ {temp} : b2[m] = b[m]
  <2>1. b \in [Nodes -> Int]
      BY DEF Heights
  <2>2. temp # sentinel => temp \in Nodes
      BY <1>1, <1>2
  <2> QED BY <1>4, <2>1, <2>2
<1>6. \A y \in Sides : \A m \in Nodes \ {z} :
         u.child[y][m] = IF t.child[y][m] = z THEN temp ELSE t.child[y][m]
    BY DEF Cut
<1>7. \A m \in Nodes \ {z} : Weight(u, x, m) = IF m = temp THEN Weight(t, NULL, m) + d ELSE Weight(t, NULL, m)
    BY <1>1, <1>3 DEF Weight, Ends, Missing
(* Where z was, the ways down are as high as they were.                    *)
<1>8. Below(t, NULL, b, z, temp) + d = b[z]
  <2>1. /\ b[z] = Weight(t, NULL, z) + Below(t, NULL, b, z, temp)
        /\ Below(t, NULL, b, z, temp) \in Int
      BY SidesAre, HeightFacts
  <2>2. Weight(t, NULL, z) = d
    <3>1. NULL # temp /\ z # NULL
        BY <1>1, <1>2
    <3> QED BY <1>3, <3>1 DEF Weight, Missing
  <2> QED BY <2>1, <2>2
<1>9. ASSUME NEW m \in In(u), NEW y \in Sides
      PROVE  Below(u, x, b2, m, u.child[y][m]) = Below(t, NULL, b, m, t.child[y][m])
  <2>1. m \in In(t) /\ m # z /\ m \in Nodes
      BY <1>1, <1>2, <1>9
  <2>2. CASE t.child[y][m] = z
    <3>1. t.parent[z] = m /\ u.child[y][m] = temp
        BY <1>1, <1>6, <2>1, <2>2, ChildOnce
    <3>2. Below(t, NULL, b, m, t.child[y][m]) = b[z]
        BY <1>1, <2>2 DEF Below
    <3>3. Below(u, x, b2, m, temp) = Below(t, NULL, b, z, temp) + d
      <4>1. CASE temp = sentinel
          BY <1>1, <1>3, <3>1, <4>1 DEF Below
      <4>2. CASE temp # sentinel
          BY <1>5, <4>2 DEF Below
      <4> QED BY <4>1, <4>2
    <3> QED BY <1>8, <3>1, <3>2, <3>3
  <2>3. CASE t.child[y][m] # z
    <3>1. u.child[y][m] = t.child[y][m] /\ t.child[y][m] \in In(t) \cup {sentinel}
        BY <1>6, <2>1, <2>3, ChildIn
    <3>2. CASE t.child[y][m] = sentinel
      <4>1. x = sentinel => u.parent[sentinel] # m
        <5>1. x = sentinel => temp = sentinel /\ Full(t, t.parent[z])
            BY <1>1 DEF Missing
        <5> QED BY <3>2, <5>1 DEF Full
      <4> QED BY <1>1, <3>1, <3>2, <4>1 DEF Below
    <3>3. CASE t.child[y][m] # sentinel
      <4>1. t.child[y][m] # temp /\ t.child[y][m] \in Nodes
          BY <1>1, <1>2, <2>1, <3>1, <3>3, ChildOnce
      <4> QED BY <1>5, <3>1, <3>3, <4>1 DEF Below
    <3> QED BY <3>2, <3>3
  <2> QED BY <2>2, <2>3
<1>10. ASSUME NEW m \in In(u) PROVE Even(u, x, b2, m)
  <2>1. m \in In(t) /\ m # z /\ m \in Nodes
      BY <1>1, <1>2, <1>10
  <2>2. b[m] \in Int /\ b[m] >= 1 /\ Weight(t, NULL, m) \in Int
      BY <2>1, SidesAre, HeightFacts
  <2>3. \A y \in Sides : /\ b[m] = Weight(t, NULL, m) + Below(t, NULL, b, m, t.child[y][m])
                         /\ Below(t, NULL, b, m, t.child[y][m]) \in Int
      BY <2>1, HeightFacts
  <2>4. CASE m = temp
    <3>1. b2[m] = b[m] + d /\ Weight(u, x, m) = Weight(t, NULL, m) + d
        BY <1>1, <1>5, <1>7, <2>1, <2>4
    <3>2. \A y \in Sides : b2[m] = Weight(u, x, m) + Below(t, NULL, b, m, t.child[y][m])
        BY <2>2, <2>3, <3>1
    <3> QED BY <1>9, <1>10, <2>2, <3>1, <3>2 DEF Even
  <2>5. CASE m # temp
    <3>1. b2[m] = b[m] /\ Weight(u, x, m) = Weight(t, NULL, m)
        BY <1>5, <1>7, <2>1, <2>5
    <3> QED BY <1>9, <1>10, <2>2, <2>3, <3>1 DEF Even
  <2> QED BY <2>4, <2>5
<1>11. u.color[sentinel] = "black"
    BY <1>1 DEF Heights, Ends
<1> QED BY <1>5, <1>10, <1>11 DEF Heights

(* Among the nodes that stay, only temp may now be red under a red parent. *)
LEMMA CutRedRed ==
    ASSUME NEW t, NEW N, NEW at, NEW pos, NEW lo, NEW hi, IsShape(t, N, at, pos, lo, hi),
           NEW e \in Sides, NEW z \in In(t), t.child[e][z] = sentinel,
           NEW temp, t.child[Other(e)][z] = temp, NEW u, Cut(t, u, z, temp),
           RedRed(t) = {}, \A m \in Ends \ {z, temp} : u.color[m] = t.color[m],
           u.color[temp] = t.color[temp] \/ (z = t.root /\ u.color[temp] = "black")
    PROVE  /\ z = t.root => RedOnlyAt(u, u.root)
           /\ z # t.root => RedOnlyAt(u, temp)
<1>1. /\ In(t) \subseteq Nodes /\ sentinel \notin Nodes
    BY ShapeFacts
<1>2. /\ In(u) = In(t) \ {z} /\ temp \in In(u) \cup {sentinel} /\ temp # z
    BY CutIn
<1>3. ASSUME NEW m \in RedRed(u), m # temp, u.color[temp] = t.color[temp] PROVE FALSE
  <2>1. m \in In(t) /\ m # z /\ m # u.root /\ u.color[m] = "red" /\ u.color[u.parent[m]] = "red"
      BY <1>2, <1>3 DEF RedRed
  <2>2. m # t.root
      BY <2>1 DEF Cut
  <2>3. /\ t.parent[m] \in In(t) /\ t.child[SideOf(t, m)][t.parent[m]] = m /\ SideOf(t, m) \in Sides
        /\ m \in Nodes
      BY <2>1, <2>2, ParentOf
  <2>4. u.parent[m] = t.parent[m]
      BY <1>3, <2>1, <2>3 DEF Cut
  <2>5. t.parent[m] # z
      BY <1>1, <1>3, <2>3, SidesAre
  <2>6. t.color[m] = "red" /\ t.color[t.parent[m]] = "red"
      BY <1>1, <1>3, <2>1, <2>3, <2>4, <2>5 DEF Ends
  <2> QED BY <2>1, <2>2, <2>6 DEF RedRed
<1>4. ASSUME NEW m \in RedRed(u), z = t.root PROVE FALSE
  <2>1. m \in In(t) /\ m # z /\ m # u.root /\ u.color[m] = "red" /\ u.color[u.parent[m]] = "red"
      BY <1>2, <1>4 DEF RedRed
  <2>2. u.root = temp
      BY <1>4 DEF Cut
  <2>3. /\ t.parent[m] \in In(t) /\ t.child[SideOf(t, m)][t.parent[m]] = m /\ SideOf(t, m) \in Sides
        /\ m \in Nodes
      BY <1>4, <2>1, ParentOf
  <2>4. u.parent[m] = t.parent[m]
      BY <2>1, <2>2, <2>3 DEF Cut
  <2>5. t.parent[m] # z
      BY <1>1, <2>1, <2>2, <2>3, SidesAre
  <2>6. t.color[m] = "red" /\ (t.parent[m] # temp => t.color[t.parent[m]] = "red")
      BY <1>1, <2>1, <2>2, <2>3, <2>4, <2>5 DEF Ends
  <2>7. t.color[t.parent[m]] = "red"
      BY <2>1, <2>4, <2>6
  <2> QED BY <1>4, <2>1, <2>6, <2>7 DEF RedRed
<1> QED BY <1>3, <1>4 DEF RedOnlyAt

(* The root is cut out, and temp, turned black, is the new root.           *)
LEMMA CutRoot ==
    ASSUME NEW t, Settled(t), NEW e \in Sides, NEW z \in In(t), t.child[e][z] = sentinel,
           NEW temp, t.child[Other(e)][z] = temp, NEW u, Cut(t, u, z, temp),
           z = t.root, u.color[temp] = "black",
           \A m \in Ends \ {z, temp} : u.color[m] = t.color[m]
    PROVE  Settled(u)
<1>1. PICK N, at, pos, lo, hi : IsShape(t, N, at, pos, lo, hi)
    BY DEF Settled, Shaped
<1>2. PICK b : Heights(t, NULL, b)
    BY DEF Settled, High
<1>3. /\ In(t) \subseteq Nodes /\ sentinel \notin Nodes /\ NULL \notin Nodes /\ NULL # sentinel
    BY <1>1, ShapeFacts
<1>4. /\ In(u) = In(t) \ {z} /\ temp \in In(u) \cup {sentinel} /\ temp # z
      /\ (temp # sentinel => t.parent[temp] = z) /\ u.root = temp
  <2>1. /\ In(u) = In(t) \ {z} /\ temp \in In(u) \cup {sentinel} /\ temp # z
        /\ (temp # sentinel => t.parent[temp] = z)
      BY <1>1, CutIn
  <2> QED BY <2>1 DEF Cut
<1>5. PICK q : q = pos[z]
    OBVIOUS
<1>6. IsShape(u, N - 1, ClosedAt(at, N, q), ClosedBy(pos, q), ClosedBy(lo, q), ClosedBy(hi, q - 1))
    BY <1>1, <1>5, CutShape
<1>7. RedRed(u) = {}
  <2>1. RedRed(t) = {}
      BY DEF Settled
  <2>2. z = t.root => RedOnlyAt(u, u.root)
      BY <1>1, <2>1, CutRedRed
  <2> QED BY <2>2 DEF RedOnlyAt, RedRed
<1>8. u.color[sentinel] = "black"
  <2>1. t.color[sentinel] = "black"
      BY <1>2 DEF Heights
  <2> QED BY <1>3, <1>4, <2>1 DEF Ends
<1>9. High(u, NULL)
  <2>1. CASE temp = sentinel
    <3>1. In(u) = {}
        BY <1>4, <1>6, <2>1 DEF IsShape, Spans
    <3>2. b \in [Nodes -> Int]
        BY <1>2 DEF Heights
    <3> QED BY <1>8, <3>1, <3>2 DEF High, Heights
  <2>2. CASE temp # sentinel
    <3>1. temp \in In(t) /\ temp \in Nodes /\ temp \in In(u)
        BY <1>3, <1>4, <2>2
    <3>2. PICK d \in Int : d = 1 - Weight(t, NULL, temp)
        BY DEF Weight
    <3>3. d >= 0 /\ Weight(t, NULL, temp) + d = Weight(u, NULL, temp) /\ Weight(t, NULL, temp) \in Int
        BY <1>3, <3>1, <3>2 DEF Weight
    <3>4. PICK b2 : b2 = [m \in Nodes |-> IF m = temp THEN b[m] + d ELSE b[m]]
        OBVIOUS
    <3>5. b \in [Nodes -> Int]
        BY <1>2 DEF Heights
    <3>6. /\ b2 \in [Nodes -> Int] /\ b2[temp] = b[temp] + d
          /\ \A m \in Nodes \ {temp} : b2[m] = b[m]
        BY <3>1, <3>4, <3>5
    <3>7. ASSUME NEW m \in In(u), NEW y \in Sides
          PROVE  Below(u, NULL, b2, m, u.child[y][m]) = Below(t, NULL, b, m, t.child[y][m])
      <4>1. m \in In(t) /\ m # z /\ m \in Nodes
          BY <1>3, <1>4
      <4>2. t.child[y][m] \in In(t) \cup {sentinel}
          BY <1>1, <4>1, ChildIn
      <4>3. t.child[y][m] # sentinel => t.parent[t.child[y][m]] = m /\ t.child[y][m] # z
          BY <1>1, <1>3, <4>1, <4>2, ChildOnce
      <4>4. t.child[y][m] # temp \/ temp = sentinel
          BY <1>4, <4>1, <4>3
      <4>5. t.child[y][m] # z
          BY <1>3, <4>2, <4>3
      <4>6. u.child[y][m] = t.child[y][m]
          BY <4>1, <4>5 DEF Cut
      <4> QED BY <1>3, <2>2, <3>6, <4>2, <4>4, <4>6 DEF Below
    <3>8. ASSUME NEW m \in In(u) PROVE Even(u, NULL, b2, m)
      <4>1. m \in In(t) /\ m # z /\ m \in Nodes
          BY <1>3, <1>4
      <4>2. b[m] \in Int /\ b[m] >= 1 /\ Weight(t, NULL, m) \in Int
          BY <1>1, <1>2, <4>1, SidesAre, HeightFacts
      <4>3. \A y \in Sides : /\ b[m] = Weight(t, NULL, m) + Below(t, NULL, b, m, t.child[y][m])
                             /\ Below(t, NULL, b, m, t.child[y][m]) \in Int
          BY <1>1, <1>2, <4>1, HeightFacts
      <4>4. CASE m = temp
        <5>1. b2[m] = b[m] + d /\ Weight(u, NULL, m) = Weight(t, NULL, m) + d
            BY <3>3, <3>6, <4>4
        <5>2. \A y \in Sides : b2[m] = Weight(u, NULL, m) + Below(t, NULL, b, m, t.child[y][m])
            BY <4>2, <4>3, <5>1
        <5> QED BY <3>3, <3>7, <4>2, <5>1, <5>2 DEF Even
      <4>5. CASE m # temp
        <5>1. b2[m] = b[m] /\ Weight(u, NULL, m) = Weight(t, NULL, m)
            BY <3>6, <4>1, <4>5 DEF Weight, Ends
        <5> QED BY <3>7, <4>2, <4>3, <5>1 DEF Even
      <4> QED BY <4>4, <4>5
    <3> QED BY <1>8, <3>6, <3>8 DEF High, Heights
  <2> QED BY <2>1, <2>2
<1>10. Shaped(u)
    BY <1>6 DEF Shaped
<1> QED BY <1>4, <1>7, <1>9, <1>10 DEF Settled

(* Below the root, a red node is cut out without harm, and for a black one *)
(* temp lacks a black node.                                                *)
LEMMA CutBelow ==
    ASSUME NEW t, Settled(t), NEW e \in Sides, NEW z \in In(t), t.child[e][z] = sentinel,
           NEW temp, t.child[Other(e)][z] = temp, NEW u, Cut(t, u, z, temp),
           z # t.root, \A m \in Ends \ {z} : u.color[m] = t.color[m],
           temp = sentinel => u.parent[sentinel] = t.parent[z]
    PROVE  /\ t.color[z] = "red" => Settled(u)
           /\ t.color[z] # "red" => Fixing(u, temp)
<1>1. PICK N, at, pos, lo, hi : IsShape(t, N, at, pos, lo, hi)
    BY DEF Settled, Shaped
<1>2. PICK b : Heights(t, NULL, b)
    BY DEF Settled, High
<1>3. /\ In(t) \subseteq Nodes /\ sentinel \notin Nodes /\ NULL \notin Nodes /\ NULL # sentinel
    BY <1>1, ShapeFacts
<1>4. /\ In(u) = In(t) \ {z} /\ temp \in In(u) \cup {sentinel} /\ temp # z
      /\ (temp # sentinel => t.parent[temp] = z)
    BY <1>1, CutIn
<1>5. u.root = t.root
    BY DEF Cut
<1>6. PICK q : q = pos[z]
    OBVIOUS
<1>7. IsShape(u, N - 1, ClosedAt(at, N, q), ClosedBy(pos, q), ClosedBy(lo, q), ClosedBy(hi, q - 1))
    BY <1>1, <1>6, CutShape
<1>8. Shaped(u)
    BY <1>7 DEF Shaped
<1>9. RedRed(t) = {} /\ t.color[t.root] = "black" /\ IsTree(t) /\ z \in Nodes
    BY <1>1, <1>3 DEF Settled, IsShape
<1>10. RedOnlyAt(u, temp)
  <2>1. temp \in Ends /\ temp # z
      BY <1>3, <1>4 DEF Ends
  <2>2. u.color[temp] = t.color[temp] /\ \A m \in Ends \ {z, temp} : u.color[m] = t.color[m]
      BY <2>1
  <2>3. z # t.root => RedOnlyAt(u, temp)
      BY <1>1, <1>9, <2>2, CutRedRed
  <2> QED BY <2>3
<1>11. t.root \in In(t) /\ t.root \in In(u) /\ u.color[u.root] = "black"
  <2>1. t.root \in In(t)
      BY <1>1, <1>3, <1>9, ShapeFacts
  <2> QED BY <1>3, <1>4, <1>5, <1>9, <2>1 DEF Ends
<1>12. PICK s \in Sides : s = SideOf(t, z)
    BY <1>1, ParentOf
<1>13. PICK up \in In(t) : up = t.parent[z] /\ t.child[s][up] = z
    BY <1>1, <1>12, ParentOf
<1>14. up # z /\ t.child[Other(s)][up] # z /\ up \in Nodes
    BY <1>1, <1>3, <1>9, <1>13, ChildOnce
<1>15. /\ b[z] = Weight(t, NULL, z) + Below(t, NULL, b, z, temp) /\ Weight(t, NULL, z) \in Int
       /\ b[z] = Weight(t, NULL, z) + 1 /\ Below(t, NULL, b, z, temp) \in Int
  <2>1. /\ b[z] = Weight(t, NULL, z) + Below(t, NULL, b, z, t.child[e][z])
        /\ b[z] = Weight(t, NULL, z) + Below(t, NULL, b, z, t.child[Other(e)][z])
        /\ Weight(t, NULL, z) \in Int /\ Below(t, NULL, b, z, t.child[Other(e)][z]) \in Int
      BY <1>1, <1>2, SidesAre, HeightFacts
  <2>2. Below(t, NULL, b, z, t.child[e][z]) = 1
      BY <1>3 DEF Below
  <2> QED BY <2>1, <2>2
<1>16. CASE t.color[z] = "red"
  <2>1. temp = sentinel
    <3>1. SUFFICES ASSUME temp # sentinel PROVE FALSE
        OBVIOUS
    <3>2. temp \in In(t) /\ temp \in Nodes /\ t.child[Other(e)][z] = temp
        BY <1>3, <1>4, <3>1
    <3>3. temp # t.root
        BY <1>1, <1>9, <3>2, SidesAre, ChildOnce
    <3>4. t.color[temp] = "black"
      <4>1. t.color \in [Ends -> {"red", "black"}]
          BY <1>9 DEF IsTree
      <4>2. t.color[temp] # "red"
          BY <1>4, <1>9, <1>16, <3>1, <3>2, <3>3 DEF RedRed
      <4> QED BY <3>2, <4>1, <4>2 DEF Ends
    <3>5. b[temp] = 1
        BY <1>15, <3>1 DEF Below
    <3>6. PICK i \in Int : i = Below(t, NULL, b, temp, t.child[e][temp]) /\ i >= 1
        BY <1>1, <1>2, <3>2, HeightFacts
    <3>7. b[temp] = Weight(t, NULL, temp) + i
        BY <1>1, <1>2, <3>2, <3>6, HeightFacts
    <3>8. Weight(t, NULL, temp) = 1
        BY <1>3, <3>2, <3>4 DEF Weight
    <3> QED BY <3>5, <3>6, <3>7, <3>8
  <2>2. \E b2 : Heights(u, NULL, b2)
    <3>1. PICK x : x = NULL
        OBVIOUS
    <3>2. Missing(t, z, temp, x)
        BY <1>3, <1>16, <2>1, <3>1 DEF Missing, Full
    <3>3. \E b2 : Heights(u, x, b2)
        BY <1>1, <1>2, <3>2, CutHeights
    <3> QED BY <3>1, <3>3
  <2>3. RedRed(u) = {}
      BY <1>3, <1>4, <1>10, <2>1 DEF RedOnlyAt, RedRed
  <2> QED BY <1>8, <1>11, <1>16, <2>2, <2>3 DEF Settled, High
<1>17. CASE t.color[z] # "red"
  <2>1. t.color[z] = "black"
    <3>1. t.color \in [Ends -> {"red", "black"}]
        BY <1>9 DEF IsTree
    <3> QED BY <1>9, <1>17, <3>1 DEF Ends
  <2>2. t.child[Other(s)][up] # sentinel
    <3>1. Weight(t, NULL, z) = 1
        BY <1>3, <1>9, <2>1 DEF Weight
    <3>2. b[z] = 2
        BY <1>15, <3>1
    <3>3. Below(t, NULL, b, up, t.child[s][up]) = 2
        BY <1>3, <1>9, <1>13, <3>2 DEF Below
    <3>4. PICK i \in Int : i = Weight(t, NULL, up)
        BY <1>1, <1>2, <1>13, HeightFacts
    <3>5. b[up] = i + 2
        BY <1>1, <1>2, <1>13, <3>3, <3>4, HeightFacts
    <3>6. PICK j \in Int : j = Below(t, NULL, b, up, t.child[Other(s)][up])
        BY <1>1, <1>2, <1>13, SidesAre, HeightFacts
    <3>7. b[up] = i + j
        BY <1>1, <1>2, <1>13, <3>4, <3>6, SidesAre, HeightFacts
    <3>8. j = 2
        BY <3>5, <3>7
    <3> QED BY <1>3, <3>6, <3>8 DEF Below
  <2>3. \A y \in Sides : t.child[y][t.parent[z]] # sentinel
    <3>1. t.child[s][up] # sentinel
        BY <1>3, <1>9, <1>13
    <3> QED BY <1>13, <2>2, <3>1, SidesAre
  <2>4. \E b2 : Heights(u, temp, b2)
    <3>1. PICK x : x = temp
        OBVIOUS
    <3>2. Missing(t, z, temp, x)
        BY <2>1, <2>3, <3>1 DEF Missing, Full
    <3>3. \E b2 : Heights(u, x, b2)
        BY <1>1, <1>2, <3>2, CutHeights
    <3> QED BY <3>1, <3>3
  <2>5. Alone(u, temp)
    <3>1. ASSUME temp = sentinel PROVE /\ u.parent[sentinel] = up /\ up \in In(u)
                                       /\ u.child[s][up] = sentinel
                                       /\ u.child[Other(s)][up] # sentinel
      <4>1. u.child[s][up] = temp /\ u.child[Other(s)][up] = t.child[Other(s)][up]
          BY <1>13, <1>14, SidesAre DEF Cut
      <4> QED BY <1>4, <1>13, <1>14, <2>2, <3>1, <4>1
    <3> QED BY <3>1 DEF Alone
  <2>6. \A m \in RedRed(u) : temp = m \/ temp = u.parent[m]
      BY <1>10 DEF RedOnlyAt
  <2> QED BY <1>4, <1>5, <1>8, <1>11, <1>17, <2>4, <2>5, <2>6 DEF Fixing, High
<1> QED BY <1>16, <1>17
-----------------------------------------------------------------------------
(* A node z from outside takes the place of n.                             *)

IsChildOf(t, n, m) == t.child["left"][n] = m \/ t.child["right"][n] = m

Renamed(u, v, n, z) ==
    /\ IsTree(v) /\ v.root = IF u.root = n THEN z ELSE u.root
    /\ \A y \in Sides : v.child[y][z] = u.child[y][n] /\ v.child[y][n] = NULL
    /\ \A y \in Sides : \A m \in Nodes \ {n, z} :
         v.child[y][m] = IF u.child[y][m] = n THEN z ELSE u.child[y][m]
    /\ v.parent[z] = u.parent[n] /\ v.parent[n] = NULL
    /\ \A m \in Nodes \ {n, z} : v.parent[m] = IF IsChildOf(u, n, m) THEN z ELSE u.parent[m]
    /\ v.color[z] = u.color[n] /\ \A m \in Ends \ {n, z} : v.color[m] = u.color[m]

LEMMA RenamedIn ==
    ASSUME NEW u, NEW N, NEW at, NEW pos, NEW lo, NEW hi, IsShape(u, N, at, pos, lo, hi),
           NEW n \in In(u), NEW z \in Nodes, z \notin In(u), NEW v, Renamed(u, v, n, z)
    PROVE  /\ In(v) = (In(u) \ {n}) \cup {z} /\ n # z
           /\ \A m \in In(u) \ {n} : \A y \in Sides :
                u.child[y][m] # sentinel =>
                  /\ u.child[y][m] \in In(u) /\ u.child[y][m] # z
                  /\ u.parent[u.child[y][m]] = m
                  /\ u.child[y][m] # n => v.parent[u.child[y][m]] = m
           /\ \A y \in Sides :
                u.child[y][n] # sentinel =>
                  /\ u.child[y][n] \in In(u) \ {n} /\ u.child[y][n] # z
                  /\ v.parent[u.child[y][n]] = z
<1>1. In(u) \subseteq Nodes /\ sentinel \notin Nodes /\ NULL \notin Nodes /\ n # z /\ n \in Nodes
    BY ShapeFacts
<1>2. \A m \in Nodes \ {n, z} : v.parent[m] = IF IsChildOf(u, n, m) THEN z ELSE u.parent[m]
    BY DEF Renamed
<1>3. ASSUME NEW m \in Nodes, IsChildOf(u, n, m)
      PROVE  m \in In(u) /\ m # n /\ m # u.root /\ u.parent[m] = n
    BY <1>1, <1>3, SidesAre, ChildOnce DEF IsChildOf
<1>4. ASSUME NEW m \in In(u) \ {n} PROVE m \in In(v)
  <2>1. m \in Nodes /\ m # z
      BY <1>1
  <2>2. m = u.root => m = v.root
      BY DEF Renamed
  <2>3. u.parent[m] # NULL => v.parent[m] # NULL
      BY <1>1, <1>2, <2>1
  <2> QED BY <2>1, <2>2, <2>3 DEF In
<1>5. z \in In(v)
  <2>1. n = u.root => z = v.root
      BY DEF Renamed
  <2>2. u.parent[n] # NULL => v.parent[z] # NULL
      BY DEF Renamed
  <2> QED BY <2>1, <2>2 DEF In
<1>6. ASSUME NEW m \in In(v), m # z PROVE m \in In(u) \ {n}
  <2>1. m \in Nodes /\ (m = v.root \/ v.parent[m] # NULL)
      BY DEF In
  <2>2. m # n
      BY <1>1, <1>6, <2>1 DEF Renamed
  <2>3. m = v.root => m = u.root
      BY <1>6 DEF Renamed
  <2>4. v.parent[m] = IF IsChildOf(u, n, m) THEN z ELSE u.parent[m]
      BY <1>2, <1>6, <2>1, <2>2
  <2>5. IsChildOf(u, n, m) => m \in In(u)
      BY <1>3, <2>1
  <2> QED BY <2>1, <2>2, <2>3, <2>4, <2>5 DEF In
<1>7. In(v) = (In(u) \ {n}) \cup {z}
    BY <1>4, <1>5, <1>6
<1>8. ASSUME NEW m \in In(u), NEW y \in Sides, u.child[y][m] # sentinel
      PROVE  /\ u.child[y][m] \in In(u) /\ u.child[y][m] # z /\ u.child[y][m] \in Nodes
             /\ u.parent[u.child[y][m]] = m /\ u.child[y][m] # m
  <2>1. u.child[y][m] \in In(u) /\ u.child[y][m] \in Nodes /\ m \in Nodes
      BY <1>1, <1>8, ChildIn
  <2> QED BY <2>1, ChildOnce
<1>9. ASSUME NEW m \in In(u) \ {n}, NEW y \in Sides, u.child[y][m] # sentinel, u.child[y][m] # n
      PROVE  v.parent[u.child[y][m]] = m
  <2>1. PICK c \in Nodes : c = u.child[y][m] /\ c # z /\ c # n /\ u.parent[c] = m
      BY <1>8, <1>9
  <2>2. ~IsChildOf(u, n, c)
      BY <1>3, <2>1
  <2> QED BY <1>2, <2>1, <2>2
<1>10. ASSUME NEW y \in Sides, u.child[y][n] # sentinel
       PROVE  v.parent[u.child[y][n]] = z
  <2>1. PICK c \in Nodes : c = u.child[y][n] /\ c # z /\ c # n
      BY <1>8, <1>10
  <2>2. IsChildOf(u, n, c)
      BY <2>1, SidesAre DEF IsChildOf
  <2> QED BY <1>2, <2>1, <2>2
<1> QED BY <1>1, <1>7, <1>8, <1>9, <1>10

LEMMA RenamedPlaced ==
    ASSUME NEW u, NEW N, NEW at, NEW pos, NEW lo, NEW hi, IsShape(u, N, at, pos, lo, hi),
           NEW n \in In(u), NEW z \in Nodes, z \notin In(u), NEW v, In(v) = (In(u) \ {n}) \cup {z}
    PROVE  Placed(v, N, [at EXCEPT ![pos[n]] = z], [pos EXCEPT ![z] = pos[n]])
<1>1. In(u) \subseteq Nodes /\ n \in Nodes /\ n # z
    BY ShapeFacts
<1>2. /\ N \in Nat /\ at \in [1 .. N -> Nodes] /\ pos \in [Nodes -> Int]
      /\ \A i \in 1 .. N : at[i] \in In(u) /\ pos[at[i]] = i
      /\ \A m \in In(u) : pos[m] \in 1 .. N /\ at[pos[m]] = m
    BY DEF IsShape, Placed
<1>3. PICK at2 : at2 = [at EXCEPT ![pos[n]] = z]
    OBVIOUS
<1>4. PICK pos2 : pos2 = [pos EXCEPT ![z] = pos[n]]
    OBVIOUS
<1>5. /\ at2 \in [1 .. N -> Nodes] /\ at2[pos[n]] = z
      /\ \A i \in 1 .. N : i # pos[n] => at2[i] = at[i]
    BY <1>2, <1>3
<1>6. /\ pos2 \in [Nodes -> Int] /\ pos2[z] = pos[n] /\ \A m \in Nodes \ {z} : pos2[m] = pos[m]
    BY <1>1, <1>2, <1>4
<1>7. ASSUME NEW i \in 1 .. N PROVE at2[i] \in In(v) /\ pos2[at2[i]] = i
  <2>1. CASE i = pos[n]
      BY <1>5, <1>6, <2>1
  <2>2. CASE i # pos[n]
    <3>1. at2[i] = at[i] /\ at[i] \in In(u) /\ pos[at[i]] = i /\ at[i] # n
        BY <1>2, <1>5, <2>2
    <3> QED BY <1>1, <1>6, <3>1
  <2> QED BY <2>1, <2>2
<1>8. ASSUME NEW m \in In(v) PROVE pos2[m] \in 1 .. N /\ at2[pos2[m]] = m
  <2>1. CASE m = z
      BY <1>2, <1>5, <1>6, <2>1
  <2>2. CASE m # z
    <3>1. m \in In(u) /\ m # n /\ pos2[m] = pos[m] /\ pos[m] \in 1 .. N /\ at[pos[m]] = m
        BY <1>1, <1>2, <1>6, <2>2
    <3>2. pos[m] # pos[n]
        BY <1>2, <3>1
    <3> QED BY <1>5, <3>1, <3>2
  <2> QED BY <2>1, <2>2
<1>9. Placed(v, N, at2, pos2)
    BY <1>2, <1>5, <1>6, <1>7, <1>8 DEF Placed
<1> QED BY <1>3, <1>4, <1>9

LEMMA RenamedShape ==
    ASSUME NEW u, NEW N, NEW at, NEW pos, NEW lo, NEW hi, IsShape(u, N, at, pos, lo, hi),
           NEW n \in In(u), NEW z \in Nodes, z \notin In(u), NEW v, Renamed(u, v, n, z)
    PROVE  IsShape(v, N, [at EXCEPT ![pos[n]] = z], [pos EXCEPT ![z] = pos[n]],
                   [lo EXCEPT ![z] = lo[n]], [hi EXCEPT ![z] = hi[n]])
<1>1. In(u) \subseteq Nodes /\ n \in Nodes /\ sentinel \notin Nodes /\ NULL \notin Nodes
    BY ShapeFacts
<1>2. In(v) = (In(u) \ {n}) \cup {z} /\ n # z
    BY RenamedIn
<1>3. \A m \in In(u) \ {n} : \A y \in Sides :
        u.child[y][m] # sentinel =>
          /\ u.child[y][m] \in In(u) /\ u.child[y][m] # z /\ u.parent[u.child[y][m]] = m
          /\ u.child[y][m] # n => v.parent[u.child[y][m]] = m
    BY RenamedIn
<1>4. \A y \in Sides :
        u.child[y][n] # sentinel =>
          /\ u.child[y][n] \in In(u) \ {n} /\ u.child[y][n] # z /\ v.parent[u.child[y][n]] = z
    BY RenamedIn
<1>5. PICK pos2 : pos2 = [pos EXCEPT ![z] = pos[n]]
    OBVIOUS
<1>6. PICK lo2 : lo2 = [lo EXCEPT ![z] = lo[n]]
    OBVIOUS
<1>7. PICK hi2 : hi2 = [hi EXCEPT ![z] = hi[n]]
    OBVIOUS
<1>8. /\ pos \in [Nodes -> Int] /\ lo \in [Nodes -> Int] /\ hi \in [Nodes -> Int]
    BY DEF IsShape, Placed, Spans
<1>9. /\ pos2 \in [Nodes -> Int] /\ lo2 \in [Nodes -> Int] /\ hi2 \in [Nodes -> Int]
      /\ pos2[z] = pos[n] /\ lo2[z] = lo[n] /\ hi2[z] = hi[n]
      /\ \A m \in Nodes \ {z} : pos2[m] = pos[m] /\ lo2[m] = lo[m] /\ hi2[m] = hi[m]
    BY <1>1, <1>5, <1>6, <1>7, <1>8
<1>10. /\ IsTree(v) /\ v.root = IF u.root = n THEN z ELSE u.root
       /\ \A y \in Sides : v.child[y][z] = u.child[y][n] /\ v.child[y][n] = NULL
       /\ \A y \in Sides : \A m \in Nodes \ {n, z} :
            v.child[y][m] = IF u.child[y][m] = n THEN z ELSE u.child[y][m]
       /\ v.parent[z] = u.parent[n]
    BY DEF Renamed
<1>11. /\ u.root \in Nodes => lo[u.root] = 1 /\ hi[u.root] = N
       /\ u.root = sentinel => In(u) = {}
    BY DEF IsShape, Spans
<1>12. /\ v.root \in Nodes => lo2[v.root] = 1 /\ hi2[v.root] = N
       /\ v.root = sentinel => In(v) = {}
  <2>1. u.root # z
      BY DEF In
  <2>2. u.root # sentinel
      BY <1>11
  <2>3. v.root # sentinel
      BY <1>1, <1>10, <2>2
  <2>4. v.root \in Nodes => lo2[v.root] = 1 /\ hi2[v.root] = N
      BY <1>1, <1>9, <1>10, <1>11, <2>1
  <2> QED BY <2>3, <2>4
<1>13. ASSUME NEW m \in In(u)
       PROVE  /\ lo[m] <= pos[m] /\ pos[m] <= hi[m] /\ m \in Nodes
              /\ OnLeft(u, m, u.child["left"][m], pos, lo, hi)
              /\ OnRight(u, m, u.child["right"][m], pos, lo, hi)
    BY <1>1 DEF IsShape, Spans
<1>14. ASSUME NEW m \in In(v)
       PROVE  /\ lo2[m] <= pos2[m] /\ pos2[m] <= hi2[m]
              /\ OnLeft(v, m, v.child["left"][m], pos2, lo2, hi2)
              /\ OnRight(v, m, v.child["right"][m], pos2, lo2, hi2)
  <2>1. CASE m = z
    <3>1. \A y \in Sides : v.child[y][z] = u.child[y][n]
        BY <1>10
    <3>2. \A y \in Sides : u.child[y][n] # sentinel =>
             /\ u.child[y][n] \in In(v) /\ v.parent[u.child[y][n]] = z
             /\ lo2[u.child[y][n]] = lo[u.child[y][n]] /\ hi2[u.child[y][n]] = hi[u.child[y][n]]
        BY <1>1, <1>2, <1>4, <1>9
    <3>3. lo[n] <= pos[n] /\ pos[n] <= hi[n]
        BY <1>13
    <3>4. OnLeft(v, z, u.child["left"][n], pos2, lo2, hi2)
        BY <1>9, <1>13, <3>2, SidesAre DEF OnLeft
    <3>5. OnRight(v, z, u.child["right"][n], pos2, lo2, hi2)
        BY <1>9, <1>13, <3>2, SidesAre DEF OnRight
    <3> QED BY <1>9, <2>1, <3>1, <3>3, <3>4, <3>5, SidesAre
  <2>2. CASE m # z
    <3>1. m \in In(u) /\ m # n /\ m \in Nodes
        BY <1>1, <1>2, <2>2
    <3>2. pos2[m] = pos[m] /\ lo2[m] = lo[m] /\ hi2[m] = hi[m]
        BY <1>9, <2>2, <3>1
    <3>3. ASSUME NEW y \in Sides, u.child[y][m] # sentinel
          PROVE  /\ v.child[y][m] \in In(v) /\ v.parent[v.child[y][m]] = m
                 /\ v.child[y][m] # sentinel
                 /\ lo2[v.child[y][m]] = lo[u.child[y][m]] /\ hi2[v.child[y][m]] = hi[u.child[y][m]]
      <4>1. /\ u.child[y][m] \in In(u) /\ u.child[y][m] # z /\ u.parent[u.child[y][m]] = m
            /\ (u.child[y][m] # n => v.parent[u.child[y][m]] = m)
          BY <1>3, <3>1, <3>3
      <4>2. v.child[y][m] = IF u.child[y][m] = n THEN z ELSE u.child[y][m]
          BY <1>10, <2>2, <3>1
      <4>3. CASE u.child[y][m] = n
          BY <1>1, <1>2, <1>9, <1>10, <4>1, <4>2, <4>3
      <4>4. CASE u.child[y][m] # n
          BY <1>1, <1>2, <1>9, <4>1, <4>2, <4>4
      <4> QED BY <4>3, <4>4
    <3>4. \A y \in Sides : u.child[y][m] = sentinel => v.child[y][m] = sentinel
        BY <1>1, <1>10, <2>2, <3>1
    <3>5. OnLeft(v, m, v.child["left"][m], pos2, lo2, hi2)
        BY <1>13, <3>1, <3>2, <3>3, <3>4, SidesAre DEF OnLeft
    <3>6. OnRight(v, m, v.child["right"][m], pos2, lo2, hi2)
        BY <1>13, <3>1, <3>2, <3>3, <3>4, SidesAre DEF OnRight
    <3> QED BY <1>13, <3>1, <3>2, <3>5, <3>6
  <2> QED BY <2>1, <2>2
<1>15. ASSUME NEW m \in In(v), m # v.root PROVE HangsFrom(v, m, v.parent[m])
  <2>1. PICK k \in In(u) : k = IF m = z THEN n ELSE m
      BY <1>2
  <2>2. k # u.root
      BY <1>2, <1>10, <1>15, <2>1
  <2>3. PICK y \in Sides : y = SideOf(u, k)
      BY <2>2, ParentOf
  <2>4. PICK up \in In(u) : up = u.parent[k] /\ u.child[y][up] = k
      BY <2>2, <2>3, ParentOf
  <2>5. k \in Nodes /\ up \in Nodes /\ k # sentinel
      BY <1>1
  <2>6. CASE up = n
    <3>1. k # n /\ m = k
        BY <2>1, <2>4, <2>5, <2>6, ChildOnce
    <3>2. v.parent[m] = z /\ v.child[y][z] = m
        BY <1>4, <1>10, <2>4, <2>5, <2>6, <3>1
    <3> QED BY <1>2, <3>2, SidesAre DEF HangsFrom
  <2>7. CASE up # n
    <3>1. v.child[y][up] = IF k = n THEN z ELSE k
        BY <1>10, <2>4, <2>5, <2>7
    <3>2. v.child[y][up] = m
        BY <1>2, <2>1, <3>1
    <3>3. v.parent[m] = up
      <4>1. CASE m = z
          BY <1>2, <1>10, <2>1, <2>4, <4>1
      <4>2. CASE m # z
        <5>1. k = m /\ k # n
            BY <1>2, <2>1, <4>2
        <5>2. v.parent[u.child[y][up]] = up
            BY <1>3, <2>4, <2>5, <2>7, <5>1
        <5> QED BY <2>4, <5>1, <5>2
      <4> QED BY <4>1, <4>2
    <3> QED BY <1>2, <2>7, <3>2, <3>3, SidesAre DEF HangsFrom
  <2> QED BY <2>6, <2>7
<1>16. ASSUME NEW m \in Nodes \ In(v) PROVE v.child["left"][m] = NULL /\ v.child["right"][m] = NULL
  <2>1. CASE m = n
      BY <1>10, <2>1, SidesAre
  <2>2. CASE m # n
    <3>1. m # z /\ m \notin In(u)
        BY <1>2, <1>16, <2>2
    <3>2. u.child["left"][m] = NULL /\ u.child["right"][m] = NULL
        BY <1>16, <3>1 DEF IsShape, Spans
    <3> QED BY <1>1, <1>10, <1>16, <2>2, <3>1, <3>2, SidesAre
  <2> QED BY <2>1, <2>2
<1>17. Spans(v, N, pos2, lo2, hi2)
    BY <1>9, <1>12, <1>14, <1>15, <1>16 DEF Spans
<1>18. Placed(v, N, [at EXCEPT ![pos[n]] = z], pos2)
    BY <1>2, <1>5, RenamedPlaced
<1> QED BY <1>5, <1>6, <1>7, <1>10, <1>17, <1>18 DEF IsShape

(* The empty place that lacks a node is still known by its parent.         *)
Follows(u, v, n, z, x) ==
    x = sentinel => /\ u.parent[sentinel] \in In(u)
                    /\ v.parent[sentinel] = IF u.parent[sentinel] = n THEN z ELSE u.parent[sentinel]

LEMMA RenamedHeights ==
    ASSUME NEW u, NEW N, NEW at, NEW pos, NEW lo, NEW hi, IsShape(u, N, at, pos, lo, hi),
           NEW n \in In(u), NEW z \in Nodes, z \notin In(u), NEW v, Renamed(u, v, n, z),
           NEW x, x # n, x # z, Follows(u, v, n, z, x), NEW b, Heights(u, x, b)
    PROVE  Heights(v, x, [b EXCEPT ![z] = b[n]])
<1>1. In(u) \subseteq Nodes /\ n \in Nodes /\ sentinel \notin Nodes /\ NULL \notin Nodes
    BY ShapeFacts
<1>2. In(v) = (In(u) \ {n}) \cup {z} /\ n # z
    BY RenamedIn
<1>3. \A m \in In(u) \ {n} : \A y \in Sides :
        u.child[y][m] # sentinel => u.child[y][m] \in In(u) /\ u.child[y][m] # z
    BY RenamedIn
<1>4. \A y \in Sides : u.child[y][n] # sentinel => u.child[y][n] \in In(u) \ {n} /\ u.child[y][n] # z
    BY RenamedIn
<1>5. PICK b2 : b2 = [b EXCEPT ![z] = b[n]]
    OBVIOUS
<1>6. b \in [Nodes -> Int] /\ u.color[sentinel] = "black"
    BY DEF Heights
<1>7. b2 \in [Nodes -> Int] /\ b2[z] = b[n] /\ \A m \in Nodes \ {z} : b2[m] = b[m]
    BY <1>1, <1>5, <1>6
<1>8. /\ \A y \in Sides : v.child[y][z] = u.child[y][n]
      /\ \A y \in Sides : \A m \in Nodes \ {n, z} :
           v.child[y][m] = IF u.child[y][m] = n THEN z ELSE u.child[y][m]
      /\ v.color[z] = u.color[n] /\ \A m \in Ends \ {n, z} : v.color[m] = u.color[m]
    BY DEF Renamed
<1>9. v.color[sentinel] = "black"
    BY <1>1, <1>6, <1>8 DEF Ends
<1>10. ASSUME NEW m \in In(v) PROVE Even(v, x, b2, m)
  <2>1. PICK k \in In(u) : k = IF m = z THEN n ELSE m
      BY <1>2
  <2>2. k \in Nodes /\ m \in Nodes /\ (m = z <=> k = n) /\ (m # z => m = k)
      BY <1>1, <1>2, <2>1
  <2>3. b[k] \in Int /\ b[k] >= 1 /\ Weight(u, x, k) \in Int
      BY SidesAre, HeightFacts
  <2>4. \A y \in Sides : b[k] = Weight(u, x, k) + Below(u, x, b, k, u.child[y][k])
      BY HeightFacts
  <2>5. b2[m] = b[k]
      BY <1>7, <2>2
  <2>6. Weight(v, x, m) = Weight(u, x, k)
    <3>1. v.color[m] = u.color[k]
        BY <1>8, <2>2 DEF Ends
    <3>2. m = x <=> k = x
        BY <2>2
    <3> QED BY <3>1, <3>2 DEF Weight
  <2>7. ASSUME NEW y \in Sides PROVE Below(v, x, b2, m, v.child[y][m]) = Below(u, x, b, k, u.child[y][k])
    <3>1. v.child[y][m] = IF u.child[y][k] = n THEN z ELSE u.child[y][k]
        BY <1>1, <1>4, <1>8, <2>2
    <3>2. CASE u.child[y][k] = sentinel
      <4>1. v.child[y][m] = sentinel
          BY <1>1, <3>1, <3>2
      <4>2. x = sentinel => (m = v.parent[sentinel] <=> k = u.parent[sentinel])
          BY <1>2, <2>2 DEF Follows
      <4> QED BY <3>2, <4>1, <4>2 DEF Below
    <3>3. CASE u.child[y][k] # sentinel
      <4>1. u.child[y][k] \in Nodes /\ u.child[y][k] # z
          BY <1>1, <1>3, <1>4, <3>3
      <4>2. b2[v.child[y][m]] = b[u.child[y][k]] /\ v.child[y][m] # sentinel
          BY <1>1, <1>7, <3>1, <4>1
      <4> QED BY <3>3, <4>2 DEF Below
    <3> QED BY <3>2, <3>3
  <2> QED BY <2>3, <2>4, <2>5, <2>6, <2>7 DEF Even
<1>11. Heights(v, x, b2)
    BY <1>7, <1>9, <1>10 DEF Heights
<1> QED BY <1>5, <1>11

(* What is red under a red parent was so before.                           *)
LEMMA RenamedRedRed ==
    ASSUME NEW u, NEW N, NEW at, NEW pos, NEW lo, NEW hi, IsShape(u, N, at, pos, lo, hi),
           NEW n \in In(u), NEW z \in Nodes, z \notin In(u), NEW v, Renamed(u, v, n, z),
           NEW m \in RedRed(v), NEW k, k = IF m = z THEN n ELSE m
    PROVE  k \in RedRed(u) /\ v.parent[m] = IF u.parent[k] = n THEN z ELSE u.parent[k]
<1>1. In(u) \subseteq Nodes /\ n \in Nodes /\ sentinel \notin Nodes /\ NULL \notin Nodes
    BY ShapeFacts
<1>2. In(v) = (In(u) \ {n}) \cup {z} /\ n # z
    BY RenamedIn
<1>3. m \in In(v) /\ m # v.root /\ v.color[m] = "red" /\ v.color[v.parent[m]] = "red"
    BY DEF RedRed
<1>4. /\ k \in In(u) /\ k \in Nodes /\ m \in Nodes /\ (m = z => k = n) /\ (m # z => m = k /\ k # n)
    BY <1>1, <1>2, <1>3
<1>5. k # u.root
    BY <1>1, <1>2, <1>3, <1>4 DEF Renamed
<1>6. PICK y \in Sides : y = SideOf(u, k)
    BY <1>4, <1>5, ParentOf
<1>7. PICK up \in In(u) : up = u.parent[k] /\ u.child[y][up] = k
    BY <1>4, <1>5, <1>6, ParentOf
<1>8. up \in Nodes /\ up # z /\ up # k
    BY <1>1, <1>4, <1>7, ChildOnce
<1>9. v.parent[m] = IF up = n THEN z ELSE up
  <2>1. CASE m = z
      BY <1>4, <1>7, <1>8, <2>1 DEF Renamed
  <2>2. CASE m # z
    <3>1. v.parent[m] = IF IsChildOf(u, n, m) THEN z ELSE u.parent[m]
        BY <1>4, <2>2 DEF Renamed
    <3>2. IsChildOf(u, n, m) => up = n
        BY <1>1, <1>4, <1>7, <2>2, SidesAre, ChildOnce DEF IsChildOf
    <3>3. up = n => IsChildOf(u, n, m)
        BY <1>4, <1>7, <2>2, SidesAre DEF IsChildOf
    <3> QED BY <1>4, <1>7, <2>2, <3>1, <3>2, <3>3
  <2> QED BY <2>1, <2>2
<1>10. u.color[k] = "red" /\ u.color[up] = "red"
  <2>1. v.color[m] = u.color[k]
      BY <1>4 DEF Renamed, Ends
  <2>2. v.color[v.parent[m]] = u.color[up]
      BY <1>8, <1>9 DEF Renamed, Ends
  <2> QED BY <1>3, <2>1, <2>2
<1> QED BY <1>4, <1>5, <1>7, <1>9, <1>10 DEF RedRed

LEMMA RenamedSettled ==
    ASSUME NEW u, Settled(u), NEW n \in In(u), NEW z \in Nodes, z \notin In(u),
           NEW v, Renamed(u, v, n, z)
    PROVE  Settled(v)
<1>1. PICK N, at, pos, lo, hi : IsShape(u, N, at, pos, lo, hi)
    BY DEF Settled, Shaped
<1>2. PICK b : Heights(u, NULL, b)
    BY DEF Settled, High
<1>3. In(u) \subseteq Nodes /\ n \in Nodes /\ sentinel \notin Nodes /\ NULL \notin Nodes /\ NULL # sentinel
    BY <1>1, ShapeFacts
<1>4. Shaped(v)
  <2>1. IsShape(v, N, [at EXCEPT ![pos[n]] = z], [pos EXCEPT ![z] = pos[n]],
                [lo EXCEPT ![z] = lo[n]], [hi EXCEPT ![z] = hi[n]])
      BY <1>1, RenamedShape
  <2> QED BY <2>1 DEF Shaped
<1>5. High(v, NULL)
  <2>1. PICK x : x = NULL
      OBVIOUS
  <2>2. x # n /\ x # z /\ Follows(u, v, n, z, x)
      BY <1>3, <2>1 DEF Follows
  <2>3. Heights(u, x, b)
      BY <1>2, <2>1
  <2>4. Heights(v, x, [b EXCEPT ![z] = b[n]])
      BY <1>1, <2>2, <2>3, RenamedHeights
  <2> QED BY <2>1, <2>4 DEF High
<1>6. RedRed(v) = {}
  <2>1. ASSUME NEW m \in RedRed(v) PROVE FALSE
    <3>1. PICK k : k = IF m = z THEN n ELSE m
        OBVIOUS
    <3>2. k \in RedRed(u)
        BY <1>1, <3>1, RenamedRedRed
    <3> QED BY <3>2 DEF Settled
  <2> QED BY <2>1
<1>7. v.color[v.root] = "black"
  <2>1. u.root \in In(u)
      BY <1>1, ShapeFacts
  <2> QED BY <1>3, <2>1 DEF Settled, Renamed, Ends
<1> QED BY <1>4, <1>5, <1>6, <1>7 DEF Settled

LEMMA RenamedFixing ==
    ASSUME NEW u, NEW x, Fixing(u, x), NEW n \in In(u), NEW z \in Nodes, z \notin In(u),
           NEW v, Renamed(u, v, n, z), x # n, Follows(u, v, n, z, x)
    PROVE  Fixing(v, x)
<1>1. PICK N, at, pos, lo, hi : IsShape(u, N, at, pos, lo, hi)
    BY DEF Fixing, Shaped
<1>2. PICK b : Heights(u, x, b)
    BY DEF Fixing, High
<1>3. In(u) \subseteq Nodes /\ n \in Nodes /\ sentinel \notin Nodes /\ NULL \notin Nodes /\ NULL # sentinel
    BY <1>1, ShapeFacts
<1>4. x \in In(u) \cup {sentinel} /\ x # z
    BY <1>3 DEF Fixing
<1>5. In(v) = (In(u) \ {n}) \cup {z} /\ n # z
    BY <1>1, RenamedIn
<1>6. Shaped(v)
  <2>1. IsShape(v, N, [at EXCEPT ![pos[n]] = z], [pos EXCEPT ![z] = pos[n]],
                [lo EXCEPT ![z] = lo[n]], [hi EXCEPT ![z] = hi[n]])
      BY <1>1, RenamedShape
  <2> QED BY <2>1 DEF Shaped
<1>7. High(v, x)
  <2>1. Heights(v, x, [b EXCEPT ![z] = b[n]])
      BY <1>1, <1>2, <1>4, RenamedHeights
  <2> QED BY <2>1 DEF High
<1>8. v.root = IF u.root = n THEN z ELSE u.root
    BY DEF Renamed
<1>9. v.root \in In(v) /\ x \in In(v) \cup {sentinel}
    BY <1>4, <1>5, <1>8 DEF Fixing
<1>10. ASSUME NEW m \in RedRed(v) PROVE x = m \/ x = v.parent[m]
  <2>1. PICK k : k = IF m = z THEN n ELSE m
      OBVIOUS
  <2>2. k \in RedRed(u)
      BY <1>1, <2>1, RenamedRedRed
  <2>3. v.parent[m] = IF u.parent[k] = n THEN z ELSE u.parent[k]
      BY <1>1, <2>1, RenamedRedRed
  <2>4. x = k \/ x = u.parent[k]
      BY <2>2 DEF Fixing
  <2> QED BY <2>1, <2>3, <2>4
<1>11. v.color[v.root] = "red" => x = v.root
  <2>1. v.color[v.root] = u.color[u.root]
      BY <1>3, <1>8 DEF Fixing, Renamed, Ends
  <2> QED BY <1>8, <2>1 DEF Fixing
<1>12. Alone(v, x)
  <2>1. ASSUME x = sentinel
        PROVE  /\ v.parent[x] \in In(v)
               /\ \E s \in Sides : /\ v.child[s][v.parent[x]] = sentinel
                                   /\ v.child[Other(s)][v.parent[x]] # sentinel
    <3>1. PICK up \in In(u) : up = u.parent[x]
        BY <2>1 DEF Follows
    <3>2. v.parent[x] = IF up = n THEN z ELSE up
        BY <2>1, <3>1 DEF Follows
    <3>3. PICK s \in Sides : u.child[s][up] = sentinel /\ u.child[Other(s)][up] # sentinel
        BY <2>1, <3>1 DEF Fixing, Alone
    <3>4. up \in Nodes /\ up # z
        BY <1>3
    <3>5. ASSUME NEW y \in Sides
          PROVE  v.child[y][v.parent[x]] = sentinel <=> u.child[y][up] = sentinel
      <4>1. CASE up = n
          BY <3>2, <4>1 DEF Renamed
      <4>2. CASE up # n
        <5>1. v.child[y][up] = IF u.child[y][up] = n THEN z ELSE u.child[y][up]
            BY <3>4, <4>2 DEF Renamed
        <5> QED BY <1>3, <3>2, <4>2, <5>1
      <4> QED BY <4>1, <4>2
    <3>6. v.parent[x] \in In(v)
        BY <1>5, <3>2
    <3>7. Other(s) \in Sides
        BY SidesAre
    <3> QED BY <3>3, <3>5, <3>6, <3>7
  <2> QED BY <2>1 DEF Alone
<1> QED BY <1>6, <1>7, <1>9, <1>10, <1>11, <1>12 DEF Fixing
-----------------------------------------------------------------------------
(* rbtree_delete, as a node that is cut out and one that is renamed.       *)

(* z out of the tree, and temp in its place under its parent.              *)
Unlinked(t, z, temp) ==
    Cleared([t EXCEPT !.child[SideOf(t, z)][t.parent[z]] = temp, !.parent[temp] = t.parent[z]], z)

LEMMA ClearedFields ==
    ASSUME NEW t, IsTree(t), NEW n \in Nodes
    PROVE  /\ IsTree(Cleared(t, n)) /\ Cleared(t, n).root = t.root
           /\ \A y \in Sides : \A m \in Nodes :
                Cleared(t, n).child[y][m] = IF m = n THEN NULL ELSE t.child[y][m]
           /\ \A m \in Ends : Cleared(t, n).parent[m] = IF m = n THEN NULL ELSE t.parent[m]
           /\ \A m \in Ends : Cleared(t, n).color[m] = IF m = n THEN "black" ELSE t.color[m]
<1>1. PICK u : u = Cleared(t, n)
    OBVIOUS
<1>2. n \in Ends
    BY DEF Ends
<1>3. u = [root |-> t.root, child |-> [y \in Sides |-> [t.child[y] EXCEPT ![n] = NULL]],
           parent |-> [t.parent EXCEPT ![n] = NULL], color |-> [t.color EXCEPT ![n] = "black"]]
    BY <1>1 DEF Cleared, IsTree
<1>4. /\ t.root \in Ends /\ t.child \in [Sides -> [Nodes -> Ends \cup {NULL}]]
      /\ t.parent \in [Ends -> Nodes \cup {NULL}] /\ t.color \in [Ends -> {"red", "black"}]
    BY DEF IsTree
<1>5. /\ u.root = t.root /\ u.child = [y \in Sides |-> [t.child[y] EXCEPT ![n] = NULL]]
      /\ u.parent = [t.parent EXCEPT ![n] = NULL] /\ u.color = [t.color EXCEPT ![n] = "black"]
    BY <1>3
<1>6. ASSUME NEW y \in Sides
      PROVE  /\ u.child[y] \in [Nodes -> Ends \cup {NULL}]
             /\ \A m \in Nodes : u.child[y][m] = IF m = n THEN NULL ELSE t.child[y][m]
    BY <1>4, <1>5
<1>7. u.child \in [Sides -> [Nodes -> Ends \cup {NULL}]]
    BY <1>5, <1>6
<1>8. /\ u.parent \in [Ends -> Nodes \cup {NULL}]
      /\ \A m \in Ends : u.parent[m] = IF m = n THEN NULL ELSE t.parent[m]
    BY <1>2, <1>4, <1>5
<1>9. /\ u.color \in [Ends -> {"red", "black"}]
      /\ \A m \in Ends : u.color[m] = IF m = n THEN "black" ELSE t.color[m]
    BY <1>2, <1>4, <1>5
<1>10. IsTree(u)
    BY <1>3, <1>4, <1>5, <1>7, <1>8, <1>9 DEF IsTree
<1> QED BY <1>1, <1>5, <1>6, <1>8, <1>9, <1>10

(* The two assignments that let the parent and temp know each other.       *)
Linking(t, k, y0, up, temp, to) ==
    /\ IsTree(k) /\ k.root = t.root /\ k.color = t.color
    /\ \A y \in Sides : \A m \in Nodes :
         k.child[y][m] = IF y = y0 /\ m = up THEN temp ELSE t.child[y][m]
    /\ \A m \in Ends : k.parent[m] = IF m = temp THEN to ELSE t.parent[m]

LEMMA LinkingIs ==
    ASSUME NEW t, IsTree(t), NEW y0 \in Sides, NEW up \in Nodes, NEW temp \in Ends, NEW to \in Nodes
    PROVE  Linking(t, [t EXCEPT !.child[y0][up] = temp, !.parent[temp] = to], y0, up, temp, to)
<1>1. PICK k : k = [t EXCEPT !.child[y0][up] = temp, !.parent[temp] = to]
    OBVIOUS
<1>2. /\ t.root \in Ends /\ t.child \in [Sides -> [Nodes -> Ends \cup {NULL}]]
      /\ t.parent \in [Ends -> Nodes \cup {NULL}] /\ t.color \in [Ends -> {"red", "black"}]
    BY DEF IsTree
<1>3. k = [root |-> t.root, child |-> [t.child EXCEPT ![y0][up] = temp],
           parent |-> [t.parent EXCEPT ![temp] = to], color |-> t.color]
    BY <1>1 DEF IsTree
<1>4. /\ k.root = t.root /\ k.child = [t.child EXCEPT ![y0][up] = temp]
      /\ k.parent = [t.parent EXCEPT ![temp] = to] /\ k.color = t.color
    BY <1>3
<1>5. /\ k.child \in [Sides -> [Nodes -> Ends \cup {NULL}]]
      /\ \A y \in Sides : \A m \in Nodes :
           k.child[y][m] = IF y = y0 /\ m = up THEN temp ELSE t.child[y][m]
    BY <1>2, <1>4
<1>6. /\ k.parent \in [Ends -> Nodes \cup {NULL}]
      /\ \A m \in Ends : k.parent[m] = IF m = temp THEN to ELSE t.parent[m]
    BY <1>2, <1>4
<1>7. IsTree(k)
    BY <1>2, <1>3, <1>4, <1>5, <1>6 DEF IsTree
<1> QED BY <1>1, <1>4, <1>5, <1>6, <1>7 DEF Linking

LEMMA UnlinkedCut ==
    ASSUME NEW t, Shaped(t), NEW z \in In(t), z # t.root,
           NEW e \in Sides, t.child[e][z] = sentinel, NEW temp, t.child[Other(e)][z] = temp,
           NEW u, u = Unlinked(t, z, temp)
    PROVE  /\ Cut(t, u, z, temp) /\ u.parent[temp] = t.parent[z]
           /\ \A m \in Ends \ {z} : u.color[m] = t.color[m]
           /\ \A m \in Nodes \ {z, temp} : u.parent[m] = t.parent[m]
<1>1. PICK N, at, pos, lo, hi : IsShape(t, N, at, pos, lo, hi)
    BY DEF Shaped
<1>2. /\ In(t) \subseteq Nodes /\ sentinel \notin Nodes /\ NULL \notin Nodes
    BY <1>1, ShapeFacts
<1>3. IsTree(t)
    BY <1>1 DEF IsShape
<1>4. PICK s \in Sides : s = SideOf(t, z)
    BY <1>1, ParentOf
<1>5. PICK up \in In(t) : up = t.parent[z] /\ t.child[s][up] = z
    BY <1>1, <1>4, ParentOf
<1>6. up \in Nodes /\ up # z
    BY <1>1, <1>2, <1>5, ChildOnce
<1>7. temp \in Ends /\ temp # z
  <2>1. temp \in In(t) \cup {sentinel}
      BY <1>1, SidesAre, ChildIn
  <2>2. temp \in Nodes => temp # z
      BY <1>1, <1>2, SidesAre, ChildOnce
  <2> QED BY <1>2, <2>1, <2>2 DEF Ends
<1>8. PICK k : /\ k = [t EXCEPT !.child[s][up] = temp, !.parent[temp] = up]
               /\ Linking(t, k, s, up, temp, up)
    BY <1>3, <1>6, <1>7, LinkingIs
<1>9. Linking(t, k, s, up, temp, up)
    BY <1>8
<1>10. u = Cleared(k, z)
    BY <1>4, <1>5, <1>8 DEF Unlinked
<1>11. IsTree(k) /\ z \in Nodes
    BY <1>2, <1>9 DEF Linking
<1>12. /\ IsTree(u) /\ u.root = k.root
       /\ \A y \in Sides : \A m \in Nodes : u.child[y][m] = IF m = z THEN NULL ELSE k.child[y][m]
       /\ \A m \in Ends : u.parent[m] = IF m = z THEN NULL ELSE k.parent[m]
       /\ \A m \in Ends : u.color[m] = IF m = z THEN "black" ELSE k.color[m]
    BY <1>10, <1>11, ClearedFields
<1>13. ASSUME NEW y \in Sides, NEW m \in Nodes \ {z}
       PROVE  u.child[y][m] = IF t.child[y][m] = z THEN temp ELSE t.child[y][m]
  <2>1. u.child[y][m] = IF y = s /\ m = up THEN temp ELSE t.child[y][m]
      BY <1>9, <1>12 DEF Linking
  <2>2. t.child[y][m] = z <=> y = s /\ m = up
    <3>1. ASSUME t.child[y][m] = z PROVE m = up /\ t.child[Other(y)][m] # z
        BY <1>1, <1>5, <1>11, <3>1, ChildOnce
    <3>2. y = s \/ s = Other(y)
        BY SidesAre
    <3> QED BY <1>5, <3>1, <3>2
  <2> QED BY <2>1, <2>2
<1>14. /\ u.parent[temp] = t.parent[z]
       /\ \A m \in Nodes \ {z, temp} : u.parent[m] = t.parent[m]
       /\ \A m \in Ends \ {z} : u.color[m] = t.color[m]
    BY <1>5, <1>7, <1>9, <1>12 DEF Linking, Ends
<1> QED BY <1>9, <1>11, <1>12, <1>13, <1>14, SidesAre DEF Cut, Linking, Ends

LEMMA ReplaceFields ==
    ASSUME NEW k, IsTree(k), NEW n \in Nodes, NEW z \in Nodes,
           NEW y0 \in Sides, y0 = SideOf(k, n), NEW pn, pn = k.parent[n],
           n # k.root => pn \in Nodes
    PROVE  LET w == Replace(k, n, z) IN
           /\ IsTree(w) /\ w.root = IF n = k.root THEN z ELSE k.root
           /\ \A y \in Sides : \A m \in Nodes :
                w.child[y][m] = IF n # k.root /\ y = y0 /\ m = pn THEN z
                                ELSE IF m = z THEN k.child[y][n] ELSE k.child[y][m]
           /\ \A m \in Ends :
                w.parent[m] = IF m = z THEN k.parent[n]
                              ELSE IF m # sentinel /\ IsChildOf(k, n, m) THEN z ELSE k.parent[m]
           /\ \A m \in Ends : w.color[m] = IF m = z THEN k.color[n] ELSE k.color[m]
<1>1. PICK w : w = Replace(k, n, z)
    OBVIOUS
<1>2. /\ k.root \in Ends /\ k.child \in [Sides -> [Nodes -> Ends \cup {NULL}]]
      /\ k.parent \in [Ends -> Nodes \cup {NULL}] /\ k.color \in [Ends -> {"red", "black"}]
    BY DEF IsTree
<1>3. PICK taken : taken = [s \in Sides |-> [k.child[s] EXCEPT ![z] = k.child[s][n]]]
    OBVIOUS
<1>4. PICK kids : kids = {k.child[s][n] : s \in Sides} \ {sentinel}
    OBVIOUS
<1>5. w = [root |-> IF n = k.root THEN z ELSE k.root,
           child |-> IF n = k.root THEN taken ELSE [taken EXCEPT ![y0][pn] = z],
           parent |-> [m \in DOMAIN k.parent |->
                         IF m = z THEN k.parent[n] ELSE IF m \in kids THEN z ELSE k.parent[m]],
           color |-> [k.color EXCEPT ![z] = k.color[n]]]
    BY <1>1, <1>3, <1>4 DEF Replace
<1>6. /\ w.root = (IF n = k.root THEN z ELSE k.root)
      /\ w.child = (IF n = k.root THEN taken ELSE [taken EXCEPT ![y0][pn] = z])
      /\ w.parent = [m \in Ends |->
                       IF m = z THEN k.parent[n] ELSE IF m \in kids THEN z ELSE k.parent[m]]
      /\ w.color = [k.color EXCEPT ![z] = k.color[n]]
    BY <1>2, <1>5
<1>7. n \in Ends /\ z \in Ends
    BY DEF Ends
<1>8. /\ taken \in [Sides -> [Nodes -> Ends \cup {NULL}]]
      /\ \A y \in Sides : \A m \in Nodes :
           taken[y][m] = IF m = z THEN k.child[y][n] ELSE k.child[y][m]
    BY <1>2, <1>3
<1>9. /\ w.child \in [Sides -> [Nodes -> Ends \cup {NULL}]]
      /\ \A y \in Sides : \A m \in Nodes :
           w.child[y][m] = IF n # k.root /\ y = y0 /\ m = pn THEN z ELSE taken[y][m]
  <2>1. CASE n = k.root
      BY <1>6, <1>8, <2>1
  <2>2. CASE n # k.root
    <3>1. w.child = [taken EXCEPT ![y0][pn] = z] /\ pn \in Nodes
        BY <1>6, <2>2
    <3> QED BY <1>7, <1>8, <2>2, <3>1
  <2> QED BY <2>1, <2>2
<1>10. \A m \in Ends : m \in kids <=> m # sentinel /\ IsChildOf(k, n, m)
    BY <1>4, SidesAre DEF IsChildOf
<1>11. w.parent \in [Ends -> Nodes \cup {NULL}]
    BY <1>2, <1>6, <1>7
<1>12. \A m \in Ends :
          w.parent[m] = IF m = z THEN k.parent[n]
                        ELSE IF m # sentinel /\ IsChildOf(k, n, m) THEN z ELSE k.parent[m]
    BY <1>6, <1>10
<1>13. /\ w.color \in [Ends -> {"red", "black"}]
       /\ \A m \in Ends : w.color[m] = IF m = z THEN k.color[n] ELSE k.color[m]
    BY <1>2, <1>6, <1>7
<1>14. w.root \in Ends
    BY <1>2, <1>6, <1>7
<1>15. IsTree(w)
    BY <1>5, <1>6, <1>9, <1>11, <1>13, <1>14 DEF IsTree
<1> QED BY <1>1, <1>6, <1>8, <1>9, <1>12, <1>13, <1>15

(* What rbtree_delete makes of a tree t in which z is to take the place of *)
(* n; the parent of temp is z when z hung from n.                          *)
Replaced(t, n, z, temp) ==
    Cleared(Replace([t EXCEPT !.child[SideOf(t, z)][t.parent[z]] = temp,
                              !.parent[temp] = IF t.parent[z] = n THEN z ELSE t.parent[z]], n, z), n)

LEMMA ReplacedRenamed ==
    ASSUME NEW t, Shaped(t), NEW z \in In(t), z # t.root,
           NEW e \in Sides, t.child[e][z] = sentinel, NEW temp, t.child[Other(e)][z] = temp,
           NEW n \in In(t), n # z, n # temp,
           NEW u, Unlinked(t, z, temp) = u, NEW v, Replaced(t, n, z, temp) = v
    PROVE  Renamed(u, v, n, z) /\ Follows(u, v, n, z, temp) /\ z \notin In(u) /\ n \in In(u)
<1>1. PICK N, at, pos, lo, hi : IsShape(t, N, at, pos, lo, hi)
    BY DEF Shaped
<1>2. /\ In(t) \subseteq Nodes /\ sentinel \notin Nodes /\ NULL \notin Nodes
    BY <1>1, ShapeFacts
<1>3. IsTree(t) /\ n \in Nodes /\ z \in Nodes /\ n \in Ends /\ z \in Ends
    BY <1>1, <1>2 DEF IsShape, Ends
<1>4. PICK s \in Sides : s = SideOf(t, z)
    BY <1>1, ParentOf
<1>5. PICK up \in In(t) : up = t.parent[z] /\ t.child[s][up] = z
    BY <1>1, <1>4, ParentOf
<1>6. up \in Nodes /\ up # z
    BY <1>1, <1>2, <1>5, ChildOnce
<1>7. /\ Cut(t, u, z, temp) /\ u.parent[temp] = t.parent[z]
      /\ \A m \in Ends \ {z} : u.color[m] = t.color[m]
      /\ \A m \in Nodes \ {z, temp} : u.parent[m] = t.parent[m]
    BY UnlinkedCut
<1>8. In(u) = In(t) \ {z} /\ temp \in In(u) \cup {sentinel} /\ temp # z
    BY <1>1, <1>7, CutIn
<1>9. temp \in Ends
    BY <1>2, <1>8 DEF Ends
<1>10. PICK q : q = pos[z]
    OBVIOUS
<1>11. IsShape(u, N - 1, ClosedAt(at, N, q), ClosedBy(pos, q), ClosedBy(lo, q), ClosedBy(hi, q - 1))
    BY <1>1, <1>7, <1>10, CutShape
<1>12. PICK to \in Nodes : to = IF up = n THEN z ELSE up
    BY <1>3, <1>6
<1>13. PICK k : /\ k = [t EXCEPT !.child[s][up] = temp, !.parent[temp] = to]
                /\ Linking(t, k, s, up, temp, to)
    BY <1>3, <1>6, <1>9, LinkingIs
<1>14. Cleared(Replace(k, n, z), n) = v
    BY <1>4, <1>5, <1>12, <1>13 DEF Replaced
<1>15. /\ IsTree(k) /\ k.root = u.root /\ k.root = t.root /\ u.root = t.root
       /\ \A m \in Ends \ {z} : k.color[m] = u.color[m]
    BY <1>7, <1>13 DEF Linking, Cut
<1>16. \A y \in Sides : \A m \in Nodes \ {z} : k.child[y][m] = u.child[y][m]
  <2> SUFFICES ASSUME NEW y \in Sides, NEW m \in Nodes \ {z} PROVE k.child[y][m] = u.child[y][m]
      OBVIOUS
  <2>1. u.child[y][m] = IF t.child[y][m] = z THEN temp ELSE t.child[y][m]
      BY <1>7 DEF Cut
  <2>2. k.child[y][m] = IF y = s /\ m = up THEN temp ELSE t.child[y][m]
      BY <1>13 DEF Linking
  <2>3. t.child[y][m] = z <=> y = s /\ m = up
    <3>1. ASSUME t.child[y][m] = z PROVE m = up /\ t.child[Other(y)][m] # z
        BY <1>1, <1>3, <1>5, <3>1, ChildOnce
    <3>2. y = s \/ s = Other(y)
        BY SidesAre
    <3> QED BY <1>5, <3>1, <3>2
  <2> QED BY <2>1, <2>2, <2>3
<1>17. \A m \in Nodes \ {z, temp} : k.parent[m] = u.parent[m]
    BY <1>7, <1>13 DEF Linking, Ends
<1>18. k.parent[temp] = to /\ u.parent[temp] = up
    BY <1>5, <1>7, <1>9, <1>13 DEF Linking
<1>19. n \in In(u) /\ z \notin In(u)
    BY <1>8
<1>20. PICK pn : pn = k.parent[n]
    OBVIOUS
<1>21. pn = u.parent[n]
    BY <1>3, <1>17, <1>20
<1>22. PICK y0 \in Sides : y0 = SideOf(k, n)
    BY SidesAre DEF SideOf
<1>23. ASSUME n # u.root
       PROVE  /\ pn \in In(u) /\ pn \in Nodes /\ pn # z /\ pn # n /\ u.child[y0][pn] = n
  <2>1. u.parent[n] \in In(u) /\ u.parent[n] \in Nodes /\ u.child[SideOf(u, n)][u.parent[n]] = n
      BY <1>11, <1>19, <1>23, ParentOf
  <2>2. pn # z
      BY <1>19, <1>21, <2>1
  <2>3. \A y \in Sides : k.child[y][pn] = u.child[y][pn]
      BY <1>16, <1>21, <2>1, <2>2
  <2>4. SideOf(u, n) = y0
    <3>1. k.child["left"][k.parent[n]] = u.child["left"][u.parent[n]]
        BY <1>20, <1>21, <2>3, SidesAre
    <3> QED BY <1>22, <3>1 DEF SideOf
  <2>5. pn # n
      BY <1>3, <1>11, <1>21, <1>22, <2>1, <2>4, ChildOnce
  <2> QED BY <1>21, <2>1, <2>2, <2>4, <2>5
<1>24. PICK w : w = Replace(k, n, z)
    OBVIOUS
<1>25. /\ IsTree(w) /\ w.root = (IF n = u.root THEN z ELSE u.root)
       /\ \A y \in Sides : \A m \in Nodes :
            w.child[y][m] = IF n # k.root /\ y = y0 /\ m = pn THEN z
                            ELSE IF m = z THEN k.child[y][n] ELSE k.child[y][m]
       /\ \A m \in Ends :
            w.parent[m] = IF m = z THEN k.parent[n]
                          ELSE IF m # sentinel /\ IsChildOf(k, n, m) THEN z ELSE k.parent[m]
       /\ \A m \in Ends : w.color[m] = IF m = z THEN k.color[n] ELSE k.color[m]
  <2>1. n # k.root => pn \in Nodes
      BY <1>15, <1>23
  <2>2. LET ww == Replace(k, n, z) IN
           /\ IsTree(ww) /\ ww.root = IF n = k.root THEN z ELSE k.root
           /\ \A y \in Sides : \A m \in Nodes :
                ww.child[y][m] = IF n # k.root /\ y = y0 /\ m = pn THEN z
                                ELSE IF m = z THEN k.child[y][n] ELSE k.child[y][m]
           /\ \A m \in Ends :
                ww.parent[m] = IF m = z THEN k.parent[n]
                              ELSE IF m # sentinel /\ IsChildOf(k, n, m) THEN z ELSE k.parent[m]
           /\ \A m \in Ends : ww.color[m] = IF m = z THEN k.color[n] ELSE k.color[m]
      BY <1>3, <1>15, <1>20, <1>22, <2>1, ReplaceFields
  <2> QED BY <1>15, <1>24, <2>2
<1>26. /\ IsTree(v) /\ v.root = w.root
       /\ \A y \in Sides : \A m \in Nodes : v.child[y][m] = IF m = n THEN NULL ELSE w.child[y][m]
       /\ \A m \in Ends : v.parent[m] = IF m = n THEN NULL ELSE w.parent[m]
       /\ \A m \in Ends : v.color[m] = IF m = n THEN "black" ELSE w.color[m]
  <2>1. /\ IsTree(Cleared(w, n)) /\ Cleared(w, n).root = w.root
        /\ \A y \in Sides : \A m \in Nodes :
             Cleared(w, n).child[y][m] = IF m = n THEN NULL ELSE w.child[y][m]
        /\ \A m \in Ends : Cleared(w, n).parent[m] = IF m = n THEN NULL ELSE w.parent[m]
        /\ \A m \in Ends : Cleared(w, n).color[m] = IF m = n THEN "black" ELSE w.color[m]
    <3>1. IsTree(w)
        BY <1>25
    <3> QED BY <1>3, <3>1, ClearedFields, SMTT(30)
  <2>2. Cleared(w, n) = v
      BY <1>14, <1>24
  <2> QED BY <2>1, <2>2
<1>27. ASSUME NEW y \in Sides PROVE v.child[y][z] = u.child[y][n] /\ v.child[y][n] = NULL
    BY <1>3, <1>15, <1>16, <1>23, <1>25, <1>26
<1>28. ASSUME NEW y \in Sides, NEW m \in Nodes \ {n, z}
       PROVE  v.child[y][m] = IF u.child[y][m] = n THEN z ELSE u.child[y][m]
  <2>1. v.child[y][m] = IF n # u.root /\ y = y0 /\ m = pn THEN z ELSE u.child[y][m]
      BY <1>15, <1>16, <1>25, <1>26
  <2>2. ASSUME u.child[y][m] = n PROVE n # u.root /\ y = y0 /\ m = pn
    <3>1. u.parent[n] = m /\ n # u.root /\ u.child[Other(y)][m] # n
        BY <1>3, <1>11, <2>2, ChildOnce
    <3>2. y = y0 \/ y0 = Other(y)
        BY SidesAre
    <3> QED BY <1>21, <1>23, <3>1, <3>2
  <2> QED BY <1>23, <2>1, <2>2
<1>29. ASSUME NEW m \in Nodes PROVE IsChildOf(k, n, m) <=> IsChildOf(u, n, m)
    BY <1>3, <1>16, SidesAre DEF IsChildOf
<1>30. up = n => u.child[s][n] = temp
    BY <1>3, <1>5, <1>7 DEF Cut
<1>31. ASSUME NEW m \in Nodes \ {n, z}
       PROVE  v.parent[m] = IF IsChildOf(u, n, m) THEN z ELSE u.parent[m]
  <2>1. v.parent[m] = IF IsChildOf(u, n, m) THEN z ELSE k.parent[m]
      BY <1>2, <1>25, <1>26, <1>29 DEF Ends
  <2>2. CASE m = temp
    <3>1. up = n => IsChildOf(u, n, m)
        BY <1>30, <2>2, SidesAre DEF IsChildOf
    <3> QED BY <1>12, <1>18, <2>1, <2>2, <3>1
  <2>3. CASE m # temp
      BY <1>17, <2>1, <2>3
  <2> QED BY <2>2, <2>3
<1>32. v.parent[z] = u.parent[n] /\ v.parent[n] = NULL
    BY <1>3, <1>20, <1>21, <1>25, <1>26
<1>33. v.color[z] = u.color[n] /\ \A m \in Ends \ {n, z} : v.color[m] = u.color[m]
    BY <1>3, <1>15, <1>25, <1>26
<1>34. v.root = (IF u.root = n THEN z ELSE u.root)
    BY <1>25, <1>26
<1>35. Renamed(u, v, n, z)
    BY <1>26, <1>27, <1>28, <1>31, <1>32, <1>33, <1>34 DEF Renamed
<1>36. Follows(u, v, n, z, temp)
  <2>1. ASSUME temp = sentinel PROVE v.parent[sentinel] = IF up = n THEN z ELSE up
    <3>1. v.parent[sentinel] = k.parent[sentinel]
        BY <1>2, <1>3, <1>25, <1>26 DEF Ends
    <3> QED BY <1>12, <1>18, <2>1, <3>1
  <2>2. up \in In(u)
      BY <1>6, <1>8
  <2> QED BY <1>18, <2>1, <2>2 DEF Follows
<1> QED BY <1>19, <1>35, <1>36

LEMMA LeastOf ==
    ASSUME NEW T \in SUBSET Nat, T # {}
    PROVE  \E n \in T : \A m \in T : n <= m
<1>1. OpToRel(<, Nat) = {p \in Nat \X Nat : p[1] < p[2]}
    BY Zenon DEF OpToRel
<1>2. \E n \in T : \A m \in T : <<m, n>> \notin OpToRel(<, Nat)
    BY WFMin, NatLessThanWellFounded, Zenon
<1>3. PICK n \in T : \A m \in T : <<m, n>> \notin {p \in Nat \X Nat : p[1] < p[2]}
    BY <1>1, <1>2
<1>4. \A m \in T : ~ (m < n)
    BY <1>3
<1> QED BY <1>4

(* rbtree_min finds the node with the first place in the span of n.        *)
LEMMA MinIs ==
    ASSUME NEW t, NEW N, NEW at, NEW pos, NEW lo, NEW hi, IsShape(t, N, at, pos, lo, hi),
           NEW n \in In(t)
    PROVE  /\ rbtree_min(t, n) \in In(t) /\ pos[rbtree_min(t, n)] = lo[n]
           /\ t.child["left"][rbtree_min(t, n)] = sentinel
<1>1. /\ In(t) \subseteq Nodes /\ sentinel \notin Nodes /\ NULL \notin Nodes /\ NULL # sentinel
    BY ShapeFacts
<1>2. PICK D : D = {k \in Nodes : t.child["left"][k] # NULL}
    OBVIOUS
<1>3. D = In(t)
  <2>1. \A m \in Nodes \ In(t) : t.child["left"][m] = NULL
      BY DEF IsShape, Spans
  <2>2. \A m \in In(t) : t.child["left"][m] \in In(t) \cup {sentinel}
      BY SidesAre, ChildIn
  <2> QED BY <1>1, <1>2, <2>1, <2>2
<1>4. ASSUME NEW m \in In(t)
      PROVE  LET c == t.child["left"][m] IN
             /\ lo[m] \in Int /\ hi[m] \in Int /\ pos[m] \in Int /\ at[pos[m]] = m
             /\ lo[m] <= pos[m] /\ pos[m] <= hi[m]
             /\ c \in In(t) \cup {sentinel}
             /\ c = sentinel => lo[m] = pos[m]
             /\ c # sentinel => lo[c] = lo[m] /\ hi[c] = pos[m] - 1 /\ c \in In(t)
    BY <1>1 DEF IsShape, Spans, Placed, OnLeft
<1>5. PICK f : f = [m \in D |-> IF t.child["left"][m] = sentinel THEN m ELSE f[t.child["left"][m]]]
               /\ rbtree_min(t, n) = f[n]
  <2>1. PICK g : g = [m \in D |-> at[lo[m]]]
      OBVIOUS
  <2>2. \A m \in D : g[m] = IF t.child["left"][m] = sentinel THEN m ELSE g[t.child["left"][m]]
      BY <1>3, <1>4, <2>1
  <2>3. g = [m \in D |-> IF t.child["left"][m] = sentinel THEN m ELSE g[t.child["left"][m]]]
      BY <2>1, <2>2
  <2>4. PICK f : f = CHOOSE h : h = [m \in D |-> IF t.child["left"][m] = sentinel THEN m
                                                ELSE h[t.child["left"][m]]]
      OBVIOUS
  <2>5. f = [m \in D |-> IF t.child["left"][m] = sentinel THEN m ELSE f[t.child["left"][m]]]
      BY <2>3, <2>4, Zenon
  <2>6. rbtree_min(t, n) = f[n]
      BY <1>2, <2>4, Zenon DEF rbtree_min
  <2> QED BY <2>5, <2>6
<1>6. PICK Wrong : Wrong = {m \in In(t) : ~ (/\ f[m] \in In(t) /\ pos[f[m]] = lo[m]
                                            /\ t.child["left"][f[m]] = sentinel)}
    OBVIOUS
<1>7. Wrong = {}
  <2>1. SUFFICES ASSUME Wrong # {} PROVE FALSE
      OBVIOUS
  <2>2. PICK T : T = {hi[m] - lo[m] : m \in Wrong}
      OBVIOUS
  <2>3. T \in SUBSET Nat /\ T # {}
      BY <1>4, <1>6, <2>1, <2>2
  <2>4. PICK d \in T : \A i \in T : d <= i
      BY <2>3, LeastOf
  <2>5. PICK m \in Wrong : d = hi[m] - lo[m]
      BY <2>2
  <2>6. m \in In(t) /\ m \in D
      BY <1>3, <1>6
  <2>7. f[m] = IF t.child["left"][m] = sentinel THEN m ELSE f[t.child["left"][m]]
      BY <1>5, <2>6
  <2>8. CASE t.child["left"][m] = sentinel
      BY <1>4, <1>6, <2>6, <2>7, <2>8
  <2>9. CASE t.child["left"][m] # sentinel
    <3>1. PICK c \in In(t) : c = t.child["left"][m] /\ lo[c] = lo[m] /\ hi[c] = pos[m] - 1
        BY <1>4, <2>6, <2>9
    <3>2. c \notin Wrong
      <4>1. SUFFICES ASSUME c \in Wrong PROVE FALSE
          OBVIOUS
      <4>2. hi[c] - lo[c] \in T
          BY <2>2, <4>1
      <4>3. hi[c] - lo[c] < hi[m] - lo[m]
          BY <1>4, <2>6, <3>1
      <4> QED BY <1>4, <2>3, <2>4, <2>5, <2>6, <4>2, <4>3
    <3>3. f[c] \in In(t) /\ pos[f[c]] = lo[c] /\ t.child["left"][f[c]] = sentinel
        BY <1>6, <3>2
    <3> QED BY <1>6, <2>7, <2>9, <3>1, <3>3
  <2> QED BY <2>8, <2>9
<1>8. f[n] \in In(t) /\ pos[f[n]] = lo[n] /\ t.child["left"][f[n]] = sentinel
    BY <1>6, <1>7
<1> QED BY <1>5, <1>8

(* The node after n, when n has two children: it is below n, so it is      *)
(* neither the root nor n, and n is not below it.                          *)
LEMMA Successor ==
    ASSUME NEW t, Shaped(t), NEW n \in In(t),
           t.child["left"][n] # sentinel, t.child["right"][n] # sentinel,
           NEW z, z = rbtree_min(t, t.child["right"][n])
    PROVE  /\ z \in In(t) /\ z # n /\ z # t.root
           /\ t.child["left"][z] = sentinel /\ t.child["right"][z] # n
<1>1. PICK N, at, pos, lo, hi : IsShape(t, N, at, pos, lo, hi)
    BY DEF Shaped
<1>2. /\ In(t) \subseteq Nodes /\ sentinel \notin Nodes
      /\ \A m \in In(t) : pos[m] \in Int /\ lo[m] \in Int /\ hi[m] \in Int /\ 1 <= pos[m]
    BY <1>1, ShapeFacts
<1>3. PICK r \in In(t) : r = t.child["right"][n] /\ lo[r] = pos[n] + 1
    BY <1>1 DEF IsShape, Spans, OnRight
<1>4. z \in In(t) /\ pos[z] = lo[r] /\ t.child["left"][z] = sentinel
    BY <1>1, <1>3, MinIs
<1>5. z # n
    BY <1>2, <1>3, <1>4
<1>6. lo[z] = pos[z]
    BY <1>1, <1>4 DEF IsShape, Spans, OnLeft
<1>7. z # t.root
  <2>1. t.root = z => lo[z] = 1
      BY <1>1, <1>2, <1>4 DEF IsShape, Spans
  <2> QED BY <1>2, <1>3, <1>4, <1>6, <2>1
<1>8. t.child["right"][z] # n
  <2>1. SUFFICES ASSUME t.child["right"][z] = n PROVE FALSE
      OBVIOUS
  <2>2. n # sentinel
      BY <1>2
  <2>3. lo[n] = pos[z] + 1
      BY <1>1, <1>4, <2>1, <2>2 DEF IsShape, Spans, OnRight
  <2>4. lo[n] <= pos[n]
      BY <1>1 DEF IsShape, Spans
  <2> QED BY <1>2, <1>3, <1>4, <2>3, <2>4
<1> QED BY <1>4, <1>5, <1>7, <1>8

LEMMA RootCut ==
    ASSUME NEW t, Shaped(t), NEW z \in In(t), z = t.root,
           NEW e \in Sides, t.child[e][z] = sentinel, NEW temp, t.child[Other(e)][z] = temp,
           NEW u, u = Cleared(Black([t EXCEPT !.root = temp], temp), z)
    PROVE  /\ Cut(t, u, z, temp) /\ u.color[temp] = "black"
           /\ \A m \in Ends \ {z, temp} : u.color[m] = t.color[m]
<1>1. PICK N, at, pos, lo, hi : IsShape(t, N, at, pos, lo, hi)
    BY DEF Shaped
<1>2. /\ In(t) \subseteq Nodes /\ sentinel \notin Nodes /\ NULL \notin Nodes
    BY <1>1, ShapeFacts
<1>3. IsTree(t) /\ z \in Nodes /\ z \in Ends
    BY <1>1, <1>2 DEF IsShape, Ends
<1>4. temp \in Ends /\ temp # z
  <2>1. temp \in In(t) \cup {sentinel}
      BY <1>1, SidesAre, ChildIn
  <2>2. temp \in Nodes => temp # z
      BY <1>1, <1>3, SidesAre, ChildOnce
  <2> QED BY <1>2, <2>1, <2>2 DEF Ends
<1>5. PICK k : /\ k = Black([t EXCEPT !.root = temp], temp) /\ IsTree(k)
               /\ k.root = temp /\ k.child = t.child /\ k.parent = t.parent
               /\ k.color = [t.color EXCEPT ![temp] = "black"]
  <2>1. PICK k0 : k0 = [t EXCEPT !.root = temp]
      OBVIOUS
  <2>2. k0 = [root |-> temp, child |-> t.child, parent |-> t.parent, color |-> t.color]
      BY <1>3, <2>1 DEF IsTree
  <2>3. /\ IsTree(k0) /\ k0.root = temp /\ k0.child = t.child /\ k0.parent = t.parent
        /\ k0.color = t.color
      BY <1>3, <1>4, <2>2 DEF IsTree
  <2>4. IsTree(k0)
      BY <2>3
  <2>5. /\ IsTree(Black(k0, temp)) /\ Black(k0, temp).root = k0.root
        /\ Black(k0, temp).child = k0.child /\ Black(k0, temp).parent = k0.parent
        /\ Black(k0, temp).color = [k0.color EXCEPT ![temp] = "black"]
      BY <1>4, <2>4, ColorFields, ZenonT(40)
  <2> QED BY <2>1, <2>3, <2>5
<1>6. u = Cleared(k, z)
    BY <1>5
<1>7. IsTree(k)
    BY <1>5
<1>8. /\ IsTree(u) /\ u.root = k.root
      /\ \A y \in Sides : \A m \in Nodes : u.child[y][m] = IF m = z THEN NULL ELSE k.child[y][m]
      /\ \A m \in Ends : u.parent[m] = IF m = z THEN NULL ELSE k.parent[m]
      /\ \A m \in Ends : u.color[m] = IF m = z THEN "black" ELSE k.color[m]
    BY <1>3, <1>6, <1>7, ClearedFields, SMTT(30)
<1>9. ASSUME NEW y \in Sides, NEW m \in Nodes PROVE t.child[y][m] # z
    BY <1>1, <1>3, ChildOnce
<1>10. t.color \in [Ends -> {"red", "black"}]
    BY <1>3 DEF IsTree
<1>11. u.color[temp] = "black" /\ \A m \in Ends \ {z, temp} : u.color[m] = t.color[m]
    BY <1>4, <1>5, <1>8, <1>10
<1> QED BY <1>3, <1>5, <1>8, <1>9, <1>11 DEF Cut, Ends

(* The parent of temp is written twice when the node itself is cut out.    *)
Link(t, y0, up, temp, to) == [t EXCEPT !.child[y0][up] = temp, !.parent[temp] = to]
Named(t, temp, up) == [t EXCEPT !.parent[temp] = up]

LEMMA LinkIs ==
    ASSUME NEW t, IsTree(t), NEW y0 \in Sides, NEW up \in Nodes, NEW temp \in Ends, NEW to
    PROVE  Link(t, y0, up, temp, to) =
             [root |-> t.root, child |-> [t.child EXCEPT ![y0][up] = temp],
              parent |-> [t.parent EXCEPT ![temp] = to], color |-> t.color]
<1>1. PICK k : k = Link(t, y0, up, temp, to)
    OBVIOUS
<1>2. k = [root |-> t.root, child |-> [t.child EXCEPT ![y0][up] = temp],
           parent |-> [t.parent EXCEPT ![temp] = to], color |-> t.color]
    BY <1>1 DEF IsTree, Link
<1> QED BY <1>1, <1>2

LEMMA TwiceIs ==
    ASSUME NEW t, IsTree(t), NEW y0 \in Sides, NEW up \in Nodes, NEW temp \in Ends, NEW to
    PROVE  Named(Link(t, y0, up, temp, to), temp, up) = Link(t, y0, up, temp, up)
<1>1. t.parent \in [Ends -> Nodes \cup {NULL}]
    BY DEF IsTree
<1>2. PICK p : p = [t.parent EXCEPT ![temp] = to]
    OBVIOUS
<1>3. PICK c : c = [t.child EXCEPT ![y0][up] = temp]
    OBVIOUS
<1>4. PICK k : k = Link(t, y0, up, temp, to)
    OBVIOUS
<1>5. k = [root |-> t.root, child |-> c, parent |-> p, color |-> t.color]
    BY <1>2, <1>3, <1>4, LinkIs
<1>6. Named(k, temp, up) =
        [root |-> t.root, child |-> c, parent |-> [p EXCEPT ![temp] = up], color |-> t.color]
    BY <1>5 DEF Named
<1>7. Link(t, y0, up, temp, up) =
        [root |-> t.root, child |-> c, parent |-> [t.parent EXCEPT ![temp] = up], color |-> t.color]
    BY <1>3, LinkIs
<1>8. [p EXCEPT ![temp] = up] = [t.parent EXCEPT ![temp] = up]
    BY <1>1, <1>2
<1> QED BY <1>4, <1>6, <1>7, <1>8

(* The order of u is that of t without n.                                  *)
Loses(t, u, n) ==
    \A N, at : Ordered(t, N, at) =>
        \E q \in 1 .. N : at[q] = n /\ Ordered(u, N - 1, ClosedAt(at, N, q))

LEMMA CutLoses ==
    ASSUME NEW t, NEW e \in Sides, NEW z \in In(t), t.child[e][z] = sentinel,
           NEW temp, t.child[Other(e)][z] = temp, NEW u, Cut(t, u, z, temp)
    PROVE  Loses(t, u, z)
<1>1. SUFFICES ASSUME NEW N, NEW at, Ordered(t, N, at)
               PROVE  \E q \in 1 .. N : at[q] = z /\ Ordered(u, N - 1, ClosedAt(at, N, q))
    BY DEF Loses
<1>2. PICK pos, lo, hi : IsShape(t, N, at, pos, lo, hi)
    BY <1>1 DEF Ordered
<1>3. PICK q : q = pos[z]
    OBVIOUS
<1>4. q \in 1 .. N /\ at[q] = z
    BY <1>2, <1>3 DEF IsShape, Placed
<1>5. IsShape(u, N - 1, ClosedAt(at, N, q), ClosedBy(pos, q), ClosedBy(lo, q), ClosedBy(hi, q - 1))
    BY <1>2, <1>3, CutShape
<1>6. Ordered(u, N - 1, ClosedAt(at, N, q))
    BY <1>5 DEF Ordered
<1> QED BY <1>4, <1>6

(* The node after n is cut out and takes the place of n.                   *)
LEMMA RenamedLoses ==
    ASSUME NEW t, NEW n \in In(t), t.child["right"][n] # sentinel,
           NEW z, z = rbtree_min(t, t.child["right"][n]),
           NEW temp, t.child["right"][z] = temp, NEW u, Cut(t, u, z, temp),
           n \in In(u), z \notin In(u), NEW v, Renamed(u, v, n, z)
    PROVE  Loses(t, v, n)
<1>1. SUFFICES ASSUME NEW N, NEW at, Ordered(t, N, at)
               PROVE  \E q \in 1 .. N : at[q] = n /\ Ordered(v, N - 1, ClosedAt(at, N, q))
    BY DEF Loses
<1>2. PICK pos, lo, hi : IsShape(t, N, at, pos, lo, hi)
    BY <1>1 DEF Ordered
<1>3. PICK c : c = t.child["right"][n]
    OBVIOUS
<1>4. /\ c \in In(t) /\ lo[c] = pos[n] + 1 /\ pos \in [Nodes -> Int] /\ N \in Nat
      /\ pos[n] \in 1 .. N /\ at[pos[n]] = n /\ n \in Nodes
    BY <1>2, <1>3 DEF IsShape, Spans, OnRight, Placed, In
<1>5. PICK q : q = pos[z]
    OBVIOUS
<1>6. z \in In(t) /\ q = pos[n] + 1 /\ t.child["left"][z] = sentinel
    BY <1>2, <1>3, <1>4, <1>5, MinIs
<1>7. q \in 1 .. N /\ at[q] = z /\ z \in Nodes
    BY <1>2, <1>5, <1>6 DEF IsShape, Placed, In
<1>8. PICK k : k = ClosedAt(at, N, q)
    OBVIOUS
<1>9. IsShape(u, N - 1, k, ClosedBy(pos, q), ClosedBy(lo, q), ClosedBy(hi, q - 1))
  <2>1. PICK e \in Sides : t.child[e][z] = sentinel /\ t.child[Other(e)][z] = temp
      BY <1>6, SidesAre
  <2> QED BY <1>2, <1>5, <1>6, <1>8, <2>1, CutShape
<1>10. ClosedBy(pos, q)[n] = pos[n]
    BY <1>4, <1>6 DEF ClosedBy, Closed
<1>11. Ordered(v, N - 1, [k EXCEPT ![pos[n]] = z])
  <2>1. PICK pos2 : pos2 = ClosedBy(pos, q)
      OBVIOUS
  <2>2. PICK lo2, hi2 : IsShape(u, N - 1, k, pos2, lo2, hi2)
      BY <1>9, <2>1
  <2>3. IsShape(v, N - 1, [k EXCEPT ![pos2[n]] = z], [pos2 EXCEPT ![z] = pos2[n]],
                [lo2 EXCEPT ![z] = lo2[n]], [hi2 EXCEPT ![z] = hi2[n]])
      BY <1>7, <2>2, RenamedShape
  <2>4. pos2[n] = pos[n]
      BY <1>10, <2>1
  <2> QED BY <2>3, <2>4 DEF Ordered
<1>12. [k EXCEPT ![pos[n]] = z] = ClosedAt(at, N, pos[n])
  <2>1. PICK p \in 1 .. N : p = pos[n]
      BY <1>4
  <2>2. PICK f : f = ClosedAt(at, N, p)
      OBVIOUS
  <2>3. p \in Int /\ q = p + 1 /\ q <= N /\ N \in Nat
      BY <1>4, <1>6, <1>7, <2>1
  <2>4. k = [i \in 1 .. N - 1 |-> IF i < q THEN at[i] ELSE at[i + 1]]
      BY <1>8 DEF ClosedAt
  <2>5. f = [i \in 1 .. N - 1 |-> IF i < p THEN at[i] ELSE at[i + 1]]
      BY <2>2 DEF ClosedAt
  <2>6. ASSUME NEW i \in 1 .. N - 1 PROVE (IF i = p THEN z ELSE k[i]) = f[i]
    <3>1. k[i] = IF i < q THEN at[i] ELSE at[i + 1]
        BY <2>4
    <3>2. f[i] = IF i < p THEN at[i] ELSE at[i + 1]
        BY <2>5
    <3>3. i = p => at[i + 1] = z
        BY <1>7, <2>3
    <3>4. i \in Int /\ p \in Int
        BY <2>3
    <3>5. CASE i < p
        BY <2>3, <3>1, <3>2, <3>4, <3>5
    <3>6. CASE i = p
        BY <2>3, <3>2, <3>3, <3>4, <3>6
    <3>7. CASE i > p
        BY <2>3, <3>1, <3>2, <3>4, <3>7
    <3> QED BY <3>4, <3>5, <3>6, <3>7
  <2>7. [k EXCEPT ![p] = z] = [i \in 1 .. N - 1 |-> IF i = p THEN z ELSE k[i]]
      BY <2>4
  <2>8. [k EXCEPT ![p] = z] = f
      BY <2>5, <2>6, <2>7
  <2> QED BY <2>1, <2>2, <2>8
<1> QED BY <1>4, <1>11, <1>12

(* What a deletion leaves: the other nodes in their order, as a settled    *)
(* tree or as one for the fixup.                                           *)
DeletedNode(n) ==
    /\ Loses(tree, tree', n)
    /\ \/ Settled(tree') /\ (call' = call \/ call' = Idle)
       \/ /\ Fixing(tree', call'.temp)
          /\ \E temp \in Ends : call' = [Idle EXCEPT !.pc = "fixup", !.temp = temp]

LEMMA DeleteSelf ==
    ASSUME Settled(tree), NEW n \in In(tree), NEW e \in Sides, tree.child[e][n] = sentinel,
           NEW temp, tree.child[Other(e)][n] = temp
    PROVE  /\ (/\ n = tree.root
               /\ tree' = Cleared(Black([tree EXCEPT !.root = temp], temp), n)
               /\ UNCHANGED call) => DeletedNode(n)
           /\ (/\ n # tree.root
               /\ LET up == tree.parent[n]
                      cut == [tree EXCEPT !.child[SideOf(tree, n)][up] = temp,
                                          !.parent[temp] = IF up = n THEN n ELSE up]
                  IN  Fixup(Cleared([cut EXCEPT !.parent[temp] = up], n), IsRed(tree, n), temp))
              => DeletedNode(n)
<1>1. Shaped(tree)
    BY DEF Settled
<1>2. PICK N, at, pos, lo, hi : IsShape(tree, N, at, pos, lo, hi)
    BY <1>1 DEF Shaped
<1>3. IsTree(tree) /\ In(tree) \subseteq Nodes /\ sentinel \notin Nodes /\ NULL # sentinel
    BY <1>2, ShapeFacts DEF IsShape
<1>4. temp \in Ends
  <2>1. temp \in In(tree) \cup {sentinel}
      BY <1>2, SidesAre, ChildIn
  <2> QED BY <1>3, <2>1 DEF Ends
<1>5. ASSUME n = tree.root, tree' = Cleared(Black([tree EXCEPT !.root = temp], temp), n),
             UNCHANGED call
      PROVE  DeletedNode(n)
  <2>1. PICK u : u = Cleared(Black([tree EXCEPT !.root = temp], temp), n)
      OBVIOUS
  <2>2. /\ Cut(tree, u, n, temp) /\ u.color[temp] = "black"
        /\ \A m \in Ends \ {n, temp} : u.color[m] = tree.color[m]
      BY <1>1, <1>5, <2>1, RootCut
  <2>3. Settled(u) /\ Loses(tree, u, n)
      BY <1>5, <2>2, CutRoot, CutLoses
  <2> QED BY <1>5, <2>1, <2>3 DEF DeletedNode
<1>6. ASSUME n # tree.root, NEW up, up = tree.parent[n],
             NEW cut, cut = [tree EXCEPT !.child[SideOf(tree, n)][up] = temp,
                                         !.parent[temp] = IF up = n THEN n ELSE up],
             Fixup(Cleared([cut EXCEPT !.parent[temp] = up], n), IsRed(tree, n), temp)
      PROVE  DeletedNode(n)
  <2>1. SideOf(tree, n) \in Sides /\ up \in Nodes
      BY <1>2, <1>6, ParentOf
  <2>2. PICK u : u = Unlinked(tree, n, temp)
      OBVIOUS
  <2>3. u = Cleared([cut EXCEPT !.parent[temp] = up], n)
    <3>1. PICK y0 \in Sides : y0 = SideOf(tree, n)
        BY <2>1
    <3>2. PICK to : to = IF up = n THEN n ELSE up
        OBVIOUS
    <3>3. cut = Link(tree, y0, up, temp, to)
        BY <1>6, <3>1, <3>2 DEF Link
    <3>4. [cut EXCEPT !.parent[temp] = up] = Named(Link(tree, y0, up, temp, to), temp, up)
        BY <3>3 DEF Named
    <3>5. Named(Link(tree, y0, up, temp, to), temp, up) = Link(tree, y0, up, temp, up)
        BY <1>3, <1>4, <2>1, TwiceIs
    <3>6. u = Cleared(Link(tree, y0, up, temp, up), n)
        BY <1>6, <2>2, <3>1 DEF Unlinked, Link
    <3> QED BY <3>4, <3>5, <3>6
  <2>4. /\ Cut(tree, u, n, temp) /\ u.parent[temp] = tree.parent[n]
        /\ \A m \in Ends \ {n} : u.color[m] = tree.color[m]
      BY <1>1, <1>6, <2>2, UnlinkedCut
  <2>5. /\ tree.color[n] = "red" => Settled(u)
        /\ tree.color[n] # "red" => Fixing(u, temp)
        /\ Loses(tree, u, n)
      BY <1>6, <2>4, CutBelow, CutLoses
  <2>6. /\ tree' = u
        /\ call' = IF tree.color[n] = "red" THEN Idle ELSE [Idle EXCEPT !.pc = "fixup", !.temp = temp]
      BY <1>6, <2>3 DEF Fixup, IsRed
  <2>7. [Idle EXCEPT !.pc = "fixup", !.temp = temp].temp = temp
      BY DEF Idle
  <2> QED BY <1>4, <2>5, <2>6, <2>7 DEF DeletedNode
<1> QED BY <1>5, <1>6

LEMMA DeleteOther ==
    ASSUME Settled(tree), NEW n \in In(tree),
           tree.child["left"][n] # sentinel, tree.child["right"][n] # sentinel,
           NEW z, z = rbtree_min(tree, tree.child["right"][n]),
           NEW temp, tree.child["right"][z] = temp
    PROVE  /\ z # tree.root /\ z # n
           /\ (LET up == tree.parent[z]
                   cut == [tree EXCEPT !.child[SideOf(tree, z)][up] = temp,
                                       !.parent[temp] = IF up = n THEN z ELSE up]
               IN  Fixup(Cleared(Replace(cut, n, z), n), IsRed(tree, z), temp)) => DeletedNode(n)
<1>1. Shaped(tree)
    BY DEF Settled
<1>2. /\ z \in In(tree) /\ z # n /\ z # tree.root
      /\ tree.child["left"][z] = sentinel /\ tree.child["right"][z] # n
    BY <1>1, Successor
<1>3. PICK N, at, pos, lo, hi : IsShape(tree, N, at, pos, lo, hi)
    BY <1>1 DEF Shaped
<1>4. IsTree(tree) /\ In(tree) \subseteq Nodes /\ sentinel \notin Nodes
    BY <1>3, ShapeFacts DEF IsShape
<1>5. PICK e \in Sides : tree.child[e][z] = sentinel /\ tree.child[Other(e)][z] = temp
    BY <1>2, SidesAre
<1>6. PICK u : Unlinked(tree, z, temp) = u
    OBVIOUS
<1>7. /\ Cut(tree, u, z, temp) /\ u.parent[temp] = tree.parent[z]
      /\ \A m \in Ends \ {z} : u.color[m] = tree.color[m]
    BY <1>1, <1>2, <1>5, <1>6, UnlinkedCut
<1>8. /\ tree.color[z] = "red" => Settled(u)
      /\ tree.color[z] # "red" => Fixing(u, temp)
    BY <1>2, <1>5, <1>7, CutBelow
<1>9. PICK v : Replaced(tree, n, z, temp) = v
    OBVIOUS
<1>10. Renamed(u, v, n, z) /\ Follows(u, v, n, z, temp) /\ z \notin In(u) /\ n \in In(u)
  <2>1. n # z /\ n # temp /\ z # tree.root /\ z \in In(tree)
      BY <1>2
  <2> QED BY <1>1, <1>5, <1>6, <1>9, <2>1, ReplacedRenamed
<1>11. /\ tree.color[z] = "red" => Settled(v)
       /\ tree.color[z] # "red" => Fixing(v, temp)
  <2>1. z \in Nodes /\ temp # n
      BY <1>2, <1>4
  <2> QED BY <1>8, <1>10, <2>1, RenamedSettled, RenamedFixing
<1>12. temp \in Ends /\ Loses(tree, v, n)
  <2>1. temp \in In(tree) \cup {sentinel}
      BY <1>2, <1>3, SidesAre, ChildIn
  <2>2. z \in Nodes
      BY <1>2, <1>4
  <2>3. Loses(tree, v, n)
      BY <1>7, <1>10, <2>2, RenamedLoses
  <2> QED BY <1>4, <2>1, <2>3 DEF Ends
<1>13. ASSUME Fixup(v, IsRed(tree, z), temp) PROVE DeletedNode(n)
  <2>1. /\ tree' = v
        /\ call' = IF tree.color[z] = "red" THEN Idle ELSE [Idle EXCEPT !.pc = "fixup", !.temp = temp]
      BY <1>13 DEF Fixup, IsRed
  <2>2. [Idle EXCEPT !.pc = "fixup", !.temp = temp].temp = temp
      BY DEF Idle
  <2> QED BY <1>11, <1>12, <2>1, <2>2 DEF DeletedNode
<1> QED BY <1>2, <1>9, <1>13 DEF Replaced

LEMMA Deletes ==
    ASSUME Settled(tree), NEW n \in Nodes, rbtree_delete(n)
    PROVE  DeletedNode(n)
<1>1. n \in In(tree)
    BY DEF rbtree_delete, InTree, In
<1>2. PICK left : left = tree.child["left"][n]
    OBVIOUS
<1>3. PICK right : right = tree.child["right"][n]
    OBVIOUS
<1>4. PICK subst : subst = IF sentinel \in {left, right} THEN n ELSE rbtree_min(tree, right)
    OBVIOUS
<1>5. PICK temp : temp = IF left = sentinel THEN right
                         ELSE IF right = sentinel THEN left
                         ELSE tree.child["right"][subst]
    OBVIOUS
<1>6. PICK up : up = tree.parent[subst]
    OBVIOUS
<1>7. PICK cut : cut = [tree EXCEPT !.child[SideOf(tree, subst)][up] = temp,
                                    !.parent[temp] = IF up = n THEN subst ELSE up]
    OBVIOUS
<1>8. IF subst = tree.root
        THEN /\ tree' = Cleared(Black([tree EXCEPT !.root = temp], temp), n)
             /\ UNCHANGED call
        ELSE Fixup(Cleared(IF subst = n THEN [cut EXCEPT !.parent[temp] = up]
                           ELSE Replace(cut, n, subst), n), IsRed(tree, subst), temp)
    BY <1>2, <1>3, <1>4, <1>5, <1>6, <1>7 DEF rbtree_delete
<1>9. CASE sentinel \in {left, right}
  <2>1. subst = n
      BY <1>4, <1>9
  <2>2. PICK e \in Sides : tree.child[e][n] = sentinel /\ tree.child[Other(e)][n] = temp
      BY <1>2, <1>3, <1>5, <1>9, SidesAre
  <2>3. CASE n = tree.root
      BY <1>1, <1>8, <2>1, <2>2, <2>3, DeleteSelf
  <2>4. CASE n # tree.root
    <3>1. Fixup(Cleared([cut EXCEPT !.parent[temp] = up], n), IsRed(tree, n), temp)
        BY <1>8, <2>1, <2>4
    <3>2. up = tree.parent[n]
          /\ cut = [tree EXCEPT !.child[SideOf(tree, n)][up] = temp,
                                !.parent[temp] = IF up = n THEN n ELSE up]
        BY <1>6, <1>7, <2>1
    <3> QED BY <1>1, <2>2, <2>4, <3>1, <3>2, DeleteSelf
  <2> QED BY <2>3, <2>4
<1>10. CASE sentinel \notin {left, right}
  <2>1. subst = rbtree_min(tree, tree.child["right"][n]) /\ temp = tree.child["right"][subst]
      BY <1>3, <1>4, <1>5, <1>10
  <2>2. tree.child["left"][n] # sentinel /\ tree.child["right"][n] # sentinel
      BY <1>2, <1>3, <1>10
  <2>3. subst # tree.root /\ subst # n
      BY <1>1, <2>1, <2>2, DeleteOther
  <2>4. Fixup(Cleared(Replace(cut, n, subst), n), IsRed(tree, subst), temp)
      BY <1>8, <2>3
  <2> QED BY <1>1, <1>6, <1>7, <2>1, <2>2, <2>4, DeleteOther
<1> QED BY <1>9, <1>10
-----------------------------------------------------------------------------
(* The inductive invariant: the tree is settled between calls and while an *)
(* insertion descends, and after that the one fault is where the call is.  *)

CallOK == call \in [pc : {"idle", "descend", "balance", "fixup"},
                    node : Nodes \cup {NULL}, temp : Nodes \cup {sentinel, NULL}]

TreeInv ==
    /\ CallOK
    /\ call.pc \in {"idle", "descend"} => Settled(tree)
    /\ call.pc = "descend" => call.node \in Nodes \ In(tree) /\ call.temp \in In(tree)
    /\ call.pc = "balance" => Balancing(tree, call.node)
    /\ call.pc = "fixup" => Fixing(tree, call.temp)

LEMMA InitSettled == TreeInit => TreeInv
<1> SUFFICES ASSUME TreeInit PROVE TreeInv
    OBVIOUS
<1>1. tree = [root |-> sentinel,
              child |-> [s \in Sides |-> [n \in Nodes |-> NULL]],
              parent |-> [n \in Ends |-> NULL], color |-> [n \in Ends |-> "black"]]
    BY DEF TreeInit, Ends
<1>2. /\ tree.root = sentinel /\ tree.child = [s \in Sides |-> [n \in Nodes |-> NULL]]
      /\ tree.parent = [n \in Ends |-> NULL] /\ tree.color = [n \in Ends |-> "black"]
    BY <1>1
<1>3. sentinel \notin Nodes /\ NULL \notin Nodes /\ NULL # sentinel
    BY TreeNames
<1>4. IsTree(tree)
  <2>1. tree.child \in [Sides -> [Nodes -> Ends \cup {NULL}]]
      BY <1>2
  <2>2. tree.parent \in [Ends -> Nodes \cup {NULL}] /\ tree.color \in [Ends -> {"red", "black"}]
      BY <1>2
  <2>3. tree.root \in Ends
      BY <1>2 DEF Ends
  <2> QED BY <1>1, <1>2, <2>1, <2>2, <2>3 DEF IsTree
<1>5. In(tree) = {}
    BY <1>2, <1>3 DEF In, Ends
<1>6. Shaped(tree)
  <2>1. PICK at : at = [i \in 1 .. 0 |-> i]
      OBVIOUS
  <2>2. PICK z : z = [m \in Nodes |-> 0]
      OBVIOUS
  <2>3. Placed(tree, 0, at, z)
      BY <1>5, <2>1, <2>2 DEF Placed
  <2>4. Spans(tree, 0, z, z, z)
    <3>1. \A m \in Nodes : tree.child["left"][m] = NULL /\ tree.child["right"][m] = NULL
        BY <1>2, SidesAre
    <3> QED BY <1>2, <1>3, <1>5, <2>2, <3>1 DEF Spans
  <2> QED BY <1>4, <2>3, <2>4 DEF Shaped, IsShape
<1>7. High(tree, NULL)
  <2>1. PICK b : b = [m \in Nodes |-> 0]
      OBVIOUS
  <2>2. tree.color[sentinel] = "black"
      BY <1>2 DEF Ends
  <2>3. Heights(tree, NULL, b)
      BY <1>5, <2>1, <2>2 DEF Heights
  <2> QED BY <2>3 DEF High
<1>8. Settled(tree)
  <2>1. tree.color[tree.root] = "black"
      BY <1>2 DEF Ends
  <2> QED BY <1>5, <1>6, <1>7, <2>1 DEF Settled, RedRed
<1>9. call = Idle
    BY DEF TreeInit
<1> QED BY <1>8, <1>9 DEF TreeInv, CallOK, Idle

LEMMA SettledFacts ==
    ASSUME NEW t, Settled(t)
    PROVE  /\ IsTree(t) /\ In(t) \subseteq Nodes /\ t.root \in In(t) \cup {sentinel}
           /\ \A s \in Sides : \A m \in In(t) : t.child[s][m] \in In(t) \cup {sentinel}
<1>1. PICK N, at, pos, lo, hi : IsShape(t, N, at, pos, lo, hi)
    BY DEF Settled, Shaped
<1> QED BY <1>1, ShapeFacts, ChildIn DEF IsShape

LEMMA InsertKeeps ==
    ASSUME TreeInv, NEW n \in Nodes, rbtree_insert(n) PROVE TreeInv'
<1>1. call = Idle /\ n \notin In(tree)
    BY DEF rbtree_insert, InTree, In
<1>2. Settled(tree)
    BY <1>1 DEF TreeInv, Idle
<1>3. CASE tree.root = sentinel
  <2>1. PICK u : u = [Hang(tree, n, NULL, "black") EXCEPT !.root = n]
      OBVIOUS
  <2>2. tree' = u /\ call' = call
      BY <1>3, <2>1 DEF rbtree_insert
  <2>3. Settled(u)
      BY <1>2, <1>3, <2>1, FirstSettled
  <2> QED BY <1>1, <2>2, <2>3 DEF TreeInv, CallOK, Idle
<1>4. CASE tree.root # sentinel
  <2>1. call' = [pc |-> "descend", node |-> n, temp |-> tree.root] /\ tree' = tree
      BY <1>4 DEF rbtree_insert
  <2>2. tree.root \in In(tree) /\ tree.root \in Nodes
      BY <1>2, <1>4, SettledFacts
  <2>3. CallOK'
      BY <2>1, <2>2 DEF CallOK
  <2>4. In(tree)' = In(tree) /\ Settled(tree)'
      BY <1>2, <2>1
  <2> QED BY <1>1, <2>1, <2>2, <2>3, <2>4 DEF TreeInv
<1> QED BY <1>3, <1>4

LEMMA DescendKeeps ==
    ASSUME TreeInv, rbtree_insert_value PROVE TreeInv'
<1>1. /\ CallOK /\ call.pc = "descend" /\ Settled(tree)
      /\ call.node \in Nodes \ In(tree) /\ call.temp \in In(tree)
    BY DEF TreeInv, rbtree_insert_value
<1>2. PICK s \in Sides : s = IF Less(call.node, call.temp) THEN "left" ELSE "right"
    BY SidesAre
<1>3. PICK next : tree.child[s][call.temp] = next
    OBVIOUS
<1>4. IF next = sentinel
        THEN /\ tree' = [Hang(tree, call.node, call.temp, "red") EXCEPT !.child[s][call.temp] = call.node]
             /\ call' = [call EXCEPT !.pc = "balance", !.temp = NULL]
        ELSE call' = [call EXCEPT !.temp = next] /\ tree' = tree
    BY <1>2, <1>3 DEF rbtree_insert_value
<1>5. CASE next = sentinel
  <2>1. PICK n \in Nodes \ In(tree) : call.node = n
      BY <1>1
  <2>2. PICK up \in In(tree) : call.temp = up
      BY <1>1
  <2>3. PICK u : u = [Hang(tree, n, up, "red") EXCEPT !.child[s][up] = n]
      OBVIOUS
  <2>4. tree' = u /\ call' = [call EXCEPT !.pc = "balance", !.temp = NULL]
      BY <1>4, <1>5, <2>1, <2>2, <2>3
  <2>5. tree.child[s][up] = sentinel
      BY <1>3, <1>5, <2>2
  <2>6. Balancing(u, n)
      BY <1>1, <2>3, <2>5, HungBalancing
  <2>7. CallOK' /\ call'.pc = "balance" /\ call'.node = n
      BY <1>1, <2>1, <2>4 DEF CallOK
  <2> QED BY <2>4, <2>6, <2>7 DEF TreeInv
<1>6. CASE next # sentinel
  <2>1. call' = [call EXCEPT !.temp = next] /\ tree' = tree
      BY <1>4, <1>6
  <2>2. next \in In(tree) /\ next \in Nodes
      BY <1>1, <1>3, <1>6, SettledFacts
  <2>3. /\ CallOK' /\ call'.pc = "descend" /\ call'.node = call.node /\ call'.temp = next
      BY <1>1, <2>1, <2>2 DEF CallOK
  <2>4. In(tree)' = In(tree) /\ Settled(tree)'
      BY <1>1, <2>1
  <2> QED BY <1>1, <2>2, <2>3, <2>4 DEF TreeInv
<1> QED BY <1>5, <1>6

LEMMA BalanceKeeps ==
    ASSUME TreeInv, InsertRecolors \/ InsertRotates \/ InsertEnds PROVE TreeInv'
<1>1. CallOK /\ call.pc = "balance" /\ Balancing(tree, call.node)
    BY DEF TreeInv, InsertRecolors, InsertRotates, InsertEnds, RedPair
<1>2. PICK n : call.node = n
    OBVIOUS
<1>3. PICK p : p = tree.parent[n]
    OBVIOUS
<1>4. PICK g : g = tree.parent[p]
    OBVIOUS
<1>5. Balancing(tree, n) /\ Parent = p /\ Grand = g
    BY <1>1, <1>2, <1>3, <1>4 DEF Parent, Grand
<1>6. CASE InsertRecolors
  <2>1. PICK w : w = tree.child[Other(SideOf(tree, p))][g]
      OBVIOUS
  <2>2. Uncle = w
      BY <1>5, <2>1 DEF Uncle
  <2>3. n # tree.root /\ tree.color[tree.parent[n]] = "red" /\ tree.color[w] = "red"
      BY <1>2, <1>3, <1>5, <1>6, <2>2 DEF InsertRecolors, RedPair, IsRed
  <2>4. PICK u : u = Red(Black(Black(tree, p), w), g)
      OBVIOUS
  <2>5. tree' = u /\ call' = [call EXCEPT !.node = g]
      BY <1>5, <1>6, <2>2, <2>4 DEF InsertRecolors
  <2>6. Balancing(u, g)
      BY <1>3, <1>4, <1>5, <2>1, <2>3, <2>4, RecolorsBalancing
  <2>7. g \in Nodes
      BY <2>6 DEF Balancing, In
  <2>8. CallOK' /\ call'.pc = "balance" /\ call'.node = g
      BY <1>1, <2>5, <2>7 DEF CallOK
  <2> QED BY <2>5, <2>6, <2>8 DEF TreeInv
<1>7. CASE InsertRotates
  <2>1. PICK s : s = SideOf(tree, tree.parent[n])
      OBVIOUS
  <2>2. PICK low : low = IF n = tree.child[Other(s)][tree.parent[n]] THEN tree.parent[n] ELSE n
      OBVIOUS
  <2>3. PICK u : u = IF n = tree.child[Other(s)][tree.parent[n]] THEN Rotate(tree, s, low) ELSE tree
      OBVIOUS
  <2>4. PICK v : v = Rotate(Red(Black(u, u.parent[low]), u.parent[u.parent[low]]),
                            Other(s), u.parent[u.parent[low]])
      OBVIOUS
  <2>5. /\ n # tree.root /\ tree.color[tree.parent[n]] = "red"
        /\ tree.color[tree.child[Other(s)][tree.parent[tree.parent[n]]]] # "red"
      BY <1>2, <1>3, <1>4, <1>5, <1>7, <2>1 DEF InsertRotates, RedPair, IsRed, IsBlack, Uncle
  <2>6. tree' = v /\ call' = [call EXCEPT !.node = low]
      BY <1>2, <1>3, <1>5, <1>7, <2>1, <2>2, <2>3, <2>4 DEF InsertRotates
  <2>7. Balancing(v, low)
      BY <1>5, <2>1, <2>2, <2>3, <2>4, <2>5, RotatesBalancing, ZenonT(40)
  <2>8. low \in Nodes
      BY <2>7 DEF Balancing, In
  <2>9. CallOK' /\ call'.pc = "balance" /\ call'.node = low
      BY <1>1, <2>6, <2>8 DEF CallOK
  <2> QED BY <2>6, <2>7, <2>9 DEF TreeInv
<1>8. CASE InsertEnds
  <2>1. n = tree.root \/ tree.color[tree.parent[n]] # "red"
      BY <1>1, <1>2, <1>3, <1>5, <1>8 DEF InsertEnds, RedPair, IsRed
  <2>2. Settled(Black(tree, tree.root))
      BY <1>5, <2>1, EndsSettled
  <2>3. tree' = Black(tree, tree.root) /\ call' = Idle
      BY <1>8 DEF InsertEnds
  <2> QED BY <2>2, <2>3 DEF TreeInv, CallOK, Idle
<1> QED BY <1>6, <1>7, <1>8

LEMMA FixupKeeps ==
    ASSUME TreeInv, FixupRound \/ FixupEnds PROVE TreeInv'
<1>1. CallOK /\ call.pc = "fixup" /\ Fixing(tree, call.temp)
    BY DEF TreeInv, FixupRound, FixupEnds, DoubleBlack
<1>2. CASE FixupRound
  <2>1. Fixing(tree', call'.temp) /\ call'.pc = "fixup" /\ call'.node = call.node
      BY <1>1, <1>2, RoundFixing DEF CallOK
  <2>2. \E k : call' = [call EXCEPT !.temp = k]
      BY <1>2 DEF FixupRound
  <2>3. call'.temp \in Nodes \cup {sentinel}
      BY <2>1 DEF Fixing, In
  <2>4. CallOK'
      BY <1>1, <2>2, <2>3 DEF CallOK
  <2> QED BY <2>1, <2>4 DEF TreeInv
<1>3. CASE FixupEnds
  <2>1. call.temp = tree.root \/ tree.color[call.temp] = "red"
      BY <1>1, <1>3 DEF FixupEnds, DoubleBlack, IsBlack, IsRed
  <2>2. Settled(Black(tree, call.temp))
      BY <1>1, <2>1, FixupSettled
  <2>3. tree' = Black(tree, call.temp) /\ call' = Idle
      BY <1>3 DEF FixupEnds
  <2> QED BY <2>2, <2>3 DEF TreeInv, CallOK, Idle
<1> QED BY <1>2, <1>3

LEMMA DeleteKeeps ==
    ASSUME TreeInv, NEW n \in Nodes, rbtree_delete(n) PROVE TreeInv'
<1>1. call = Idle
    BY DEF rbtree_delete
<1>2. Settled(tree)
    BY <1>1 DEF TreeInv, Idle
<1>3. DeletedNode(n)
    BY <1>2, Deletes
<1>4. CASE Settled(tree') /\ call' = Idle
    BY <1>4 DEF TreeInv, CallOK, Idle
<1>5. CASE /\ Fixing(tree', call'.temp)
           /\ \E temp \in Ends : call' = [Idle EXCEPT !.pc = "fixup", !.temp = temp]
  <2>1. PICK temp \in Ends : call' = [Idle EXCEPT !.pc = "fixup", !.temp = temp]
      BY <1>5
  <2>2. call' = [pc |-> "fixup", node |-> NULL, temp |-> temp]
      BY <2>1 DEF Idle
  <2>3. CallOK' /\ call'.pc = "fixup"
      BY <2>2 DEF CallOK, Ends
  <2> QED BY <1>5, <2>3 DEF TreeInv
<1> QED BY <1>1, <1>3, <1>4, <1>5 DEF DeletedNode

LEMMA NextTree == TreeInv /\ [TreeNext]_treeVars => TreeInv'
<1> SUFFICES ASSUME TreeInv, [TreeNext]_treeVars PROVE TreeInv'
    OBVIOUS
<1>1. CASE Goes
    BY <1>1, DescendKeeps, BalanceKeeps, FixupKeeps DEF Goes
<1>2. CASE \E n \in Nodes : rbtree_insert(n) \/ rbtree_delete(n)
    BY <1>2, InsertKeeps, DeleteKeeps
<1>3. CASE UNCHANGED treeVars
    BY <1>3 DEF treeVars, TreeInv, CallOK
<1> QED BY <1>1, <1>2, <1>3 DEF TreeNext

LEMMA AlwaysTree == TreeSpec => []TreeInv
<1> QED BY InitSettled, NextTree, PTL DEF TreeSpec
-----------------------------------------------------------------------------
(* What RbTree's own invariants look at.                                   *)

Lack == IF call.pc = "fixup" THEN call.temp ELSE NULL

LEMMA TreeFacts ==
    ASSUME TreeInv
    PROVE  /\ Shaped(tree) /\ High(tree, Lack) /\ tree.color[sentinel] = "black" /\ IsTree(tree)
           /\ call.pc = "fixup" => tree.root \in In(tree)
<1>1. call.pc \in {"idle", "descend", "balance", "fixup"}
    BY DEF TreeInv, CallOK
<1>2. Shaped(tree) /\ High(tree, Lack)
    BY <1>1 DEF TreeInv, Settled, Balancing, Fixing, Lack
<1>3. tree.color[sentinel] = "black"
    BY <1>2 DEF High, Heights
<1>4. IsTree(tree)
    BY <1>2 DEF Shaped, IsShape
<1>5. call.pc = "fixup" => tree.root \in In(tree)
    BY DEF TreeInv, Fixing
<1> QED BY <1>2, <1>3, <1>4, <1>5

LEMMA TreeTyped == TreeInv => TreeTypeOK
<1> SUFFICES ASSUME TreeInv PROVE TreeTypeOK
    OBVIOUS
<1>1. IsTree(tree)
    BY TreeFacts
<1>2. PICK N, at, pos, lo, hi : IsShape(tree, N, at, pos, lo, hi)
    BY TreeFacts DEF Shaped
<1>3. /\ tree.root \in Nodes \cup {sentinel}
      /\ tree.child \in [Sides -> [Nodes -> Nodes \cup {sentinel, NULL}]]
      /\ tree.parent \in [Nodes \cup {sentinel} -> Nodes \cup {NULL}]
      /\ tree.color \in [Nodes \cup {sentinel} -> {"red", "black"}]
  <2>1. Ends \cup {NULL} = Nodes \cup {sentinel, NULL} /\ Ends = Nodes \cup {sentinel}
      BY DEF Ends
  <2>2. /\ tree.root \in Ends /\ tree.child \in [Sides -> [Nodes -> Ends \cup {NULL}]]
        /\ tree.parent \in [Ends -> Nodes \cup {NULL}] /\ tree.color \in [Ends -> {"red", "black"}]
      BY <1>1 DEF IsTree
  <2> QED BY <2>1, <2>2
<1>4. ASSUME NEW n \in Nodes, NEW s \in Sides PROVE (tree.child[s][n] = NULL) = ~InTree(n)
  <2>1. InTree(n) <=> n \in In(tree)
      BY DEF InTree, In
  <2>2. In(tree) \subseteq Nodes /\ sentinel \notin Nodes /\ NULL \notin Nodes /\ NULL # sentinel
      BY <1>2, ShapeFacts
  <2>3. n \in In(tree) => tree.child[s][n] # NULL
      BY <1>2, <2>2, ChildIn
  <2>4. n \notin In(tree) => tree.child[s][n] = NULL
      BY <1>2, SidesAre DEF IsShape, Spans
  <2> QED BY <2>1, <2>3, <2>4
<1>5. CallOK
    BY DEF TreeInv
<1> QED BY <1>3, <1>4, <1>5 DEF TreeTypeOK, CallOK

-----------------------------------------------------------------------------
(* Walk is the nodes in the order of their places.                         *)

WalkStep(g, d) ==
    [n \in Nodes \cup {sentinel} |->
        IF n = sentinel \/ d = 0 THEN <<>>
        ELSE g[tree.child["left"][n]] \o <<n>> \o g[tree.child["right"][n]]]

IsWalk(f, K) == f = [d \in 0 .. K |-> WalkStep(f[d - 1], d)]

LEMMA WalkExists == ASSUME NEW K \in Nat PROVE \E f : IsWalk(f, K)
<1>1. PICK T : T = {k \in Nat : ~ \E f : IsWalk(f, k)}
    OBVIOUS
<1>2. ASSUME T # {} PROVE FALSE
  <2>1. T \in SUBSET Nat
      BY <1>1
  <2>2. PICK k \in T : \A i \in T : k <= i
      BY <1>2, <2>1, LeastOf
  <2>3. k \in Nat /\ ~ \E f : IsWalk(f, k)
      BY <1>1, <2>2
  <2>4. \A g, h : WalkStep(g, 0) = WalkStep(h, 0)
      BY DEF WalkStep
  <2>5. CASE k = 0
    <3>1. PICK f : f = [d \in 0 .. 0 |-> WalkStep(0, 0)]
        OBVIOUS
    <3>2. \A d \in 0 .. 0 : WalkStep(f[d - 1], d) = WalkStep(0, 0)
        BY <2>4
    <3>3. f = [d \in 0 .. 0 |-> WalkStep(f[d - 1], d)]
        BY <3>1, <3>2, Zenon
    <3> QED BY <2>3, <2>5, <3>3 DEF IsWalk
  <2>6. CASE k # 0
    <3>1. PICK j \in Nat : j = k - 1
        BY <2>3, <2>6
    <3>2. j \notin T
        BY <2>2, <2>3, <3>1
    <3>3. PICK g : IsWalk(g, j)
        BY <1>1, <3>2
    <3>4. PICK f : f = [d \in 0 .. k |-> IF d = k THEN WalkStep(g[j], k) ELSE g[d]]
        OBVIOUS
    <3>5. ASSUME NEW d \in 0 .. k PROVE f[d] = WalkStep(f[d - 1], d)
      <4>1. CASE d = k
        <5>1. d - 1 = j /\ j \in 0 .. k /\ j # k
            BY <2>3, <3>1, <4>1
        <5>2. f[d - 1] = g[j]
            BY <3>4, <5>1
        <5>3. f[d] = WalkStep(g[j], k)
            BY <3>4, <4>1
        <5> QED BY <4>1, <5>2, <5>3
      <4>2. CASE d # k /\ d # 0
        <5>1. d \in 0 .. j /\ d - 1 \in 0 .. k /\ d - 1 # k
            BY <2>3, <3>1, <4>2
        <5>2. g[d] = WalkStep(g[d - 1], d)
            BY <3>3, <5>1, Zenon DEF IsWalk
        <5>3. f[d] = g[d] /\ f[d - 1] = g[d - 1]
            BY <3>4, <4>2, <5>1
        <5> QED BY <5>2, <5>3
      <4>3. CASE d # k /\ d = 0
        <5>1. d \in 0 .. j
            BY <2>3, <3>1, <4>3
        <5>2. g[d] = WalkStep(g[d - 1], d)
            BY <3>3, <5>1, Zenon DEF IsWalk
        <5>3. f[d] = g[d]
            BY <3>4, <4>3
        <5> QED BY <2>4, <4>3, <5>2, <5>3
      <4> QED BY <4>1, <4>2, <4>3
    <3>6. f = [d \in 0 .. k |-> f[d]]
        BY <3>4
    <3>7. f = [d \in 0 .. k |-> WalkStep(f[d - 1], d)]
        BY <3>5, <3>6, Zenon
    <3> QED BY <2>3, <3>7 DEF IsWalk
  <2> QED BY <2>5, <2>6
<1> QED BY <1>1, <1>2

LEMMA WalkIs == \E f : IsWalk(f, Deep) /\ Walk = f[Deep][tree.root]
<1>1. Deep \in Nat
    BY NodesAssumption, FS_CardinalityType DEF Deep
<1>2. PICK g : IsWalk(g, Deep)
    BY <1>1, WalkExists
<1>3. PICK f : f = CHOOSE h : h = [d \in 0 .. Deep |-> WalkStep(h[d - 1], d)]
    OBVIOUS
<1>4. f = [d \in 0 .. Deep |-> WalkStep(f[d - 1], d)]
    BY <1>2, <1>3, Zenon DEF IsWalk
<1>5. Walk = f[Deep][tree.root]
    BY <1>3, Zenon DEF Walk, WalkStep
<1> QED BY <1>4, <1>5 DEF IsWalk

(* The nodes at the places from a to b.                                    *)
Seg(at, a, b) == [i \in 1 .. (b - a + 1) |-> at[a + i - 1]]

Values(at) == {at[i] : i \in Int}

SegOf(s, at, a, n) ==
    s \in Seq(Values(at)) /\ Len(s) = n /\ \A i \in 1 .. n : s[i] = at[a + i - 1]

LEMMA SegIs ==
    ASSUME NEW at, NEW a \in Int, NEW b \in Int, a <= b + 1
    PROVE  SegOf(Seg(at, a, b), at, a, b - a + 1)
<1>1. PICK n \in Nat : n = b - a + 1
    OBVIOUS
<1>2. PICK s : s = [i \in 1 .. n |-> at[a + i - 1]]
    OBVIOUS
<1>3. s \in [1 .. n -> Values(at)]
    BY <1>2 DEF Values
<1>4. s \in Seq(Values(at)) /\ Len(s) = n
    BY <1>3
<1>5. s = Seg(at, a, b)
    BY <1>1, <1>2 DEF Seg
<1> QED BY <1>1, <1>2, <1>4, <1>5 DEF SegOf

LEMMA SegJoin ==
    ASSUME NEW at, NEW a \in Int, NEW p \in Int, NEW b \in Int, a <= p, p <= b
    PROVE  Seg(at, a, p - 1) \o <<at[p]>> \o Seg(at, p + 1, b) = Seg(at, a, b)
<1>1. PICK S : S = Values(at)
    OBVIOUS
<1>2. PICK x : x = Seg(at, a, p - 1)
    OBVIOUS
<1>3. PICK y : y = Seg(at, p + 1, b)
    OBVIOUS
<1>4. PICK z : z = Seg(at, a, b)
    OBVIOUS
<1>5. PICK e \in S : e = at[p]
    BY <1>1 DEF Values
<1>6. x \in Seq(S) /\ Len(x) = p - a /\ \A i \in 1 .. p - a : x[i] = at[a + i - 1]
  <2>1. PICK q \in Int : q = p - 1 /\ a <= q + 1 /\ q - a + 1 = p - a
      OBVIOUS
  <2>2. SegOf(Seg(at, a, q), at, a, q - a + 1)
      BY <2>1, SegIs
  <2>3. SegOf(x, at, a, p - a)
      BY <1>2, <2>1, <2>2
  <2> QED BY <1>1, <2>3 DEF SegOf
<1>7. y \in Seq(S) /\ Len(y) = b - p /\ \A i \in 1 .. b - p : y[i] = at[p + i]
  <2>1. PICK q \in Int : q = p + 1 /\ q <= b + 1 /\ b - q + 1 = b - p
      OBVIOUS
  <2>2. SegOf(Seg(at, q, b), at, q, b - q + 1)
      BY <2>1, SegIs
  <2>3. SegOf(y, at, q, b - p)
      BY <1>3, <2>1, <2>2
  <2>4. \A i \in 1 .. b - p : q + i - 1 = p + i
      BY <2>1
  <2> QED BY <1>1, <2>3, <2>4 DEF SegOf
<1>8. z \in Seq(S) /\ Len(z) = b - a + 1 /\ \A i \in 1 .. b - a + 1 : z[i] = at[a + i - 1]
  <2>1. SegOf(Seg(at, a, b), at, a, b - a + 1)
      BY SegIs
  <2> QED BY <1>1, <1>4, <2>1 DEF SegOf
<1>9. PICK u : u = x \o <<e>>
    OBVIOUS
<1>10. /\ u \in Seq(S) /\ Len(u) = p - a + 1
       /\ \A i \in 1 .. p - a + 1 : u[i] = at[a + i - 1]
  <2>1. <<e>> \in Seq(S) /\ Len(<<e>>) = 1 /\ <<e>>[1] = e
      OBVIOUS
  <2>2. /\ u \in Seq(S) /\ Len(u) = p - a + 1
        /\ \A i \in 1 .. p - a + 1 : u[i] = IF i <= p - a THEN x[i] ELSE <<e>>[i - (p - a)]
      BY <1>6, <1>9, <2>1, ConcatProperties
  <2>3. ASSUME NEW i \in 1 .. p - a + 1 PROVE u[i] = at[a + i - 1]
    <3>1. CASE i <= p - a
        BY <1>6, <2>2, <3>1
    <3>2. CASE i = p - a + 1
      <4>1. i - (p - a) = 1 /\ a + i - 1 = p /\ ~ (i <= p - a)
          BY <3>2
      <4> QED BY <1>5, <2>1, <2>2, <4>1
    <3> QED BY <3>1, <3>2
  <2> QED BY <2>2, <2>3
<1>11. PICK v : v = u \o y
    OBVIOUS
<1>12. /\ v \in Seq(S) /\ Len(v) = b - a + 1
       /\ \A i \in 1 .. b - a + 1 : v[i] = at[a + i - 1]
  <2>1. /\ v \in Seq(S) /\ Len(v) = b - a + 1
        /\ \A i \in 1 .. b - a + 1 : v[i] = IF i <= p - a + 1 THEN u[i] ELSE y[i - (p - a + 1)]
      BY <1>7, <1>10, <1>11, ConcatProperties
  <2>2. ASSUME NEW i \in 1 .. b - a + 1 PROVE v[i] = at[a + i - 1]
    <3>1. CASE i <= p - a + 1
        BY <1>10, <2>1, <3>1
    <3>2. CASE i > p - a + 1
      <4>1. PICK j \in 1 .. b - p : j = i - (p - a + 1)
          BY <3>2
      <4>2. p + j = a + i - 1
          BY <4>1
      <4>3. v[i] = y[j]
          BY <2>1, <3>2, <4>1
      <4> QED BY <1>7, <4>2, <4>3
    <3> QED BY <3>1, <3>2
  <2> QED BY <2>1, <2>2
<1>13. v = z
    BY <1>8, <1>12, SeqEqual
<1> QED BY <1>2, <1>3, <1>4, <1>5, <1>9, <1>11, <1>13

LEMMA WalkOf ==
    ASSUME NEW N, NEW at, NEW pos, NEW lo, NEW hi, IsShape(tree, N, at, pos, lo, hi),
           NEW f, IsWalk(f, Deep), NEW m \in In(tree), NEW d \in 0 .. Deep, d > hi[m] - lo[m]
    PROVE  f[d][m] = Seg(at, lo[m], hi[m])
<1>1. /\ In(tree) \subseteq Nodes /\ sentinel \notin Nodes
      /\ \A k \in In(tree) : pos[k] \in Int /\ lo[k] \in Int /\ hi[k] \in Int
    BY ShapeFacts
<1>2. Deep \in Nat
    BY NodesAssumption, FS_CardinalityType DEF Deep
<1>3. ASSUME NEW k \in In(tree)
      PROVE  /\ lo[k] <= pos[k] /\ pos[k] <= hi[k] /\ at[pos[k]] = k
             /\ OnLeft(tree, k, tree.child["left"][k], pos, lo, hi)
             /\ OnRight(tree, k, tree.child["right"][k], pos, lo, hi)
    BY DEF IsShape, Spans, Placed
<1>4. PICK T : T = {i \in 0 .. Deep : \E k \in In(tree) : i > hi[k] - lo[k] /\ f[i][k] # Seg(at, lo[k], hi[k])}
    OBVIOUS
<1>5. ASSUME T # {} PROVE FALSE
  <2>1. T \in SUBSET Nat
      BY <1>2, <1>4
  <2>2. PICK i \in T : \A j \in T : i <= j
      BY <1>5, <2>1, LeastOf
  <2>3. PICK k \in In(tree) : i > hi[k] - lo[k] /\ f[i][k] # Seg(at, lo[k], hi[k]) /\ i \in 0 .. Deep
      BY <1>4, <2>2
  <2>4. i \in Nat /\ i >= 1 /\ i - 1 \in 0 .. Deep /\ i # 0
      BY <1>1, <1>2, <1>3, <2>3
  <2>5. i - 1 \notin T
    <3>1. ASSUME i - 1 \in T PROVE i <= i - 1
        BY <2>2, <3>1
    <3> QED BY <2>4, <3>1
  <2>6. \A c \in In(tree) : hi[c] - lo[c] < i - 1 => f[i - 1][c] = Seg(at, lo[c], hi[c])
      BY <1>1, <1>4, <2>4, <2>5
  <2>7. f[i] = WalkStep(f[i - 1], i)
      BY <2>3, Zenon DEF IsWalk
  <2>8. f[i - 1] = WalkStep(f[i - 2], i - 1)
    <3>1. f[i - 1] = WalkStep(f[(i - 1) - 1], i - 1)
        BY <2>4, Zenon DEF IsWalk
    <3>2. (i - 1) - 1 = i - 2
        BY <2>4
    <3> QED BY <3>1, <3>2
  <2>9. f[i - 1][sentinel] = <<>>
      BY <2>8 DEF WalkStep
  <2>10. f[i][k] = f[i - 1][tree.child["left"][k]] \o <<k>> \o f[i - 1][tree.child["right"][k]]
      BY <1>1, <2>4, <2>7 DEF WalkStep
  <2>11. f[i - 1][tree.child["left"][k]] = Seg(at, lo[k], pos[k] - 1)
    <3>1. PICK c : c = tree.child["left"][k]
        OBVIOUS
    <3>2. OnLeft(tree, k, c, pos, lo, hi)
        BY <1>3, <3>1
    <3>3. CASE c = sentinel
      <4>1. lo[k] = pos[k]
          BY <3>2, <3>3 DEF OnLeft
      <4>2. pos[k] - 1 - lo[k] + 1 = 0
          BY <1>1, <4>1
      <4>3. Seg(at, lo[k], pos[k] - 1) = [j \in 1 .. 0 |-> at[lo[k] + j - 1]]
          BY <4>2 DEF Seg
      <4>4. Seg(at, lo[k], pos[k] - 1) = <<>>
          BY <4>3
      <4> QED BY <2>9, <3>1, <3>3, <4>4
    <3>4. CASE c # sentinel
      <4>1. c \in In(tree) /\ lo[c] = lo[k] /\ hi[c] = pos[k] - 1
          BY <3>2, <3>4 DEF OnLeft
      <4>2. hi[c] - lo[c] < i - 1
          BY <1>1, <1>3, <2>3, <4>1
      <4> QED BY <2>6, <3>1, <4>1, <4>2
    <3> QED BY <3>3, <3>4
  <2>12. f[i - 1][tree.child["right"][k]] = Seg(at, pos[k] + 1, hi[k])
    <3>1. PICK c : c = tree.child["right"][k]
        OBVIOUS
    <3>2. OnRight(tree, k, c, pos, lo, hi)
        BY <1>3, <3>1
    <3>3. CASE c = sentinel
      <4>1. hi[k] = pos[k]
          BY <3>2, <3>3 DEF OnRight
      <4>2. hi[k] - (pos[k] + 1) + 1 = 0
          BY <1>1, <4>1
      <4>3. Seg(at, pos[k] + 1, hi[k]) = [j \in 1 .. 0 |-> at[(pos[k] + 1) + j - 1]]
          BY <4>2 DEF Seg
      <4>4. Seg(at, pos[k] + 1, hi[k]) = <<>>
          BY <4>3
      <4> QED BY <2>9, <3>1, <3>3, <4>4
    <3>4. CASE c # sentinel
      <4>1. c \in In(tree) /\ lo[c] = pos[k] + 1 /\ hi[c] = hi[k]
          BY <3>2, <3>4 DEF OnRight
      <4>2. hi[c] - lo[c] < i - 1
          BY <1>1, <1>3, <2>3, <4>1
      <4> QED BY <2>6, <3>1, <4>1, <4>2
    <3> QED BY <3>3, <3>4
  <2>13. PICK p \in Int : p = pos[k] /\ at[p] = k
      BY <1>1, <1>3
  <2>14. Seg(at, lo[k], p - 1) \o <<at[p]>> \o Seg(at, p + 1, hi[k]) = Seg(at, lo[k], hi[k])
      BY <1>1, <1>3, <2>13, SegJoin, ZenonT(40)
  <2> QED BY <2>3, <2>10, <2>11, <2>12, <2>13, <2>14
<1> QED BY <1>4, <1>5

(* So Walk, as long as there are nodes in the tree, is just at.            *)
LEMMA WalkAt ==
    ASSUME NEW N, NEW at, NEW pos, NEW lo, NEW hi, IsShape(tree, N, at, pos, lo, hi)
    PROVE  /\ Walk = [i \in 1 .. N |-> at[i]] /\ Len(Walk) = N
           /\ Cardinality(In(tree)) = N /\ N < Deep
<1>1. /\ In(tree) \subseteq Nodes /\ sentinel \notin Nodes /\ N \in Nat
      /\ tree.root \in In(tree) \cup {sentinel} /\ (In(tree) # {} => tree.root \in In(tree))
    BY ShapeFacts
<1>2. /\ at \in [1 .. N -> Nodes]
      /\ \A i \in 1 .. N : at[i] \in In(tree) /\ pos[at[i]] = i
      /\ \A m \in In(tree) : pos[m] \in 1 .. N /\ at[pos[m]] = m
    BY DEF IsShape, Placed
<1>3. IsFiniteSet(In(tree)) /\ Cardinality(In(tree)) = N
  <2>1. ExistsBijection(1 .. N, In(tree))
    <3>1. at \in Bijection(1 .. N, In(tree))
        BY <1>2 DEF Bijection, Injection, Surjection, IsInjective
    <3> QED BY <3>1 DEF ExistsBijection
  <2>2. IsFiniteSet(1 .. N) /\ Cardinality(1 .. N) = N
      BY <1>1, FS_Interval
  <2> QED BY <2>1, <2>2, FS_Bijection
<1>4. Cardinality(Nodes) \in Nat /\ N <= Cardinality(Nodes)
    BY <1>1, <1>3, NodesAssumption, FS_Subset, FS_CardinalityType
<1>5. N < Deep /\ Deep \in Nat
    BY <1>1, <1>4 DEF Deep
<1>6. PICK f : IsWalk(f, Deep) /\ Walk = f[Deep][tree.root]
    BY WalkIs
<1>7. Walk = Seg(at, 1, N)
  <2>1. CASE In(tree) # {}
    <3>1. tree.root \in In(tree) /\ tree.root \in Nodes
        BY <1>1, <2>1
    <3>2. lo[tree.root] = 1 /\ hi[tree.root] = N
        BY <3>1 DEF IsShape, Spans
    <3>3. Deep \in 0 .. Deep /\ Deep > hi[tree.root] - lo[tree.root]
        BY <1>1, <1>5, <3>2
    <3> QED BY <1>6, <3>1, <3>2, <3>3, WalkOf
  <2>2. CASE In(tree) = {}
    <3>1. tree.root = sentinel
        BY <1>1, <2>2
    <3>2. f[Deep] = WalkStep(f[Deep - 1], Deep)
      <4>1. Deep \in 0 .. Deep
          BY <1>5
      <4> QED BY <1>6, <4>1, Zenon DEF IsWalk
    <3>3. Walk = <<>>
        BY <1>6, <3>1, <3>2 DEF WalkStep
    <3>4. N = 0
        BY <1>1, <1>2, <2>2
    <3>5. Seg(at, 1, N) = [i \in 1 .. 0 |-> at[1 + i - 1]]
        BY <3>4 DEF Seg
    <3>6. Seg(at, 1, N) = <<>>
        BY <3>5
    <3> QED BY <3>3, <3>6
  <2> QED BY <2>1, <2>2
<1>8. Seg(at, 1, N) = [i \in 1 .. N |-> at[i]]
  <2>1. N - 1 + 1 = N /\ \A i \in 1 .. N : 1 + i - 1 = i
      BY <1>1
  <2> QED BY <2>1 DEF Seg
<1>9. Len([i \in 1 .. N |-> at[i]]) = N
    BY <1>1
<1> QED BY <1>3, <1>5, <1>7, <1>8, <1>9

LEMMA ReachedIs ==
    ASSUME NEW N, NEW at, NEW pos, NEW lo, NEW hi, IsShape(tree, N, at, pos, lo, hi)
    PROVE  Reached = In(tree)
<1>1. Walk = [i \in 1 .. N |-> at[i]] /\ Len(Walk) = N
    BY WalkAt
<1>2. /\ at \in [1 .. N -> Nodes]
      /\ \A i \in 1 .. N : at[i] \in In(tree)
      /\ \A m \in In(tree) : pos[m] \in 1 .. N /\ at[pos[m]] = m
    BY DEF IsShape, Placed
<1>3. Reached = {Walk[i] : i \in 1 .. N}
    BY <1>1 DEF Reached
<1>4. \A i \in 1 .. N : Walk[i] = at[i]
    BY <1>1
<1> QED BY <1>2, <1>3, <1>4

LEMMA TreeLinked == TreeInv => Linked
<1> SUFFICES ASSUME TreeInv PROVE Linked
    OBVIOUS
<1>1. PICK N, at, pos, lo, hi : IsShape(tree, N, at, pos, lo, hi)
    BY TreeFacts DEF Shaped
<1>2. Reached = In(tree) /\ Cardinality(In(tree)) = N /\ Len(Walk) = N
    BY <1>1, ReachedIs, WalkAt
<1>3. \A n \in In(tree) \ {tree.root} : \E s \in Sides : tree.child[s][tree.parent[n]] = n
    BY <1>1, ParentOf
<1>4. In(tree) = {n \in Nodes : InTree(n)}
    BY DEF In, InTree
<1> QED BY <1>2, <1>3, <1>4 DEF Linked

-----------------------------------------------------------------------------
(* BlackHeights is the height of the root.                                 *)

HeightStep(g, d) ==
    [e \in (Nodes \cup {sentinel}) \X (Nodes \cup {NULL}) |->
        LET n == e[1] IN
        IF n = sentinel THEN {Own(n, e[2])}
        ELSE IF d = 0 THEN {}
        ELSE {h + Own(n, e[2]) : h \in UNION {g[<<tree.child[s][n], n>>] : s \in Sides}}]

IsHeights(f, K) == f = [d \in 0 .. K |-> HeightStep(f[d - 1], d)]

LEMMA HeightsExist == ASSUME NEW K \in Nat PROVE \E f : IsHeights(f, K)
<1>1. PICK T : T = {k \in Nat : ~ \E f : IsHeights(f, k)}
    OBVIOUS
<1>2. ASSUME T # {} PROVE FALSE
  <2>1. T \in SUBSET Nat
      BY <1>1
  <2>2. PICK k \in T : \A i \in T : k <= i
      BY <1>2, <2>1, LeastOf
  <2>3. k \in Nat /\ ~ \E f : IsHeights(f, k)
      BY <1>1, <2>2
  <2>4. \A g, h : HeightStep(g, 0) = HeightStep(h, 0)
      BY Zenon DEF HeightStep
  <2>5. CASE k = 0
    <3>1. PICK f : f = [d \in 0 .. 0 |-> HeightStep(0, 0)]
        OBVIOUS
    <3>2. \A d \in 0 .. 0 : HeightStep(f[d - 1], d) = HeightStep(0, 0)
        BY <2>4
    <3>3. f = [d \in 0 .. 0 |-> HeightStep(f[d - 1], d)]
        BY <3>1, <3>2, Zenon
    <3> QED BY <2>3, <2>5, <3>3 DEF IsHeights
  <2>6. CASE k # 0
    <3>1. PICK j \in Nat : j = k - 1
        BY <2>3, <2>6
    <3>2. j \notin T
        BY <2>2, <2>3, <3>1
    <3>3. PICK g : IsHeights(g, j)
        BY <1>1, <3>2
    <3>4. PICK f : f = [d \in 0 .. k |-> IF d = k THEN HeightStep(g[j], k) ELSE g[d]]
        OBVIOUS
    <3>5. ASSUME NEW d \in 0 .. k PROVE f[d] = HeightStep(f[d - 1], d)
      <4>1. CASE d = k
        <5>1. d - 1 = j /\ j \in 0 .. k /\ j # k
            BY <2>3, <3>1, <4>1
        <5>2. f[d - 1] = g[j]
            BY <3>4, <5>1
        <5>3. f[d] = HeightStep(g[j], k)
            BY <3>4, <4>1
        <5> QED BY <4>1, <5>2, <5>3
      <4>2. CASE d # k /\ d # 0
        <5>1. d \in 0 .. j /\ d - 1 \in 0 .. k /\ d - 1 # k
            BY <2>3, <3>1, <4>2
        <5>2. g[d] = HeightStep(g[d - 1], d)
            BY <3>3, <5>1, Zenon DEF IsHeights
        <5>3. f[d] = g[d] /\ f[d - 1] = g[d - 1]
            BY <3>4, <4>2, <5>1
        <5> QED BY <5>2, <5>3
      <4>3. CASE d # k /\ d = 0
        <5>1. d \in 0 .. j
            BY <2>3, <3>1, <4>3
        <5>2. g[d] = HeightStep(g[d - 1], d)
            BY <3>3, <5>1, Zenon DEF IsHeights
        <5>3. f[d] = g[d]
            BY <3>4, <4>3
        <5> QED BY <2>4, <4>3, <5>2, <5>3
      <4> QED BY <4>1, <4>2, <4>3
    <3>6. f = [d \in 0 .. k |-> f[d]]
        BY <3>4
    <3>7. f = [d \in 0 .. k |-> HeightStep(f[d - 1], d)]
        BY <3>5, <3>6, Zenon
    <3> QED BY <2>3, <3>7 DEF IsHeights
  <2> QED BY <2>5, <2>6
<1> QED BY <1>1, <1>2

LEMMA BlackHeightsIs == \E f : IsHeights(f, Deep) /\ BlackHeights = f[Deep][<<tree.root, NULL>>]
<1>1. Deep \in Nat
    BY NodesAssumption, FS_CardinalityType DEF Deep
<1>2. PICK g : IsHeights(g, Deep)
    BY <1>1, HeightsExist
<1>3. PICK f : f = CHOOSE h : h = [d \in 0 .. Deep |-> HeightStep(h[d - 1], d)]
    OBVIOUS
<1>4. f = [d \in 0 .. Deep |-> HeightStep(f[d - 1], d)]
    BY <1>2, <1>3, Zenon DEF IsHeights
<1>5. BlackHeights = f[Deep][<<tree.root, NULL>>]
    BY <1>3, Zenon DEF BlackHeights, HeightStep
<1> QED BY <1>4, <1>5 DEF IsHeights

LEMMA OwnIs ==
    ASSUME TreeInv, NEW m \in In(tree), NEW up
    PROVE  /\ m = tree.root \/ up = tree.parent[m] => Own(m, up) = Weight(tree, Lack, m)
           /\ \A b : Own(sentinel, m) = Below(tree, Lack, b, m, sentinel)
<1>1. PICK N, at, pos, lo, hi : IsShape(tree, N, at, pos, lo, hi)
    BY TreeFacts DEF Shaped
<1>2. /\ m \in Nodes /\ sentinel \notin Nodes /\ NULL \notin Nodes /\ NULL # sentinel
      /\ tree.root \in In(tree) /\ tree.root # sentinel
    BY <1>1, ShapeFacts
<1>3. tree.color \in [Ends -> {"red", "black"}] /\ tree.color[sentinel] = "black"
    BY TreeFacts DEF IsTree
<1>4. ASSUME m = tree.root \/ up = tree.parent[m] PROVE Own(m, up) = Weight(tree, Lack, m)
  <2>1. Lacks(m, up) <=> m = Lack
      BY <1>2, <1>4 DEF Lacks, Lack
  <2>2. IsBlack(tree, m) <=> tree.color[m] = "black"
      BY <1>2, <1>3 DEF IsBlack, IsRed, Ends
  <2> QED BY <2>1, <2>2 DEF Own, Weight
<1>5. ASSUME NEW b PROVE Own(sentinel, m) = Below(tree, Lack, b, m, sentinel)
  <2>1. Lacks(sentinel, m) <=> Lack = sentinel /\ m = tree.parent[sentinel]
      BY <1>2 DEF Lacks, Lack
  <2>2. IsBlack(tree, sentinel)
      BY <1>3 DEF IsBlack, IsRed
  <2> QED BY <2>1, <2>2 DEF Own, Below
<1> QED BY <1>4, <1>5

LEMMA HeightsOf ==
    ASSUME TreeInv, NEW N, NEW at, NEW pos, NEW lo, NEW hi, IsShape(tree, N, at, pos, lo, hi),
           NEW b, Heights(tree, Lack, b), NEW f, IsHeights(f, Deep),
           NEW m \in In(tree), NEW up \in Nodes \cup {NULL}, m = tree.root \/ up = tree.parent[m],
           NEW d \in 0 .. Deep, d > hi[m] - lo[m]
    PROVE  f[d][<<m, up>>] = {b[m]}
<1>1. /\ In(tree) \subseteq Nodes /\ sentinel \notin Nodes /\ NULL \notin Nodes
      /\ \A k \in In(tree) : pos[k] \in Int /\ lo[k] \in Int /\ hi[k] \in Int
    BY ShapeFacts
<1>2. Deep \in Nat
    BY NodesAssumption, FS_CardinalityType DEF Deep
<1>3. ASSUME NEW k \in In(tree) PROVE lo[k] <= pos[k] /\ pos[k] <= hi[k]
    BY DEF IsShape, Spans
<1>4. PICK T : T = {i \in 0 .. Deep : \E k \in In(tree), q \in Nodes \cup {NULL} :
                       /\ k = tree.root \/ q = tree.parent[k]
                       /\ i > hi[k] - lo[k] /\ f[i][<<k, q>>] # {b[k]}}
    OBVIOUS
<1>5. ASSUME T # {} PROVE FALSE
  <2>1. T \in SUBSET Nat
      BY <1>2, <1>4
  <2>2. PICK i \in T : \A j \in T : i <= j
      BY <1>5, <2>1, LeastOf
  <2>3. PICK k \in In(tree), q \in Nodes \cup {NULL} :
           /\ k = tree.root \/ q = tree.parent[k]
           /\ i > hi[k] - lo[k] /\ f[i][<<k, q>>] # {b[k]} /\ i \in 0 .. Deep
      BY <1>4, <2>2
  <2>4. i \in Nat /\ i >= 1 /\ i - 1 \in 0 .. Deep /\ i # 0 /\ k \in Nodes
      BY <1>1, <1>2, <1>3, <2>3
  <2>5. i - 1 \notin T
    <3>1. ASSUME i - 1 \in T PROVE i <= i - 1
        BY <2>2, <3>1
    <3> QED BY <2>4, <3>1
  <2>6. ASSUME NEW c \in In(tree), tree.parent[c] = k, hi[c] - lo[c] < i - 1
        PROVE  f[i - 1][<<c, k>>] = {b[c]}
      BY <1>1, <1>4, <2>4, <2>5, <2>6
  <2>7. f[i] = HeightStep(f[i - 1], i)
      BY <2>3, Zenon DEF IsHeights
  <2>8. f[i - 1] = HeightStep(f[i - 2], i - 1)
    <3>1. f[i - 1] = HeightStep(f[(i - 1) - 1], i - 1)
        BY <2>4, Zenon DEF IsHeights
    <3>2. (i - 1) - 1 = i - 2
        BY <2>4
    <3> QED BY <3>1, <3>2
  <2>9. f[i - 1][<<sentinel, k>>] = {Own(sentinel, k)}
    <3>1. <<sentinel, k>> \in (Nodes \cup {sentinel}) \X (Nodes \cup {NULL})
        BY <2>4
    <3> QED BY <2>8, <3>1 DEF HeightStep
  <2>10. f[i][<<k, q>>] =
           {h + Own(k, q) : h \in UNION {f[i - 1][<<tree.child[s][k], k>>] : s \in Sides}}
    <3>1. <<k, q>> \in (Nodes \cup {sentinel}) \X (Nodes \cup {NULL})
        BY <2>4
    <3>2. k # sentinel
        BY <1>1, <2>4
    <3> QED BY <2>4, <2>7, <3>1, <3>2 DEF HeightStep
  <2>11. PICK w \in Int : w = Weight(tree, Lack, k)
      BY SidesAre, HeightFacts
  <2>12. PICK v \in Int : v = b[k] - w
      BY <2>11, SidesAre, HeightFacts
  <2>13. b[k] = v + w
      BY <2>11, <2>12, SidesAre, HeightFacts
  <2>14. ASSUME NEW s \in Sides PROVE f[i - 1][<<tree.child[s][k], k>>] = {v}
    <3>1. PICK c : tree.child[s][k] = c
        OBVIOUS
    <3>2. c \in In(tree) \cup {sentinel}
        BY <3>1, ChildIn
    <3>3. PICK e \in Int : e = Below(tree, Lack, b, k, c)
        BY <3>1, HeightFacts
    <3>4. b[k] = w + e
        BY <2>11, <3>1, <3>3, HeightFacts
    <3>5. e = v
        BY <2>13, <3>4
    <3>6. CASE c = sentinel
      <4>1. Own(sentinel, k) = Below(tree, Lack, b, k, sentinel)
          BY OwnIs
      <4> QED BY <2>9, <3>1, <3>3, <3>5, <3>6, <4>1
    <3>7. CASE c # sentinel
      <4>1. c \in In(tree) /\ c \in Nodes
          BY <1>1, <3>2, <3>7
      <4>2. tree.parent[c] = k /\ hi[c] - lo[c] < hi[k] - lo[k]
          BY <2>4, <3>1, <4>1, ChildOnce
      <4>3. hi[c] - lo[c] < i - 1
          BY <1>1, <2>3, <2>4, <4>1, <4>2
      <4>4. f[i - 1][<<c, k>>] = {b[c]}
          BY <2>6, <4>1, <4>2, <4>3
      <4>5. e = b[c]
          BY <3>3, <3>7 DEF Below
      <4> QED BY <3>1, <3>5, <4>4, <4>5
    <3> QED BY <3>6, <3>7
  <2>15. UNION {f[i - 1][<<tree.child[s][k], k>>] : s \in Sides} = {v}
      BY <2>14, SidesAre
  <2>16. Own(k, q) = w
      BY <2>3, <2>11, OwnIs
  <2>17. f[i][<<k, q>>] = {v + w}
      BY <2>10, <2>15, <2>16
  <2> QED BY <2>3, <2>13, <2>17
<1> QED BY <1>4, <1>5

LEMMA OneHeight == TreeInv => Cardinality(BlackHeights) = 1
<1> SUFFICES ASSUME TreeInv PROVE Cardinality(BlackHeights) = 1
    OBVIOUS
<1>1. PICK N, at, pos, lo, hi : IsShape(tree, N, at, pos, lo, hi)
    BY TreeFacts DEF Shaped
<1>2. PICK b : Heights(tree, Lack, b)
    BY TreeFacts DEF High
<1>3. PICK f : IsHeights(f, Deep) /\ BlackHeights = f[Deep][<<tree.root, NULL>>]
    BY BlackHeightsIs
<1>4. N < Deep /\ N \in Nat /\ Deep \in Nat /\ Deep \in 0 .. Deep
  <2>1. N < Deep
      BY <1>1, WalkAt
  <2>2. N \in Nat
      BY <1>1, ShapeFacts
  <2>3. Deep \in Nat
      BY NodesAssumption, FS_CardinalityType DEF Deep
  <2> QED BY <2>1, <2>2, <2>3
<1>5. CASE tree.root \in In(tree)
  <2>1. tree.root \in Nodes
      BY <1>1, <1>5, ShapeFacts
  <2>2. lo[tree.root] = 1 /\ hi[tree.root] = N
      BY <1>1, <2>1 DEF IsShape, Spans
  <2>3. Deep > hi[tree.root] - lo[tree.root]
      BY <1>4, <2>2
  <2>4. BlackHeights = {b[tree.root]}
      BY <1>1, <1>2, <1>3, <1>4, <1>5, <2>3, HeightsOf
  <2> QED BY <2>4, FS_Singleton
<1>6. CASE tree.root = sentinel
  <2>1. f[Deep] = HeightStep(f[Deep - 1], Deep)
      BY <1>3, <1>4, Zenon DEF IsHeights
  <2>2. <<sentinel, NULL>> \in (Nodes \cup {sentinel}) \X (Nodes \cup {NULL})
      OBVIOUS
  <2>3. BlackHeights = {Own(sentinel, NULL)}
      BY <1>3, <1>6, <2>1, <2>2 DEF HeightStep
  <2> QED BY <2>3, FS_Singleton
<1> QED BY <1>1, <1>5, <1>6, ShapeFacts

LEMMA TreeBalanced == TreeInv => Balanced
<1> SUFFICES ASSUME TreeInv PROVE Balanced
    OBVIOUS
<1>1. PICK N, at, pos, lo, hi : IsShape(tree, N, at, pos, lo, hi)
    BY TreeFacts DEF Shaped
<1>2. Reached = In(tree)
    BY <1>1, ReachedIs
<1>3. IsBlack(tree, sentinel)
    BY TreeFacts DEF IsBlack, IsRed
<1>4. Cardinality(BlackHeights) = 1
    BY OneHeight
<1>5. call.pc \in {"idle", "descend", "balance", "fixup"}
    BY DEF TreeInv, CallOK
<1>6. PICK at2 : at2 = IF call.pc = "fixup" THEN call.temp ELSE call.node
    OBVIOUS
<1>7. IsRed(tree, tree.root) => call.pc \in {"balance", "fixup"} /\ at2 = tree.root
    BY <1>5, <1>6 DEF TreeInv, Settled, Balancing, Fixing, IsRed
<1>8. ASSUME NEW pair \in RedPairs
      PROVE  \/ call.pc = "balance" /\ pair[2] = at2
             \/ call.pc = "fixup" /\ at2 \in {pair[1], pair[2]}
  <2>1. PICK n \in RedRed(tree) : pair = <<tree.parent[n], n>>
      BY <1>2 DEF RedPairs, RedRed, IsRed
  <2>2. pair[1] = tree.parent[n] /\ pair[2] = n
      BY <2>1
  <2> QED BY <1>5, <1>6, <2>1, <2>2 DEF TreeInv, Settled, Balancing, Fixing
<1> QED BY <1>3, <1>4, <1>6, <1>7, <1>8 DEF Balanced

(* In every step of rbtree_insert and rbtree_delete, for any number of     *)
(* nodes and any keys, the pointers form one tree of all that are inserted *)
(* and the colors obey the rules but for what the call has yet to mend:    *)
(* no rotation and no replacement of a deleted node loses a node, and the  *)
(* loops of ds_rbtree.c end with a red-black tree.                         *)
THEOREM AlwaysRedBlack == TreeSpec => []RedBlackTree
<1>1. TreeInv => RedBlackTree
    BY TreeLinked, TreeBalanced DEF RedBlackTree
<1> QED BY <1>1, AlwaysTree, PTL

-----------------------------------------------------------------------------
(* The order of the nodes.  Rotations and colors leave every node at its   *)
(* place.                                                                  *)

LEMMA OrderTurns ==
    ASSUME NEW t, NEW N, NEW at, Ordered(t, N, at),
           NEW s \in Sides, NEW n \in Nodes, NEW temp \in Nodes, t.child[Other(s)][n] = temp
    PROVE  Ordered(Rotate(t, s, n), N, at)
<1>1. PICK pos, lo, hi : IsShape(t, N, at, pos, lo, hi)
    BY DEF Ordered
<1>2. PICK u : u = Rotate(t, s, n)
    OBVIOUS
<1>3. Rotated(t, u, s, n, temp, t.child[s][temp])
    BY <1>1, <1>2, RotateFields
<1>4. IsShape(u, N, at, pos, NewLo(s, n, temp, pos, lo), NewHi(s, n, temp, pos, hi))
    BY <1>1, <1>3, RotateSpans
<1> QED BY <1>2, <1>4 DEF Ordered

LEMMA OrderStays ==
    ASSUME NEW t, NEW N, NEW at, Ordered(t, N, at), NEW k, Repainted(t, k)
    PROVE  Ordered(k, N, at)
    BY RepaintedIs DEF Ordered

LEMMA OrderedTree ==
    ASSUME NEW t, NEW N, NEW at, Ordered(t, N, at)
    PROVE  IsTree(t)
    BY DEF Ordered, IsShape

LEMMA OrderPainted ==
    ASSUME NEW t, NEW N, NEW at, Ordered(t, N, at), NEW n \in Ends
    PROVE  /\ Ordered(Black(t, n), N, at) /\ Ordered(Red(t, n), N, at)
           /\ Black(t, n).child = t.child /\ Red(t, n).child = t.child
<1>1. IsTree(t)
    BY OrderedTree
<1>2. Repainted(t, Black(t, n)) /\ Repainted(t, Red(t, n))
    BY <1>1, PaintedIs DEF Painted
<1> QED BY <1>2, OrderStays DEF Repainted

(* The parent is painted, then the grandparent, which is turned.           *)
LEMMA OrderPaintsTurn ==
    ASSUME NEW t, NEW N, NEW at, Ordered(t, N, at), NEW s \in Sides,
           NEW p \in Nodes, NEW g \in Nodes, NEW m \in Nodes, t.child[Other(s)][g] = m
    PROVE  Ordered(Rotate(Red(Black(t, p), g), s, g), N, at)
<1>1. p \in Ends /\ g \in Ends
    BY DEF Ends
<1>2. PICK k : k = Black(t, p)
    OBVIOUS
<1>3. Ordered(k, N, at) /\ k.child = t.child
    BY <1>1, <1>2, OrderPainted
<1>4. PICK l : l = Red(k, g)
    OBVIOUS
<1>5. Ordered(l, N, at) /\ l.child = t.child
    BY <1>1, <1>3, <1>4, OrderPainted
<1>6. Ordered(Rotate(l, s, g), N, at)
    BY <1>5, OrderTurns
<1> QED BY <1>2, <1>4, <1>6

LEMMA RecolorsOrder ==
    ASSUME NEW t, NEW n, Balancing(t, n), n # t.root, t.color[t.parent[n]] = "red",
           NEW p, p = t.parent[n], NEW g, g = t.parent[p],
           NEW w, w = t.child[Other(SideOf(t, p))][g],
           NEW N, NEW at, Ordered(t, N, at)
    PROVE  Ordered(Red(Black(Black(t, p), w), g), N, at)
<1>1. PICK s : s = SideOf(t, p)
    OBVIOUS
<1>2. p \in Ends /\ g \in Ends /\ w \in Ends
    BY <1>1, PairFacts DEF Ends, In
<1>3. PICK k : k = Black(t, p)
    OBVIOUS
<1>4. PICK l : l = Black(k, w)
    OBVIOUS
<1>5. Ordered(k, N, at)
    BY <1>2, <1>3, OrderPainted
<1>6. Ordered(l, N, at)
    BY <1>2, <1>4, <1>5, OrderPainted
<1>7. Ordered(Red(l, g), N, at)
    BY <1>2, <1>6, OrderPainted
<1> QED BY <1>3, <1>4, <1>7

(* The two rotations of a round: low is the lower node of the pair, u the  *)
(* tree between them and v the one they leave.                             *)
Straightens(t, n, s, low, u, v) ==
    /\ s = SideOf(t, t.parent[n])
    /\ low = IF n = t.child[Other(s)][t.parent[n]] THEN t.parent[n] ELSE n
    /\ u = IF n = t.child[Other(s)][t.parent[n]] THEN Rotate(t, s, low) ELSE t
    /\ v = Rotate(Red(Black(u, u.parent[low]), u.parent[u.parent[low]]),
                  Other(s), u.parent[u.parent[low]])

LEMMA RotatesOrder ==
    ASSUME NEW t, NEW n, Balancing(t, n), n # t.root, t.color[t.parent[n]] = "red",
           NEW N, NEW at, Ordered(t, N, at),
           NEW s, NEW low, NEW u, NEW v, Straightens(t, n, s, low, u, v)
    PROVE  Ordered(v, N, at)
<1>0. /\ s = SideOf(t, t.parent[n])
      /\ low = IF n = t.child[Other(s)][t.parent[n]] THEN t.parent[n] ELSE n
      /\ u = IF n = t.child[Other(s)][t.parent[n]] THEN Rotate(t, s, low) ELSE t
      /\ v = Rotate(Red(Black(u, u.parent[low]), u.parent[u.parent[low]]),
                    Other(s), u.parent[u.parent[low]])
    BY DEF Straightens
<1>1. PICK p : p = t.parent[n]
    OBVIOUS
<1>2. PICK g : g = t.parent[p]
    OBVIOUS
<1>3. PICK w : w = t.child[Other(s)][g]
    OBVIOUS
<1>4. s = SideOf(t, p)
    BY <1>0, <1>1
<1>5. /\ IsTree(t) /\ In(t) \subseteq Nodes
      /\ n \in In(t) /\ p \in In(t) /\ g \in In(t)
      /\ s \in Sides /\ t.child[s][g] = p /\ \E y \in Sides : t.child[y][p] = n
      /\ t.color[g] = "black"
    BY <1>1, <1>2, <1>3, <1>4, PairFacts
<1>6. /\ p \in Nodes /\ g \in Nodes /\ n \in Nodes /\ Shaped(t) /\ High(t, NULL)
      /\ t.color[n] = "red" /\ t.color[p] = "red" /\ RedRed(t) \subseteq {n}
    BY <1>1, <1>5 DEF Balancing
<1>7. Other(s) \in Sides /\ Other(Other(s)) = s
    BY <1>5, SidesAre
<1>8. CASE n = t.child[Other(s)][p]
  <2>1. low = p /\ u = Rotate(t, s, p) /\ t.child[Other(s)][p] = n
      BY <1>0, <1>1, <1>8
  <2>2. u.child[s][g] = n /\ u.parent[p] = n /\ u.parent[n] = g
      BY <1>5, <1>6, <2>1, InnerTurn
  <2>3. Ordered(u, N, at)
      BY <1>5, <1>6, <2>1, OrderTurns
  <2>4. Ordered(Rotate(Red(Black(u, n), g), Other(s), g), N, at)
      BY <1>6, <1>7, <2>2, <2>3, OrderPaintsTurn
  <2> QED BY <1>0, <2>1, <2>2, <2>4
<1>9. CASE n # t.child[Other(s)][p]
  <2>1. low = n /\ u = t /\ u.parent[low] = p /\ u.parent[p] = g
      BY <1>0, <1>1, <1>2, <1>9
  <2>2. Ordered(Rotate(Red(Black(t, p), g), Other(s), g), N, at)
      BY <1>5, <1>6, <1>7, OrderPaintsTurn
  <2> QED BY <1>0, <2>1, <2>2
<1> QED BY <1>8, <1>9

LEMMA BalanceOrder ==
    ASSUME TreeInv, InsertRecolors \/ InsertRotates \/ InsertEnds,
           NEW N, NEW at, Ordered(tree, N, at)
    PROVE  Ordered(tree', N, at)
<1>1. call.pc = "balance" /\ Balancing(tree, call.node)
    BY DEF TreeInv, InsertRecolors, InsertRotates, InsertEnds, RedPair
<1>2. PICK n : call.node = n
    OBVIOUS
<1>3. PICK p : p = tree.parent[n]
    OBVIOUS
<1>4. PICK g : g = tree.parent[p]
    OBVIOUS
<1>5. Balancing(tree, n) /\ Parent = p /\ Grand = g
    BY <1>1, <1>2, <1>3, <1>4 DEF Parent, Grand
<1>6. CASE InsertRecolors
  <2>1. PICK w : w = tree.child[Other(SideOf(tree, p))][g]
      OBVIOUS
  <2>2. Uncle = w
      BY <1>5, <2>1 DEF Uncle
  <2>3. n # tree.root /\ tree.color[tree.parent[n]] = "red"
      BY <1>2, <1>3, <1>5, <1>6 DEF InsertRecolors, RedPair, IsRed
  <2>4. PICK u : u = Red(Black(Black(tree, p), w), g)
      OBVIOUS
  <2>5. tree' = u
      BY <1>5, <1>6, <2>2, <2>4 DEF InsertRecolors
  <2>6. Ordered(u, N, at)
      BY <1>3, <1>4, <1>5, <2>1, <2>3, <2>4, RecolorsOrder
  <2> QED BY <2>5, <2>6
<1>7. CASE InsertRotates
  <2>1. PICK s : s = SideOf(tree, tree.parent[n])
      OBVIOUS
  <2>2. PICK low : low = IF n = tree.child[Other(s)][tree.parent[n]] THEN tree.parent[n] ELSE n
      OBVIOUS
  <2>3. PICK u : u = IF n = tree.child[Other(s)][tree.parent[n]] THEN Rotate(tree, s, low) ELSE tree
      OBVIOUS
  <2>4. PICK v : v = Rotate(Red(Black(u, u.parent[low]), u.parent[u.parent[low]]),
                            Other(s), u.parent[u.parent[low]])
      OBVIOUS
  <2>5. n # tree.root /\ tree.color[tree.parent[n]] = "red"
      BY <1>2, <1>3, <1>5, <1>7 DEF InsertRotates, RedPair, IsRed
  <2>6. tree' = v
      BY <1>2, <1>3, <1>5, <1>7, <2>1, <2>2, <2>3, <2>4 DEF InsertRotates
  <2>7. Straightens(tree, n, s, low, u, v)
      BY <2>1, <2>2, <2>3, <2>4 DEF Straightens
  <2>8. Ordered(v, N, at)
      BY <1>5, <2>5, <2>7, RotatesOrder
  <2> QED BY <2>6, <2>8
<1>8. CASE InsertEnds
  <2>1. tree.root \in Ends
    <3>1. IsTree(tree)
        BY OrderedTree
    <3> QED BY <3>1 DEF IsTree
  <2>2. tree' = Black(tree, tree.root)
      BY <1>8 DEF InsertEnds
  <2> QED BY <2>1, <2>2, OrderPainted
<1> QED BY <1>6, <1>7, <1>8

(* The rounds of the "delete fixup".                                       *)

LEMMA LiftedOrder ==
    ASSUME Fixing(tree, call.temp), DoubleBlack, NEW N, NEW at, Ordered(tree, N, at)
    PROVE  Ordered(Lifted, N, at)
<1>1. PICK x : x = call.temp
    OBVIOUS
<1>2. PICK p : p = tree.parent[x]
    OBVIOUS
<1>3. PICK s : s = SideOf(tree, x)
    OBVIOUS
<1>4. Fixing(tree, x) /\ x # tree.root /\ tree.color[x] # "red"
    BY <1>1 DEF DoubleBlack, IsBlack, IsRed
<1>5. /\ s \in Sides /\ p \in In(tree) /\ tree.child[Other(s)][p] \in In(tree)
    BY <1>2, <1>3, <1>4, Sibling
<1>6. PICK w \in In(tree) : w = tree.child[Other(s)][p]
    BY <1>5
<1>7. p \in Nodes /\ w \in Nodes
    BY <1>5, <1>6 DEF In
<1>8. PICK u : u = Rotate(Red(Black(tree, w), p), s, p)
    OBVIOUS
<1>9. Ordered(u, N, at)
    BY <1>5, <1>6, <1>7, <1>8, OrderPaintsTurn
<1>10. Lifted = u \/ Lifted = tree
    BY <1>1, <1>2, <1>3, <1>6, <1>8 DEF Lifted
<1> QED BY <1>9, <1>10

LEMMA OutwardsOrder ==
    ASSUME NEW t, NEW x, NEW s, NEW p \in Nodes, Lacking(t, x, s, p),
           NEW w \in Nodes, t.child[Other(s)][p] = w,
           IsRed(t, t.child[s][w]) \/ IsRed(t, t.child[Other(s)][w]),
           NEW N, NEW at, Ordered(t, N, at)
    PROVE  Ordered(Outwards(t, s, w), N, at)
<1>1. PICK near : t.child[s][w] = near
    OBVIOUS
<1>2. PICK far : t.child[Other(s)][w] = far
    OBVIOUS
<1>3. CASE t.color[far] = "red"
  <2>1. Outwards(t, s, w) = t
      BY <1>2, <1>3 DEF Outwards, IsBlack, IsRed
  <2> QED BY <2>1
<1>4. CASE t.color[far] # "red"
  <2>1. /\ s \in Sides /\ w \in In(t) /\ t.color[sentinel] = "black" /\ Shaped(t)
      BY DEF Lacking, High, Heights
  <2>2. near \in In(t) \cup {sentinel}
      BY <1>1, <2>1, ChildIn DEF Shaped
  <2>3. near \in Nodes
      BY <1>1, <1>2, <1>4, <2>1, <2>2 DEF IsRed, In
  <2>4. Other(s) \in Sides /\ Other(Other(s)) = s
      BY <2>1, SidesAre
  <2>5. PICK z : z = Rotate(Red(Black(t, near), w), Other(s), w)
      OBVIOUS
  <2>6. t.child[Other(Other(s))][w] = near
      BY <1>1, <2>4
  <2>7. Ordered(z, N, at)
      BY <2>3, <2>4, <2>5, <2>6, OrderPaintsTurn
  <2>8. Outwards(t, s, w) = z
      BY <1>1, <1>2, <1>4, <2>5 DEF Outwards, IsBlack, IsRed
  <2> QED BY <2>7, <2>8
<1> QED BY <1>3, <1>4

LEMMA AboveOrder ==
    ASSUME NEW t, NEW s \in Sides, NEW p \in Nodes, NEW v \in Nodes, NEW far \in Nodes,
           t.child[Other(s)][p] = v, t.child[Other(s)][v] = far, NEW N, NEW at, Ordered(t, N, at)
    PROVE  Ordered(Above(t, s, p, v), N, at)
<1>1. IsTree(t) /\ p # v /\ p # far /\ v # far
  <2>1. PICK pos, lo, hi : IsShape(t, N, at, pos, lo, hi)
      BY DEF Ordered
  <2>2. PICK o \in Sides : o = Other(s)
      BY SidesAre
  <2>3. p # v /\ v # far
      BY <2>1, <2>2, ChildOnce
  <2>4. p # far
      BY <2>1, <2>2, NoLoop
  <2> QED BY <2>3, <2>4, OrderedTree
<1>2. PICK k : k = Black(Black([t EXCEPT !.color[v] = t.color[p]], p), far)
    OBVIOUS
<1>3. Repainted(t, k)
    BY <1>1, <1>2, FarPaint
<1>4. Ordered(k, N, at) /\ k.child = t.child
    BY <1>3, OrderStays DEF Repainted
<1>5. Ordered(Rotate(k, s, p), N, at)
    BY <1>4, OrderTurns
<1>6. Above(t, s, p, v) = Rotate(k, s, p)
    BY <1>2 DEF Above
<1> QED BY <1>5, <1>6

LEMMA RoundOrder ==
    ASSUME Fixing(tree, call.temp), FixupRound, NEW N, NEW at, Ordered(tree, N, at)
    PROVE  Ordered(tree', N, at)
<1>1. PICK s : s = SideOf(tree, call.temp)
    OBVIOUS
<1>2. PICK p : p = tree.parent[call.temp]
    OBVIOUS
<1>3. PICK t : t = Lifted
    OBVIOUS
<1>4. Lacking(t, call.temp, s, p) /\ Ordered(t, N, at)
    BY <1>1, <1>2, <1>3, LiftedLacking, LiftedOrder DEF FixupRound
<1>5. PICK w : t.child[Other(s)][p] = w
    OBVIOUS
<1>6. PICK u : u = Outwards(t, s, w)
    OBVIOUS
<1>7. PICK v : u.child[Other(s)][p] = v
    OBVIOUS
<1>8. IF IsBlack(t, t.child[s][w]) /\ IsBlack(t, t.child[Other(s)][w])
        THEN tree' = Red(t, w)
        ELSE tree' = Above(u, s, p, v)
    BY <1>1, <1>2, <1>3, <1>5, <1>6, <1>7 DEF FixupRound, DoubleBlack, Outwards, Above
<1>9. s \in Sides /\ p \in Nodes /\ w \in Nodes
  <2>1. s \in Sides /\ p \in In(t) /\ w \in In(t)
      BY <1>4, <1>5 DEF Lacking
  <2> QED BY <2>1 DEF In
<1>10. CASE IsBlack(t, t.child[s][w]) /\ IsBlack(t, t.child[Other(s)][w])
  <2>1. Ordered(Red(t, w), N, at)
      BY <1>4, <1>9, OrderPainted DEF Ends
  <2> QED BY <1>8, <1>10, <2>1
<1>11. CASE IsRed(t, t.child[s][w]) \/ IsRed(t, t.child[Other(s)][w])
  <2>1. Ordered(u, N, at)
      BY <1>4, <1>5, <1>6, <1>9, <1>11, OutwardsOrder
  <2>2. PICK far \in Nodes : v \in Nodes /\ u.child[Other(s)][v] = far
      BY <1>4, <1>5, <1>6, <1>7, <1>9, <1>11, OutwardsFar
  <2>3. PICK r : r = Above(u, s, p, v)
      OBVIOUS
  <2>4. Ordered(r, N, at)
      BY <1>7, <1>9, <2>1, <2>2, <2>3, AboveOrder
  <2> QED BY <1>8, <1>11, <2>3, <2>4 DEF IsBlack
<1> QED BY <1>10, <1>11 DEF IsBlack

LEMMA FixupOrder ==
    ASSUME TreeInv, FixupRound \/ FixupEnds, NEW N, NEW at, Ordered(tree, N, at)
    PROVE  Ordered(tree', N, at)
<1>1. call.pc = "fixup" /\ Fixing(tree, call.temp)
    BY DEF TreeInv, FixupRound, FixupEnds, DoubleBlack
<1>2. CASE FixupRound
    BY <1>1, <1>2, RoundOrder
<1>3. CASE FixupEnds
  <2>1. call.temp \in Ends
      BY <1>1 DEF Fixing, In, Ends
  <2>2. Ordered(Black(tree, call.temp), N, at)
      BY <2>1, OrderPainted
  <2> QED BY <1>3, <2>2 DEF FixupEnds
<1> QED BY <1>2, <1>3
-----------------------------------------------------------------------------
(* The comparison of the code and the order in which the timers are due.   *)

Rank(n) == (KeyOf[n] - Origin + Word) % Word

LEMMA Wraps ==
    ASSUME NEW k \in 0 .. Word - 1
    PROVE  k % Word = k /\ (k + Word) % Word = k
    BY WordAssumption, Z3

LEMMA Difference ==
    ASSUME NEW a \in 0 .. Word - 1, NEW b \in 0 .. Word - 1
    PROVE  (a - b + Word) % Word = IF b <= a THEN a - b ELSE a - b + Word
<1>1. CASE b <= a
  <2>1. a - b \in 0 .. Word - 1
      BY <1>1, WordAssumption
  <2> QED BY <1>1, <2>1, Wraps
<1>2. CASE a < b
  <2>1. a - b + Word \in 0 .. Word - 1
      BY <1>2, WordAssumption
  <2> QED BY <1>2, <2>1, Wraps
<1> QED BY <1>1, <1>2, WordAssumption

LEMMA OriginIs ==
    /\ Origin \in 0 .. Word - 1
    /\ Timer => \A n \in Nodes : 2 * Rank(n) < Word
    /\ ~Timer => Origin = 0
<1>1. CASE Timer
  <2>1. \E first \in 0 .. Word - 1 :
           \A n \in Nodes : 2 * ((KeyOf[n] - first + Word) % Word) < Word
      BY <1>1, SpreadAssumption
  <2>2. Origin = CHOOSE first \in 0 .. Word - 1 :
                   \A n \in Nodes : 2 * ((KeyOf[n] - first + Word) % Word) < Word
      BY <1>1, Zenon DEF Origin
  <2>3. Origin \in 0 .. Word - 1 /\ \A n \in Nodes : 2 * ((KeyOf[n] - Origin + Word) % Word) < Word
      BY <2>1, <2>2, Zenon
  <2> QED BY <1>1, <2>3 DEF Rank
<1>2. CASE ~Timer
    BY <1>2, WordAssumption DEF Origin
<1> QED BY <1>1, <1>2

LEMMA RankIs ==
    ASSUME NEW n \in Nodes
    PROVE  /\ Rank(n) \in Nat
           /\ Rank(n) = IF Origin <= KeyOf[n] THEN KeyOf[n] - Origin ELSE KeyOf[n] - Origin + Word
<1>1. KeyOf[n] \in 0 .. Word - 1 /\ Origin \in 0 .. Word - 1
    BY KeysAssumption, OriginIs
<1> QED BY <1>1, Difference, WordAssumption DEF Rank

(* The sign of a difference in w bits tells the order of the timers, as    *)
(* they are spread over less than half of the range.                       *)
LEMMA LessIsBefore ==
    ASSUME NEW a \in Nodes, NEW b \in Nodes
    PROVE  /\ Less(a, b) <=> Rank(a) < Rank(b)
           /\ Before(a, b) <=> Rank(a) < Rank(b)
<1>1. /\ KeyOf[a] \in 0 .. Word - 1 /\ KeyOf[b] \in 0 .. Word - 1 /\ Origin \in 0 .. Word - 1
    BY KeysAssumption, OriginIs
<1>2. /\ Rank(a) = IF Origin <= KeyOf[a] THEN KeyOf[a] - Origin ELSE KeyOf[a] - Origin + Word
      /\ Rank(b) = IF Origin <= KeyOf[b] THEN KeyOf[b] - Origin ELSE KeyOf[b] - Origin + Word
    BY RankIs
<1>3. Less(a, b) <=> Rank(a) < Rank(b)
  <2>1. CASE Timer
    <3>1. 2 * Rank(a) < Word /\ 2 * Rank(b) < Word
        BY <2>1, OriginIs
    <3>2. (KeyOf[a] - KeyOf[b] + Word) % Word
            = IF KeyOf[b] <= KeyOf[a] THEN KeyOf[a] - KeyOf[b] ELSE KeyOf[a] - KeyOf[b] + Word
        BY <1>1, Difference
    <3>3. PICK d : d = (KeyOf[a] - KeyOf[b] + Word) % Word
        OBVIOUS
    <3>4. Less(a, b) <=> 2 * d >= Word
        BY <2>1, <3>3 DEF Less
    <3>5. PICK ra : ra = Rank(a)
        OBVIOUS
    <3>6. PICK rb : rb = Rank(b)
        OBVIOUS
    <3>7. 2 * d >= Word <=> ra < rb
        BY <1>1, <1>2, <3>1, <3>2, <3>3, <3>5, <3>6, WordAssumption
    <3> QED BY <3>4, <3>5, <3>6, <3>7
  <2>2. CASE ~Timer
      BY <1>1, <1>2, <2>2, OriginIs DEF Less
  <2> QED BY <2>1, <2>2
<1> QED BY <1>3 DEF Before, Rank

-----------------------------------------------------------------------------
(* A list with an element more, and one with an element less.              *)

With(w, n, q) == SubSeq(w, 1, q - 1) \o <<n>> \o SubSeq(w, q, Len(w))
Without(w, q) == SubSeq(w, 1, q - 1) \o SubSeq(w, q + 1, Len(w))

Lists(N, at) == N \in Nat /\ at \in [1 .. N -> Nodes]
Listed(N, at) == [i \in 1 .. N |-> at[i]]

LEMMA PieceIs ==
    ASSUME NEW N \in Nat, NEW w \in Seq(Nodes), Len(w) = N,
           NEW a \in Int, NEW b \in Int, 1 <= a, a <= b + 1, b <= N,
           NEW x, x = SubSeq(w, a, b)
    PROVE  x \in Seq(Nodes) /\ Len(x) = b - a + 1 /\ \A i \in 1 .. b - a + 1 : x[i] = w[a + i - 1]
<1>1. \A i \in a .. b : w[i] \in Nodes
    OBVIOUS
<1>2. /\ x \in Seq(Nodes) /\ Len(x) = (IF a <= b THEN b - a + 1 ELSE 0)
      /\ \A i \in 1 .. b - a + 1 : x[i] = w[a + i - 1]
    BY <1>1, SubSeqProperties
<1> QED BY <1>2

LEMMA SpreadList ==
    ASSUME NEW N, NEW at, Lists(N, at), NEW n \in Nodes, NEW q \in 1 .. N + 1,
           NEW w, Listed(N, at) = w, NEW v, Listed(N + 1, SpreadAt(at, N, n, q)) = v
    PROVE  v = With(w, n, q)
<1>0. N \in Nat /\ at \in [1 .. N -> Nodes]
    BY DEF Lists
<1>1. w \in Seq(Nodes) /\ Len(w) = N /\ \A i \in 1 .. N : w[i] = at[i] /\ at[i] \in Nodes
    BY <1>0 DEF Listed
<1>2. q \in Int /\ 1 <= q /\ q <= N + 1 /\ q - 1 \in Int
    BY <1>0
<1>3. PICK x : x = SubSeq(w, 1, q - 1)
    OBVIOUS
<1>4. x \in Seq(Nodes) /\ Len(x) = q - 1 /\ \A i \in 1 .. q - 1 : x[i] = at[i]
  <2>1. PICK k \in Nat : k = q - 1
      BY <1>0, <1>2
  <2>2. x \in Seq(Nodes) /\ Len(x) = k - 1 + 1 /\ \A i \in 1 .. k - 1 + 1 : x[i] = w[1 + i - 1]
    <3>1. x = SubSeq(w, 1, k) /\ 1 <= k + 1 /\ k <= N
        BY <1>0, <1>2, <1>3, <2>1
    <3> QED BY <1>1, <3>1, PieceIs
  <2>3. Len(x) = k
      BY <2>2
  <2>4. ASSUME NEW i \in 1 .. k PROVE x[i] = at[i]
    <3>1. i \in 1 .. k - 1 + 1 /\ 1 + i - 1 = i /\ i \in 1 .. N
        BY <1>0, <1>2, <2>1
    <3>2. x[i] = w[1 + i - 1]
        BY <2>2, <3>1
    <3> QED BY <1>1, <3>1, <3>2
  <2> QED BY <2>1, <2>2, <2>3, <2>4
<1>5. PICK y : y = SubSeq(w, q, N)
    OBVIOUS
<1>6. y \in Seq(Nodes) /\ Len(y) = N - q + 1 /\ \A i \in 1 .. N - q + 1 : y[i] = at[q + i - 1]
  <2>1. y \in Seq(Nodes) /\ Len(y) = N - q + 1 /\ \A i \in 1 .. N - q + 1 : y[i] = w[q + i - 1]
      BY <1>0, <1>1, <1>2, <1>5, PieceIs
  <2> QED BY <1>0, <1>1, <1>2, <2>1
<1>7. PICK one : one = <<n>>
    OBVIOUS
<1>8. one \in Seq(Nodes) /\ Len(one) = 1 /\ one[1] = n
    BY <1>7
<1>9. PICK xn : xn = x \o one
    OBVIOUS
<1>10. xn \in Seq(Nodes) /\ Len(xn) = q
       /\ \A i \in 1 .. q : xn[i] = IF i < q THEN at[i] ELSE n
  <2>1. xn \in Seq(Nodes) /\ Len(xn) = Len(x) + Len(one)
        /\ \A i \in 1 .. Len(x) + Len(one) : xn[i] = IF i <= Len(x) THEN x[i] ELSE one[i - Len(x)]
      BY <1>4, <1>8, <1>9, ConcatProperties
  <2> QED BY <1>0, <1>2, <1>4, <1>8, <2>1
<1>11. PICK z : z = xn \o y
    OBVIOUS
<1>12. z \in Seq(Nodes) /\ Len(z) = N + 1
       /\ \A i \in 1 .. N + 1 : z[i] = IF i < q THEN at[i] ELSE IF i = q THEN n ELSE at[i - 1]
  <2>1. z \in Seq(Nodes) /\ Len(z) = Len(xn) + Len(y)
        /\ \A i \in 1 .. Len(xn) + Len(y) : z[i] = IF i <= Len(xn) THEN xn[i] ELSE y[i - Len(xn)]
      BY <1>6, <1>10, <1>11, ConcatProperties
  <2>2. Len(z) = N + 1
      BY <1>0, <1>2, <1>6, <1>10, <2>1
  <2>3. ASSUME NEW i \in 1 .. N + 1
        PROVE  z[i] = IF i < q THEN at[i] ELSE IF i = q THEN n ELSE at[i - 1]
    <3>1. z[i] = IF i <= q THEN xn[i] ELSE y[i - q]
        BY <1>0, <1>2, <1>6, <1>10, <2>1
    <3>2. CASE i <= q
        BY <1>0, <1>2, <1>10, <3>1, <3>2
    <3>3. CASE i > q
      <4>1. i - q \in 1 .. N - q + 1 /\ q + (i - q) - 1 = i - 1
          BY <1>0, <1>2, <3>3
      <4> QED BY <1>0, <1>2, <1>6, <3>1, <3>3, <4>1
    <3> QED BY <1>0, <1>2, <3>2, <3>3
  <2> QED BY <2>1, <2>2, <2>3
<1>13. v \in Seq(Nodes) /\ Len(v) = N + 1
       /\ \A i \in 1 .. N + 1 : v[i] = IF i < q THEN at[i] ELSE IF i = q THEN n ELSE at[i - 1]
  <2>1. \A i \in 1 .. N + 1 : v[i] = IF i < q THEN at[i] ELSE IF i = q THEN n ELSE at[i - 1]
      BY DEF Listed, SpreadAt
  <2>2. \A i \in 1 .. N + 1 : v[i] \in Nodes
      BY <1>0, <1>1, <1>2, <2>1
  <2>3. v \in [1 .. N + 1 -> Nodes] /\ N + 1 \in Nat
      BY <1>0, <1>2, <2>2 DEF Listed
  <2> QED BY <2>1, <2>3
<1>14. v = z
    BY <1>12, <1>13, SeqEqual
<1> QED BY <1>1, <1>3, <1>5, <1>7, <1>9, <1>11, <1>14 DEF With

LEMMA ClosedList ==
    ASSUME NEW N, NEW at, Lists(N, at), NEW q \in 1 .. N,
           NEW w, Listed(N, at) = w, NEW v, Listed(N - 1, ClosedAt(at, N, q)) = v
    PROVE  v = Without(w, q)
<1>0. N \in Nat /\ at \in [1 .. N -> Nodes]
    BY DEF Lists
<1>1. w \in Seq(Nodes) /\ Len(w) = N /\ \A i \in 1 .. N : w[i] = at[i] /\ at[i] \in Nodes
    BY <1>0 DEF Listed
<1>2. q \in Int /\ 1 <= q /\ q <= N /\ q - 1 \in Int /\ q + 1 \in Int
    BY <1>0
<1>3. PICK x : x = SubSeq(w, 1, q - 1)
    OBVIOUS
<1>4. x \in Seq(Nodes) /\ Len(x) = q - 1 /\ \A i \in 1 .. q - 1 : x[i] = at[i]
  <2>1. PICK k \in Nat : k = q - 1
      BY <1>0, <1>2
  <2>2. x \in Seq(Nodes) /\ Len(x) = k - 1 + 1 /\ \A i \in 1 .. k - 1 + 1 : x[i] = w[1 + i - 1]
    <3>1. x = SubSeq(w, 1, k) /\ 1 <= k + 1 /\ k <= N
        BY <1>0, <1>2, <1>3, <2>1
    <3> QED BY <1>1, <3>1, PieceIs
  <2>3. Len(x) = k
      BY <2>2
  <2>4. ASSUME NEW i \in 1 .. k PROVE x[i] = at[i]
    <3>1. i \in 1 .. k - 1 + 1 /\ 1 + i - 1 = i /\ i \in 1 .. N
        BY <1>0, <1>2, <2>1
    <3>2. x[i] = w[1 + i - 1]
        BY <2>2, <3>1
    <3> QED BY <1>1, <3>1, <3>2
  <2> QED BY <2>1, <2>2, <2>3, <2>4
<1>5. PICK y : y = SubSeq(w, q + 1, N)
    OBVIOUS
<1>6. y \in Seq(Nodes) /\ Len(y) = N - q /\ \A i \in 1 .. N - q : y[i] = at[q + i]
  <2>1. PICK k \in Nat : k = q + 1
      BY <1>0, <1>2
  <2>2. y \in Seq(Nodes) /\ Len(y) = N - k + 1 /\ \A i \in 1 .. N - k + 1 : y[i] = w[k + i - 1]
    <3>1. y = SubSeq(w, k, N) /\ 1 <= k /\ k <= N + 1 /\ k \in Int /\ N \in Int
        BY <1>0, <1>2, <1>5, <2>1
    <3> QED BY <1>1, <3>1, PieceIs
  <2>3. Len(y) = N - q
      BY <1>0, <1>2, <2>1, <2>2
  <2>4. ASSUME NEW i \in 1 .. N - q PROVE y[i] = at[q + i]
    <3>1. i \in 1 .. N - k + 1 /\ k + i - 1 = q + i /\ q + i \in 1 .. N
        BY <1>0, <1>2, <2>1
    <3>2. y[i] = w[k + i - 1]
        BY <2>2, <3>1
    <3> QED BY <1>1, <3>1, <3>2
  <2> QED BY <2>2, <2>3, <2>4
<1>7. PICK z : z = x \o y
    OBVIOUS
<1>8. z \in Seq(Nodes) /\ Len(z) = N - 1
      /\ \A i \in 1 .. N - 1 : z[i] = IF i < q THEN at[i] ELSE at[i + 1]
  <2>1. z \in Seq(Nodes) /\ Len(z) = Len(x) + Len(y)
        /\ \A i \in 1 .. Len(x) + Len(y) : z[i] = IF i <= Len(x) THEN x[i] ELSE y[i - Len(x)]
      BY <1>4, <1>6, <1>7, ConcatProperties
  <2>2. Len(z) = N - 1
      BY <1>0, <1>2, <1>4, <1>6, <2>1
  <2>3. ASSUME NEW i \in 1 .. N - 1 PROVE z[i] = IF i < q THEN at[i] ELSE at[i + 1]
    <3>1. z[i] = IF i <= q - 1 THEN x[i] ELSE y[i - (q - 1)]
        BY <1>0, <1>2, <1>4, <1>6, <2>1
    <3>2. CASE i <= q - 1
        BY <1>0, <1>2, <1>4, <3>1, <3>2
    <3>3. CASE i > q - 1
      <4>1. i - (q - 1) \in 1 .. N - q /\ q + (i - (q - 1)) = i + 1
          BY <1>0, <1>2, <3>3
      <4> QED BY <1>0, <1>2, <1>6, <3>1, <3>3, <4>1
    <3> QED BY <1>0, <1>2, <3>2, <3>3
  <2> QED BY <2>1, <2>2, <2>3
<1>9. v \in Seq(Nodes) /\ Len(v) = N - 1
      /\ \A i \in 1 .. N - 1 : v[i] = IF i < q THEN at[i] ELSE at[i + 1]
  <2>1. \A i \in 1 .. N - 1 : v[i] = IF i < q THEN at[i] ELSE at[i + 1]
      BY DEF Listed, ClosedAt
  <2>2. \A i \in 1 .. N - 1 : v[i] \in Nodes
      BY <1>0, <1>1, <1>2, <2>1
  <2>3. v \in [1 .. N - 1 -> Nodes] /\ N - 1 \in Nat
      BY <1>0, <1>2, <2>2 DEF Listed
  <2> QED BY <2>1, <2>3
<1>10. v = z
    BY <1>8, <1>9, SeqEqual
<1> QED BY <1>1, <1>3, <1>5, <1>7, <1>10 DEF Without

-----------------------------------------------------------------------------
(* The steps of the sorted list.                                           *)

(* Walk lists the nodes in their order.                                    *)
WalkInv == \A N, at : Ordered(tree, N, at) => Walk = Listed(N, at)

LEMMA WalkFollows == WalkInv
    BY WalkAt DEF WalkInv, Ordered, Listed

Sorts(N, at) == \A i, j \in 1 .. N : i < j => ~Before(at[j], at[i])

(* The nodes before place q are no later than n, those from q on are later.*)
Fits(N, at, n, q) ==
    \A i \in 1 .. N : /\ i < q => ~Before(n, at[i])
                      /\ i >= q => Before(n, at[i])

LEMMA OrderedFacts ==
    ASSUME NEW t, NEW N, NEW at, Ordered(t, N, at)
    PROVE  /\ N \in Nat /\ at \in [1 .. N -> Nodes] /\ Lists(N, at)
           /\ \A i \in 1 .. N : at[i] \in In(t) /\ at[i] \in Nodes
           /\ \A i, j \in 1 .. N : at[i] = at[j] => i = j
    BY DEF Ordered, IsShape, Placed, Lists

LEMMA Stays ==
    ASSUME WalkInv, WalkInv', NEW N, NEW at, Ordered(tree, N, at), Ordered(tree', N, at)
    PROVE  Walk' = Walk
    BY DEF WalkInv

LEMMA Inserts ==
    ASSUME WalkInv, WalkInv', NEW N, NEW at, Ordered(tree, N, at),
           NEW n \in Nodes, n \notin In(tree), NEW q \in 1 .. N + 1,
           Ordered(tree', N + 1, SpreadAt(at, N, n, q)), Fits(N, at, n, q)
    PROVE  Sorted!Insert(n)
<1>1. N \in Nat /\ at \in [1 .. N -> Nodes] /\ Lists(N, at) /\ \A i \in 1 .. N : at[i] # n
    BY OrderedFacts
<1>2. PICK w : Listed(N, at) = w
    OBVIOUS
<1>3. Walk = w
    BY <1>2 DEF WalkInv
<1>4. PICK v : Listed(N + 1, SpreadAt(at, N, n, q)) = v
    OBVIOUS
<1>5. Walk' = v
    BY <1>4 DEF WalkInv
<1>6. v = With(w, n, q)
    BY <1>1, <1>2, <1>4, SpreadList
<1>7. Len(w) = N /\ \A i \in 1 .. N : w[i] = at[i]
    BY <1>1, <1>2 DEF Listed
<1>8. PICK p \in 0 .. N : p = q - 1 /\ p + 1 = q
    BY <1>1
<1>9. /\ \A i \in 1 .. p : ~Before(n, w[i])
      /\ \A i \in p + 1 .. Len(w) : Before(n, w[i])
    BY <1>1, <1>7, <1>8 DEF Fits
<1>10. ~ \E i \in 1 .. Len(w) : w[i] = n
    BY <1>1, <1>7
<1>11. v = SubSeq(w, 1, p) \o <<n>> \o SubSeq(w, p + 1, Len(w))
    BY <1>6, <1>8 DEF With
<1> QED BY <1>3, <1>5, <1>7, <1>8, <1>9, <1>10, <1>11 DEF Sorted!Insert, Sorted!Has, Sorted!Upto, Sorted!From

LEMMA Removes ==
    ASSUME WalkInv, WalkInv', NEW N, NEW at, Ordered(tree, N, at),
           NEW q \in 1 .. N, Ordered(tree', N - 1, ClosedAt(at, N, q))
    PROVE  Sorted!Delete(at[q])
<1>1. N \in Nat /\ at \in [1 .. N -> Nodes] /\ Lists(N, at)
    BY OrderedFacts
<1>2. PICK w : Listed(N, at) = w
    OBVIOUS
<1>3. Walk = w
    BY <1>2 DEF WalkInv
<1>4. PICK v : Listed(N - 1, ClosedAt(at, N, q)) = v
    OBVIOUS
<1>5. Walk' = v
    BY <1>4 DEF WalkInv
<1>6. v = Without(w, q)
    BY <1>1, <1>2, <1>4, ClosedList
<1>7. Len(w) = N /\ w[q] = at[q]
    BY <1>1, <1>2 DEF Listed
<1> QED BY <1>3, <1>5, <1>6, <1>7 DEF Without, Sorted!Delete, Sorted!Upto, Sorted!From

(* How a place in the order bears on a node that is let in or taken out.   *)

LEMMA SpreadSorts ==
    ASSUME NEW N \in Nat, NEW at \in [1 .. N -> Nodes], Sorts(N, at),
           NEW n \in Nodes, NEW q \in 1 .. N + 1, Fits(N, at, n, q)
    PROVE  Sorts(N + 1, SpreadAt(at, N, n, q))
<1>1. PICK f : f = SpreadAt(at, N, n, q)
    OBVIOUS
<1>2. \A i \in 1 .. N + 1 : f[i] = IF i < q THEN at[i] ELSE IF i = q THEN n ELSE at[i - 1]
    BY <1>1 DEF SpreadAt
<1>3. ASSUME NEW i \in 1 .. N + 1, NEW j \in 1 .. N + 1, i < j PROVE ~Before(f[j], f[i])
  <2>1. q \in Int /\ i \in Int /\ j \in Int /\ i < j
      BY <1>3
  <2>2. CASE j < q
    <3>1. f[j] = at[j] /\ f[i] = at[i] /\ i \in 1 .. N /\ j \in 1 .. N
        BY <1>2, <2>1, <2>2
    <3> QED BY <2>1, <3>1 DEF Sorts
  <2>3. CASE j = q
    <3>1. f[j] = n /\ f[i] = at[i] /\ i \in 1 .. N /\ i < q
        BY <1>2, <2>1, <2>3
    <3> QED BY <3>1 DEF Fits
  <2>4. CASE j > q /\ i < q
    <3>1. f[j] = at[j - 1] /\ f[i] = at[i] /\ i \in 1 .. N /\ j - 1 \in 1 .. N /\ i < j - 1
        BY <1>2, <2>1, <2>4
    <3> QED BY <3>1 DEF Sorts
  <2>5. CASE j > q /\ i = q
    <3>1. f[j] = at[j - 1] /\ f[i] = n /\ j - 1 \in 1 .. N /\ j - 1 >= q
        BY <1>2, <2>1, <2>5
    <3>2. Before(n, at[j - 1]) /\ at[j - 1] \in Nodes
        BY <3>1 DEF Fits
    <3>3. ~Before(at[j - 1], n)
        BY <3>2, LessIsBefore, RankIs
    <3> QED BY <3>1, <3>3
  <2>6. CASE i > q
    <3>1. f[j] = at[j - 1] /\ f[i] = at[i - 1] /\ i - 1 \in 1 .. N /\ j - 1 \in 1 .. N /\ i - 1 < j - 1
        BY <1>2, <2>1, <2>6
    <3> QED BY <3>1 DEF Sorts
  <2> QED BY <2>1, <2>2, <2>3, <2>4, <2>5, <2>6
<1> QED BY <1>1, <1>3 DEF Sorts

LEMMA ClosedSorts ==
    ASSUME NEW N \in Nat, NEW at, Sorts(N, at), NEW q \in 1 .. N
    PROVE  Sorts(N - 1, ClosedAt(at, N, q))
<1>1. PICK f : f = ClosedAt(at, N, q)
    OBVIOUS
<1>2. PICK g : g = [i \in 1 .. N - 1 |-> IF i < q THEN i ELSE i + 1]
    OBVIOUS
<1>3. \A i \in 1 .. N - 1 : f[i] = at[g[i]] /\ g[i] \in 1 .. N
    BY <1>1, <1>2 DEF ClosedAt
<1>4. \A i, j \in 1 .. N - 1 : i < j => g[i] < g[j]
    BY <1>2
<1> QED BY <1>1, <1>3, <1>4 DEF Sorts

-----------------------------------------------------------------------------
(* The invariant: the nodes stand in the order in which they are due, and  *)
(* a node that descends belongs in the span of the node it has come to.    *)

Between(N, at, n, a, b) ==
    \A i \in 1 .. N : /\ i < a => ~Before(n, at[i])
                      /\ i > b => Before(n, at[i])

SortInv ==
    \E N, at, pos, lo, hi :
        /\ IsShape(tree, N, at, pos, lo, hi)
        /\ Sorts(N, at)
        /\ call.pc = "descend" => Between(N, at, call.node, lo[call.temp], hi[call.temp])

LEMMA SortedOrder ==
    ASSUME SortInv PROVE \E N, at : Ordered(tree, N, at) /\ Sorts(N, at)
    BY DEF SortInv, Ordered

LEMMA OrderSorted ==
    ASSUME NEW N, NEW at, Ordered(tree', N, at), Sorts(N, at), call'.pc # "descend"
    PROVE  SortInv'
<1>1. PICK pos, lo, hi : IsShape(tree', N, at, pos, lo, hi)
    BY DEF Ordered
<1> QED BY <1>1 DEF SortInv

(* The comparison with the node m sends n to one side of it.               *)
LEMMA SideBetween ==
    ASSUME NEW N, NEW at, Lists(N, at), Sorts(N, at), NEW n \in Nodes, NEW a \in Int, NEW b \in Int,
           Between(N, at, n, a, b), NEW k \in 1 .. N
    PROVE  /\ Less(n, at[k]) => Between(N, at, n, a, k - 1)
           /\ ~Less(n, at[k]) => Between(N, at, n, k + 1, b)
<1>1. \A i \in 1 .. N : /\ at[i] \in Nodes /\ Rank(at[i]) \in Nat
                        /\ Before(n, at[i]) <=> Rank(n) < Rank(at[i])
    BY LessIsBefore, RankIs DEF Lists
<1>2. Rank(n) \in Nat /\ (Less(n, at[k]) <=> Rank(n) < Rank(at[k]))
    BY <1>1, LessIsBefore, RankIs
<1>3. \A i, j \in 1 .. N : i <= j => Rank(at[i]) <= Rank(at[j])
  <2>1. ASSUME NEW i \in 1 .. N, NEW j \in 1 .. N, i < j PROVE Rank(at[i]) <= Rank(at[j])
    <3>1. ~Before(at[j], at[i])
        BY <2>1 DEF Sorts
    <3> QED BY <1>1, <3>1, LessIsBefore
  <2> QED BY <1>1, <2>1
<1>4. ASSUME Less(n, at[k]), NEW i \in 1 .. N, i > k - 1 PROVE Before(n, at[i])
  <2>1. k <= i
      BY <1>4
  <2>2. Rank(at[k]) <= Rank(at[i]) /\ Rank(n) < Rank(at[k])
      BY <1>2, <1>3, <1>4, <2>1
  <2> QED BY <1>1, <1>2, <2>2
<1>5. ASSUME ~Less(n, at[k]), NEW i \in 1 .. N, i < k + 1 PROVE ~Before(n, at[i])
  <2>1. i <= k
      BY <1>5
  <2>2. Rank(at[i]) <= Rank(at[k]) /\ ~(Rank(n) < Rank(at[k]))
      BY <1>2, <1>3, <1>5, <2>1
  <2> QED BY <1>1, <1>2, <2>2
<1> QED BY <1>4, <1>5 DEF Between

LEMMA BetweenFits ==
    ASSUME NEW N, NEW at, Lists(N, at), NEW n, NEW q \in Int, Between(N, at, n, q, q - 1)
    PROVE  Fits(N, at, n, q)
    BY DEF Between, Fits, Lists

LEMMA FirstSorts ==
    ASSUME TreeInv, SortInv, WalkInv, WalkInv', NEW n \in Nodes, rbtree_insert(n), tree.root = sentinel
    PROVE  SortInv' /\ Sorted!Insert(n)
<1>1. call = Idle /\ n \notin In(tree)
    BY DEF rbtree_insert, InTree, In
<1>2. Settled(tree)
    BY <1>1 DEF TreeInv, Idle
<1>3. PICK N, at : Ordered(tree, N, at) /\ Sorts(N, at)
    BY SortedOrder
<1>4. N = 0
  <2>1. In(tree) = {}
    <3>1. PICK pos, lo, hi : IsShape(tree, N, at, pos, lo, hi)
        BY <1>3 DEF Ordered
    <3> QED BY <3>1 DEF IsShape, Spans
  <2> QED BY <1>3, <2>1, OrderedFacts
<1>5. PICK u : u = [Hang(tree, n, NULL, "black") EXCEPT !.root = n]
    OBVIOUS
<1>6. tree' = u /\ call' = call
    BY <1>5 DEF rbtree_insert
<1>7. Ordered(u, 1, [i \in 1 .. 1 |-> n])
    BY <1>2, <1>5, FirstSettled
<1>8. PICK f : f = SpreadAt(at, 0, n, 1)
    OBVIOUS
<1>9. f = [i \in 1 .. 1 |-> n]
  <2>1. f = [i \in 1 .. 0 + 1 |-> IF i < 1 THEN at[i] ELSE IF i = 1 THEN n ELSE at[i - 1]]
      BY <1>8 DEF SpreadAt
  <2>2. DOMAIN f = 1 .. 1 /\ f[1] = n /\ \A i \in 1 .. 1 : f[i] = n
      BY <2>1
  <2> QED BY <2>1, <2>2
<1>10. Ordered(u, 0 + 1, f)
    BY <1>7, <1>9
<1>11. Fits(0, at, n, 1)
    BY DEF Fits
<1>12. 1 \in 1 .. 0 + 1 /\ 0 \in Nat
    OBVIOUS
<1>13. Ordered(tree, 0, at) /\ Ordered(tree', 0 + 1, SpreadAt(at, 0, n, 1))
    BY <1>3, <1>4, <1>6, <1>8, <1>10
<1>14. Sorted!Insert(n)
    BY <1>1, <1>11, <1>12, <1>13, Inserts
<1>15. Sorts(0 + 1, SpreadAt(at, 0, n, 1))
  <2>1. at \in [1 .. 0 -> Nodes] /\ Sorts(0, at)
      BY <1>3, <1>4, OrderedFacts
  <2> QED BY <1>11, <1>12, <2>1, SpreadSorts
<1>16. call'.pc # "descend"
    BY <1>1, <1>6 DEF Idle
<1>17. SortInv'
    BY <1>13, <1>15, <1>16, OrderSorted
<1> QED BY <1>14, <1>17

LEMMA BeginSorts ==
    ASSUME TreeInv, SortInv, WalkInv, WalkInv', NEW n \in Nodes, rbtree_insert(n), tree.root # sentinel
    PROVE  SortInv' /\ Walk' = Walk
<1>1. call' = [pc |-> "descend", node |-> n, temp |-> tree.root] /\ tree' = tree
    BY DEF rbtree_insert
<1>2. PICK N, at, pos, lo, hi : IsShape(tree, N, at, pos, lo, hi) /\ Sorts(N, at)
    BY DEF SortInv
<1>3. tree.root \in Nodes /\ lo[tree.root] = 1 /\ hi[tree.root] = N /\ N \in Nat
    BY <1>2 DEF IsShape, Spans, IsTree, Ends, Placed
<1>4. Between(N, at, n, 1, N)
    BY <1>3 DEF Between
<1>5. call'.node = n /\ call'.temp = tree.root
    BY <1>1
<1>6. SortInv'
    BY <1>1, <1>2, <1>3, <1>4, <1>5 DEF SortInv
<1>7. Ordered(tree, N, at) /\ Ordered(tree', N, at)
    BY <1>1, <1>2 DEF Ordered
<1> QED BY <1>6, <1>7, Stays

LEMMA DescendSorts ==
    ASSUME TreeInv, SortInv, WalkInv, WalkInv', rbtree_insert_value
    PROVE  SortInv' /\ (Walk' = Walk \/ \E n \in Nodes : Sorted!Insert(n))
<1>1. /\ CallOK /\ call.pc = "descend" /\ Settled(tree)
      /\ call.node \in Nodes \ In(tree) /\ call.temp \in In(tree)
    BY DEF TreeInv, rbtree_insert_value
<1>2. PICK n \in Nodes \ In(tree) : call.node = n
    BY <1>1
<1>3. PICK up \in In(tree) : call.temp = up
    BY <1>1
<1>4. PICK s \in Sides : s = IF Less(n, up) THEN "left" ELSE "right"
    BY SidesAre
<1>5. PICK next : tree.child[s][up] = next
    OBVIOUS
<1>6. IF next = sentinel
        THEN /\ tree' = [Hang(tree, n, up, "red") EXCEPT !.child[s][up] = n]
             /\ call' = [call EXCEPT !.pc = "balance", !.temp = NULL]
        ELSE call' = [call EXCEPT !.temp = next] /\ tree' = tree
    BY <1>2, <1>3, <1>4, <1>5 DEF rbtree_insert_value
<1>7. PICK N, at, pos, lo, hi : /\ IsShape(tree, N, at, pos, lo, hi) /\ Sorts(N, at)
                                /\ Between(N, at, n, lo[up], hi[up])
    BY <1>1, <1>2, <1>3 DEF SortInv
<1>8. /\ Ordered(tree, N, at) /\ Lists(N, at) /\ N \in Nat /\ at \in [1 .. N -> Nodes]
    BY <1>7, OrderedFacts DEF Ordered
<1>9. PICK k : k = pos[up]
    OBVIOUS
<1>10. /\ k \in 1 .. N /\ at[k] = up /\ lo[up] \in Int /\ hi[up] \in Int /\ up \in Nodes /\ k \in Int
  <2>1. k \in 1 .. N /\ at[k] = up
      BY <1>7, <1>9 DEF IsShape, Placed
  <2> QED BY <1>7, <1>8, <2>1, ShapeFacts
<1>11. /\ s = "left" => Between(N, at, n, lo[up], k - 1)
       /\ s = "right" => Between(N, at, n, k + 1, hi[up])
    BY <1>4, <1>7, <1>8, <1>10, SideBetween
<1>12. /\ OnLeft(tree, up, tree.child["left"][up], pos, lo, hi)
       /\ OnRight(tree, up, tree.child["right"][up], pos, lo, hi)
    BY <1>7 DEF IsShape, Spans
<1>13. CASE next = sentinel
  <2>1. PICK q : q = NewPlace(pos, s, up)
      OBVIOUS
  <2>2. q \in 1 .. N + 1 /\ q \in Int /\ Between(N, at, n, q, q - 1)
    <3>1. CASE s = "left"
      <4>1. q = k /\ lo[up] = k
          BY <1>5, <1>9, <1>12, <1>13, <2>1, <3>1 DEF NewPlace, OnLeft
      <4> QED BY <1>8, <1>10, <1>11, <3>1, <4>1
    <3>2. CASE s = "right"
      <4>1. q = k + 1 /\ hi[up] = k
          BY <1>5, <1>9, <1>12, <1>13, <2>1, <3>2 DEF NewPlace, OnRight
      <4>2. Between(N, at, n, k + 1, k)
          BY <1>11, <3>2, <4>1
      <4>3. q - 1 = k /\ q \in 1 .. N + 1 /\ q \in Int
          BY <1>8, <1>10, <4>1
      <4> QED BY <4>1, <4>2, <4>3
    <3> QED BY <3>1, <3>2, SidesAre
  <2>3. Fits(N, at, n, q)
      BY <1>8, <2>2, BetweenFits
  <2>4. PICK u : u = [Hang(tree, n, up, "red") EXCEPT !.child[s][up] = n]
      OBVIOUS
  <2>5. tree' = u /\ call' = [call EXCEPT !.pc = "balance", !.temp = NULL]
      BY <1>6, <1>13, <2>4
  <2>6. Hung(tree, u, s, n, up)
    <3>1. IsTree(tree) /\ n # up
        BY <1>7 DEF IsShape
    <3> QED BY <1>10, <2>4, <3>1, HungIs
  <2>7. IsShape(u, N + 1, SpreadAt(at, N, n, q), SpreadPos(pos, n, q),
                SpreadLo(lo, s, n, q), SpreadHi(hi, s, n, q))
      BY <1>5, <1>7, <1>13, <2>1, <2>6, HungShape
  <2>8. Ordered(tree', N + 1, SpreadAt(at, N, n, q))
      BY <2>5, <2>7 DEF Ordered
  <2>9. Sorted!Insert(n)
      BY <1>8, <2>2, <2>3, <2>8, Inserts
  <2>10. Sorts(N + 1, SpreadAt(at, N, n, q))
      BY <1>7, <1>8, <2>2, <2>3, SpreadSorts
  <2>11. call'.pc # "descend"
      BY <1>1, <2>5 DEF CallOK
  <2> QED BY <2>8, <2>9, <2>10, <2>11, OrderSorted
<1>14. CASE next # sentinel
  <2>1. tree' = tree /\ call' = [call EXCEPT !.temp = next]
      BY <1>6, <1>14
  <2>2. call'.node = n /\ call'.temp = next
      BY <1>1, <1>2, <2>1 DEF CallOK
  <2>3. Between(N, at, n, lo[next], hi[next])
    <3>1. CASE s = "left"
      <4>1. lo[next] = lo[up] /\ hi[next] = k - 1
          BY <1>5, <1>9, <1>12, <1>14, <3>1 DEF OnLeft
      <4> QED BY <1>11, <3>1, <4>1
    <3>2. CASE s = "right"
      <4>1. lo[next] = k + 1 /\ hi[next] = hi[up]
          BY <1>5, <1>9, <1>12, <1>14, <3>2 DEF OnRight
      <4> QED BY <1>11, <3>2, <4>1
    <3> QED BY <3>1, <3>2, SidesAre
  <2>4. SortInv'
      BY <1>7, <2>1, <2>2, <2>3 DEF SortInv
  <2>5. Walk' = Walk
      BY <1>8, <2>1, Stays
  <2> QED BY <2>4, <2>5
<1> QED BY <1>13, <1>14

LEMMA RoundSorts ==
    ASSUME TreeInv, SortInv, WalkInv, WalkInv',
           InsertRecolors \/ InsertRotates \/ InsertEnds \/ FixupRound \/ FixupEnds
    PROVE  SortInv' /\ Walk' = Walk
<1>1. PICK N, at : Ordered(tree, N, at) /\ Sorts(N, at)
    BY SortedOrder
<1>2. Ordered(tree', N, at)
    BY <1>1, BalanceOrder, FixupOrder
<1>3. call'.pc # "descend"
  <2>1. CallOK /\ call.pc \in {"balance", "fixup"}
      BY DEF TreeInv, InsertRecolors, InsertRotates, InsertEnds, RedPair, FixupRound, FixupEnds, DoubleBlack
  <2>2. \/ call' = Idle
        \/ call'.pc = call.pc
    <3>1. CASE InsertRecolors
        BY <2>1, <3>1 DEF InsertRecolors, CallOK
    <3>2. CASE InsertRotates
        BY <2>1, <3>2 DEF InsertRotates, CallOK
    <3>3. CASE InsertEnds
        BY <3>3 DEF InsertEnds
    <3>4. CASE FixupRound
      <4>1. \E x : call' = [call EXCEPT !.temp = x]
          BY <3>4 DEF FixupRound
      <4> QED BY <2>1, <4>1 DEF CallOK
    <3>5. CASE FixupEnds
        BY <3>5 DEF FixupEnds
    <3> QED BY <3>1, <3>2, <3>3, <3>4, <3>5
  <2> QED BY <2>1, <2>2 DEF Idle
<1>4. SortInv'
    BY <1>1, <1>2, <1>3, OrderSorted
<1> QED BY <1>1, <1>2, <1>4, Stays

LEMMA DeleteSorts ==
    ASSUME TreeInv, SortInv, WalkInv, WalkInv', NEW n \in Nodes, rbtree_delete(n)
    PROVE  SortInv' /\ Sorted!Delete(n)
<1>1. call = Idle
    BY DEF rbtree_delete
<1>2. Settled(tree)
    BY <1>1 DEF TreeInv, Idle
<1>3. DeletedNode(n)
    BY <1>2, Deletes
<1>4. PICK N, at : Ordered(tree, N, at) /\ Sorts(N, at)
    BY SortedOrder
<1>5. PICK q \in 1 .. N : at[q] = n /\ Ordered(tree', N - 1, ClosedAt(at, N, q))
    BY <1>3, <1>4 DEF DeletedNode, Loses
<1>6. Sorted!Delete(at[q])
    BY <1>4, <1>5, Removes
<1>7. Sorts(N - 1, ClosedAt(at, N, q))
    BY <1>4, <1>5, OrderedFacts, ClosedSorts
<1>8. call'.pc # "descend"
  <2>1. CASE call' = call \/ call' = Idle
      BY <1>1, <2>1 DEF Idle
  <2>2. CASE \E temp \in Ends : call' = [Idle EXCEPT !.pc = "fixup", !.temp = temp]
      BY <2>2 DEF Idle
  <2> QED BY <1>3, <2>1, <2>2 DEF DeletedNode
<1>9. SortInv'
    BY <1>5, <1>7, <1>8, OrderSorted
<1> QED BY <1>5, <1>6, <1>9

LEMMA InitSorted == TreeInit => SortInv /\ Sorted!Init
<1> SUFFICES ASSUME TreeInit PROVE SortInv /\ Sorted!Init
    OBVIOUS
<1>1. tree.root = sentinel /\ call = Idle
    BY DEF TreeInit
<1>2. PICK N, at, pos, lo, hi : IsShape(tree, N, at, pos, lo, hi)
    BY InitSettled DEF TreeInv, Settled, Shaped, TreeInit, Idle
<1>3. In(tree) = {} /\ Ordered(tree, N, at)
    BY <1>1, <1>2 DEF IsShape, Spans, Ordered
<1>4. N = 0
    BY <1>3, OrderedFacts
<1>5. SortInv
    BY <1>1, <1>2, <1>4 DEF SortInv, Sorts, Idle
<1>6. Walk = <<>>
  <2>1. Walk = Listed(0, at)
      BY <1>3, <1>4, WalkFollows DEF WalkInv
  <2>2. Listed(0, at) = <<>>
      BY DEF Listed
  <2> QED BY <2>1, <2>2
<1> QED BY <1>5, <1>6 DEF Sorted!Init

LEMMA NextSorted ==
    TreeInv /\ SortInv /\ WalkInv /\ WalkInv' /\ [TreeNext]_treeVars
        => SortInv' /\ [Sorted!Next]_Walk
<1> SUFFICES ASSUME TreeInv, SortInv, WalkInv, WalkInv', [TreeNext]_treeVars
             PROVE  SortInv' /\ (Sorted!Next \/ Walk' = Walk)
    OBVIOUS
<1>1. CASE rbtree_insert_value
    BY <1>1, DescendSorts DEF Sorted!Next
<1>2. CASE InsertRecolors \/ InsertRotates \/ InsertEnds \/ FixupRound \/ FixupEnds
    BY <1>2, RoundSorts
<1>3. ASSUME NEW n \in Nodes, rbtree_insert(n)
      PROVE  SortInv' /\ (Sorted!Next \/ Walk' = Walk)
    BY <1>3, FirstSorts, BeginSorts DEF Sorted!Next
<1>4. ASSUME NEW n \in Nodes, rbtree_delete(n)
      PROVE  SortInv' /\ (Sorted!Next \/ Walk' = Walk)
    BY <1>4, DeleteSorts DEF Sorted!Next
<1>5. CASE UNCHANGED treeVars
  <2>1. tree' = tree /\ call' = call
      BY <1>5 DEF treeVars
  <2>2. SortInv'
      BY <2>1 DEF SortInv
  <2>3. PICK N, at : Ordered(tree, N, at)
      BY SortedOrder
  <2> QED BY <2>1, <2>2, <2>3, Stays
<1> QED BY <1>1, <1>2, <1>3, <1>4, <1>5 DEF TreeNext, Goes

(* The tree is a list sorted by key: an insertion puts the node behind     *)
(* every node that is due no later, wrapped keys and equal ones included,  *)
(* a deletion takes out its node and leaves the others in their order,     *)
(* and neither a rotation nor a color moves a node.                        *)
THEOREM TreeIsSorted == TreeSpec => ImplementsSortedList
<1>1. TreeInit => SortInv /\ Sorted!Init
    BY InitSorted
<1>2. TreeSpec => []TreeInv
    BY AlwaysTree
<1>3. WalkInv
    BY WalkFollows
<1>4. TreeInv /\ SortInv /\ WalkInv /\ WalkInv' /\ [TreeNext]_treeVars
        => SortInv' /\ [Sorted!Next]_Walk
    BY NextSorted
<1> QED BY <1>1, <1>2, <1>3, <1>4, PTL DEF TreeSpec, ImplementsSortedList, Sorted!Spec
=============================================================================
