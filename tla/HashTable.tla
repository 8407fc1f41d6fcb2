----------------------------- MODULE HashTable -----------------------------
(***************************************************************************)
(* The hash table of ds_hasht.c: buckets of slots, a rwlock for each, and  *)
(* a count of all nodes with a lock of its own.  A call changes its bucket *)
(* under the bucket's lock and the count after it; find and fetch read the *)
(* value of the node they have found after they have let the lock go.      *)
(*                                                                         *)
(* An item is a data pointer; two items with the same key may both be in   *)
(* the table.  The statistics (lookup_count, hit_count, the times) are     *)
(* left out.                                                               *)
(***************************************************************************)
EXTENDS Integers, Sequences, FiniteSets

CONSTANTS
    Threads,    \* the threads that use the table
    MayCall,    \* MayCall[t]: the operations thread t calls
    Items, Keys,
    KeyOf,      \* the key of an item
    HashOf,     \* hash_func of a key
    NoItem,     \* NULL
    NoThread,   \* the owner of a free lock
    Volume,     \* self->volume
    Share,      \* how many nodes of the volume a bucket is made for, 8
    BucketSize, \* BUCKET_DEFAULT_SIZE
    AllocFails, \* may malloc and realloc return NULL?
    MaxCalls    \* MaxCalls[t]: how many calls thread t makes

WriteOps == {"add", "delete", "clean"}
KeyOps == {"find", "fetch", "modify", "delete"}

ASSUME SizesAssumption ==
    Volume \in Nat \ {0} /\ Share \in Nat \ {0} /\ BucketSize \in Nat \ {0}
ASSUME NamesAssumption ==
    NoItem \notin Items /\ NoThread \notin Threads /\ IsFiniteSet(Threads)
ASSUME FunctionsAssumption ==
    /\ KeyOf \in [Items -> Keys] /\ HashOf \in [Keys -> Nat] /\ AllocFails \in BOOLEAN
    /\ MayCall \in [Threads -> SUBSET (WriteOps \cup KeyOps)] /\ MaxCalls \in [Threads -> Nat]

NrBuckets == IF Volume \div Share = 0 THEN 1 ELSE Volume \div Share
Buckets == 1 .. NrBuckets
BucketOf(k) == (HashOf[k] % NrBuckets) + 1

VARIABLES
    node,       \* node[b]: the value of each slot of bucket b
    nr,         \* nr[b]: bucket[b].nr_nodes
    nr_nodes,
    grown,      \* grown[b]: how often realloc has replaced the slots of b
    writer,     \* writer[b]: who holds its rwlock for writing
    readers,    \* readers[b]: who holds it for reading
    pc, op,     \* where each thread is, and in which call
    key, item,  \* the call's key, and the item to add or returned
    at,         \* the bucket it works on
    res,        \* the slot it has found, and grown[b] at that time
    num,        \* a count in a local variable or a register
    calls       \* how many calls it has begun

table == <<node, nr, nr_nodes, grown>>
locks == <<writer, readers>>
locals == <<key, item, at, res, num>>
vars == <<table, locks, pc, op, locals, calls>>

Occupied(b) == {s \in DOMAIN node[b] : node[b][s] # NoItem}
Free(b) == DOMAIN node[b] \ Occupied(b)
Matches(b, k) == {s \in Occupied(b) : KeyOf[node[b][s]] = k}
First(S) == CHOOSE s \in S : \A r \in S : s <= r

(* What a caller may add: it owns the item, so no slot and no call has it. *)
Owned == {i \in Items : /\ \A b \in Buckets : \A s \in Occupied(b) : node[b][s] # i
                        /\ \A t \in Threads : op[t] = "add" => item[t] # i}

-----------------------------------------------------------------------------
(* Definitions whose names end in _Bug are what a slip in the code would   *)
(* give; each stands before the definition it varies and is part of no     *)
(* specification.  They show that a property can fail.                     *)

(* hasht_new.                                                              *)
Init ==
    /\ node = [b \in Buckets |-> <<>>] /\ nr = [b \in Buckets |-> 0] /\ nr_nodes = 0
    /\ grown = [b \in Buckets |-> 0]
    /\ writer = [b \in Buckets |-> NoThread] /\ readers = [b \in Buckets |-> {}]
    /\ pc = [t \in Threads |-> "idle"] /\ op = [t \in Threads |-> "none"]
    /\ key = [t \in Threads |-> CHOOSE k \in Keys : TRUE]
    /\ item = [t \in Threads |-> NoItem] /\ at = [t \in Threads |-> 1]
    /\ res = [t \in Threads |-> <<0, 0>>] /\ num = [t \in Threads |-> 0]
    /\ calls = [t \in Threads |-> 0]

Goes(t, l) == pc' = [pc EXCEPT ![t] = l] /\ UNCHANGED op
Returns(t, i) ==
    /\ pc' = [pc EXCEPT ![t] = "idle"] /\ op' = [op EXCEPT ![t] = "none"]
    /\ item' = [item EXCEPT ![t] = i]

(* pthread_rwlock_unlock.                                                  *)
Unlocks(t) ==
    LET b == at[t] IN
    IF writer[b] = t
    THEN writer' = [writer EXCEPT ![b] = NoThread] /\ UNCHANGED readers
    ELSE readers' = [readers EXCEPT ![b] = @ \ {t}] /\ UNCHANGED writer

-----------------------------------------------------------------------------
(* The calls.                                                              *)

Begins(t, o) ==
    /\ pc[t] = "idle" /\ calls[t] < MaxCalls[t] /\ o \in MayCall[t]
    /\ calls' = [calls EXCEPT ![t] = @ + 1]

CallAdd_Bug(t, i) ==
    /\ Begins(t, "add") /\ i \in Owned
    /\ pc' = [pc EXCEPT ![t] = "lock"] /\ op' = [op EXCEPT ![t] = "add"]
    /\ item' = [item EXCEPT ![t] = i] /\ at' = [at EXCEPT ![t] = BucketOf(KeyOf[i])]
    /\ UNCHANGED <<table, locks, key, res, num>>

(* hasht_add_item looks at the volume before it takes any lock.            *)
CallAdd(t, i) ==
    /\ Begins(t, "add") /\ i \in Owned
    /\ \/ nr_nodes >= Volume /\ Returns(t, NoItem) /\ UNCHANGED at
       \/ /\ nr_nodes < Volume
          /\ pc' = [pc EXCEPT ![t] = "lock"] /\ op' = [op EXCEPT ![t] = "add"]
          /\ item' = [item EXCEPT ![t] = i] /\ at' = [at EXCEPT ![t] = BucketOf(KeyOf[i])]
    /\ UNCHANGED <<table, locks, key, res, num>>

CallKey(t, o, k) ==
    /\ Begins(t, o) /\ o \in KeyOps
    /\ pc' = [pc EXCEPT ![t] = "lock"] /\ op' = [op EXCEPT ![t] = o]
    /\ key' = [key EXCEPT ![t] = k] /\ at' = [at EXCEPT ![t] = BucketOf(k)]
    /\ UNCHANGED <<table, locks, item, res, num>>

hasht_clean_table(t) ==
    /\ Begins(t, "clean")
    /\ pc' = [pc EXCEPT ![t] = "lock"] /\ op' = [op EXCEPT ![t] = "clean"]
    /\ at' = [at EXCEPT ![t] = 1]
    /\ UNCHANGED <<table, locks, key, item, res, num>>

(* A thread that asks for a lock it holds for writing is told EDEADLK,     *)
(* which the code does not look at.                                        *)
Lock(t) ==
    LET b == at[t] IN
    /\ pc[t] = "lock"
    /\ \/ /\ op[t] \in WriteOps
          /\ writer[b] = t \/ (writer[b] = NoThread /\ readers[b] = {})
          /\ writer' = [writer EXCEPT ![b] = t] /\ UNCHANGED readers
       \/ /\ op[t] \notin WriteOps /\ writer[b] \in {NoThread, t}
          /\ readers' = [readers EXCEPT ![b] = IF writer[b] = t THEN @ ELSE @ \cup {t}]
          /\ UNCHANGED writer
    /\ Goes(t, "locked")
    /\ UNCHANGED <<table, locals, calls>>

-----------------------------------------------------------------------------
(* hasht_add_item, under the lock.                                         *)

Slots(n) == [s \in 1 .. n |-> NoItem]
Growth(n) == n \div 4 + 1

(* bucket_get_free_pos: the slots of the bucket with one free at least.    *)
WithRoom(b) ==
    IF node[b] = <<>> THEN Slots(BucketSize)
    ELSE IF Free(b) # {} THEN node[b] ELSE node[b] \o Slots(Growth(Len(node[b])))

AddPlaces(t) ==
    LET b == at[t]
        slots == WithRoom(b)
        pos == First({s \in DOMAIN slots : slots[s] = NoItem})
    IN
    /\ pc[t] = "locked" /\ op[t] = "add"
    /\ node' = [node EXCEPT ![b] = [slots EXCEPT ![pos] = item[t]]]
    /\ nr' = [nr EXCEPT ![b] = @ + 1]
    /\ grown' = [grown EXCEPT ![b] = IF node[b] # <<>> /\ Free(b) = {} THEN @ + 1 ELSE @]
    /\ Unlocks(t) /\ Goes(t, "count")
    /\ UNCHANGED <<nr_nodes, locals, calls>>

(* The early return keeps the lock: its pthread_cleanup_pop is a comment.  *)
AddFails(t) ==
    /\ pc[t] = "locked" /\ op[t] = "add"
    /\ AllocFails /\ Free(at[t]) = {}
    /\ Returns(t, NoItem)
    /\ UNCHANGED <<table, locks, key, at, res, num, calls>>

AddCounts(t) ==
    /\ pc[t] = "count" /\ op[t] = "add"
    /\ nr_nodes' = nr_nodes + 1
    /\ Returns(t, NoItem)
    /\ UNCHANGED <<node, nr, grown, locks, key, at, res, num, calls>>

-----------------------------------------------------------------------------
FindsNone_Bug(t) ==
    /\ pc[t] = "locked" /\ op[t] \in KeyOps /\ Matches(at[t], key[t]) = {}
    /\ Returns(t, NoItem)
    /\ UNCHANGED <<table, locks, key, at, res, num, calls>>

(* hasht_find_node has no match: the call lets the lock go and returns.    *)
FindsNone(t) ==
    /\ pc[t] = "locked" /\ op[t] \in KeyOps /\ Matches(at[t], key[t]) = {}
    /\ Unlocks(t) /\ Returns(t, NoItem)
    /\ UNCHANGED <<table, key, at, res, num, calls>>

Finds(t, o) ==
    /\ pc[t] = "locked" /\ op[t] = o /\ Matches(at[t], key[t]) # {}

FindNode(t) ==
    /\ Finds(t, "find") \/ Finds(t, "fetch")
    /\ res' = [res EXCEPT ![t] = <<First(Matches(at[t], key[t])), grown[at[t]]>>]
    /\ IF op[t] = "find" THEN Unlocks(t) /\ Goes(t, "value") ELSE Goes(t, "found") /\ UNCHANGED locks
    /\ UNCHANGED <<table, key, item, at, num, calls>>

(* The callback of hasht_modify_item changes the item, not the table.      *)
Modify(t) ==
    /\ Finds(t, "modify")
    /\ Unlocks(t) /\ Returns(t, NoItem)
    /\ UNCHANGED <<table, key, at, res, num, calls>>

Deletes_Bug(t) ==
    LET b == at[t] s == First(Matches(b, key[t])) IN
    /\ Finds(t, "delete")
    /\ node' = [node EXCEPT ![b][s] = NoItem]
    /\ Unlocks(t) /\ Goes(t, "uncount")
    /\ num' = [num EXCEPT ![t] = 1]
    /\ UNCHANGED <<nr, nr_nodes, grown, key, item, at, res, calls>>

Deletes(t) ==
    LET b == at[t] s == First(Matches(b, key[t])) IN
    /\ Finds(t, "delete")
    /\ node' = [node EXCEPT ![b][s] = NoItem] /\ nr' = [nr EXCEPT ![b] = @ - 1]
    /\ Unlocks(t) /\ Goes(t, "uncount")
    /\ num' = [num EXCEPT ![t] = 1]
    /\ UNCHANGED <<nr_nodes, grown, key, item, at, res, calls>>

(* hasht_fetch_item clears the slot and counts it out with the lock held   *)
(* for reading, so that two of them may do so at once.                     *)
FetchClears(t) ==
    LET b == at[t] IN
    /\ pc[t] = "found"
    /\ node' = [node EXCEPT ![b][res[t][1]] = NoItem]
    /\ num' = [num EXCEPT ![t] = nr[b]]
    /\ Goes(t, "store")
    /\ UNCHANGED <<nr, nr_nodes, grown, locks, key, item, at, res, calls>>

FetchStores(t) ==
    /\ pc[t] = "store"
    /\ nr' = [nr EXCEPT ![at[t]] = num[t] - 1]
    /\ num' = [num EXCEPT ![t] = 1]
    /\ Unlocks(t) /\ Goes(t, "uncount")
    /\ UNCHANGED <<node, nr_nodes, grown, key, item, at, res, calls>>

CleanBucket(t) ==
    LET b == at[t] IN
    /\ pc[t] = "locked" /\ op[t] = "clean"
    /\ num' = [num EXCEPT ![t] = Cardinality(Occupied(b))]
    /\ node' = [node EXCEPT ![b] = Slots(Len(node[b]))] /\ nr' = [nr EXCEPT ![b] = 0]
    /\ Unlocks(t) /\ Goes(t, "uncount")
    /\ UNCHANGED <<nr_nodes, grown, key, item, at, res, calls>>

Uncount(t) ==
    /\ pc[t] = "uncount"
    /\ nr_nodes' = nr_nodes - num[t] /\ num' = [num EXCEPT ![t] = 0]
    /\ CASE op[t] = "fetch" -> Goes(t, "value") /\ UNCHANGED <<item, at>>
         [] op[t] = "clean" /\ at[t] < NrBuckets ->
              Goes(t, "lock") /\ at' = [at EXCEPT ![t] = @ + 1] /\ UNCHANGED item
         [] OTHER -> Returns(t, NoItem) /\ UNCHANGED at
    /\ UNCHANGED <<node, nr, grown, locks, key, res, calls>>

(* return res->value: of slots that realloc has freed, whatever is there.  *)
ReadValue(t) ==
    LET b == at[t] IN
    /\ pc[t] = "value"
    /\ \E i \in IF grown[b] = res[t][2] THEN {node[b][res[t][1]]} ELSE Items \cup {NoItem} :
         Returns(t, i)
    /\ UNCHANGED <<table, locks, key, at, res, num, calls>>

-----------------------------------------------------------------------------

Inside(t) ==
    \/ Lock(t) \/ AddPlaces(t) \/ AddFails(t) \/ AddCounts(t) \/ FindsNone(t) \/ FindNode(t)
    \/ Modify(t) \/ Deletes(t) \/ FetchClears(t) \/ FetchStores(t) \/ CleanBucket(t)
    \/ Uncount(t) \/ ReadValue(t)

Calls(t) ==
    \/ \E i \in Items : CallAdd(t, i)
    \/ \E o \in KeyOps, k \in Keys : CallKey(t, o, k)
    \/ hasht_clean_table(t)

Next == \E t \in Threads : Calls(t) \/ Inside(t)

Spec == Init /\ [][Next]_vars

(* A thread inside of a call runs; it need not call again.                 *)
FairSpec == Spec /\ \A t \in Threads : WF_vars(Inside(t))

-----------------------------------------------------------------------------

TypeOK ==
    /\ \A b \in Buckets : \A s \in DOMAIN node[b] : node[b][s] \in Items \cup {NoItem}
    /\ nr \in [Buckets -> Int] /\ nr_nodes \in Int /\ grown \in [Buckets -> Nat]
    /\ writer \in [Buckets -> Threads \cup {NoThread}] /\ readers \in [Buckets -> SUBSET Threads]
    /\ pc \in [Threads -> {"idle", "lock", "locked", "count", "found", "store", "uncount", "value"}]
    /\ op \in [Threads -> WriteOps \cup KeyOps \cup {"none"}]
    /\ key \in [Threads -> Keys] /\ item \in [Threads -> Items \cup {NoItem}]
    /\ at \in [Threads -> Buckets] /\ res \in [Threads -> Nat \X Nat]
    /\ num \in [Threads -> Int] /\ \A t \in Threads : calls[t] \in 0 .. MaxCalls[t]

(* The slots taken in the whole table, and the nodes that a call has taken *)
(* out of it and not yet off nr_nodes.                                     *)
Adding == {t \in Threads : op[t] = "add" /\ pc[t] = "count"}
Storing(b) == {t \in Threads : pc[t] = "store" /\ at[t] = b}
Owes(t) == IF pc[t] = "store" THEN 1 ELSE IF pc[t] = "uncount" THEN num[t] ELSE 0
Taken == UNION {{b} \X Occupied(b) : b \in Buckets}
Owed == UNION {{t} \X (1 .. Owes(t)) : t \in Threads}

(* Both counts are right up to what the calls under way have still to add  *)
(* or to take away: a bucket counts its occupied slots, the table counts   *)
(* them all.                                                               *)
CountsAddUp ==
    /\ \A b \in Buckets : nr[b] = Cardinality(Occupied(b)) + Cardinality(Storing(b))
    /\ nr_nodes + Cardinality(Adding) = Cardinality(Taken) + Cardinality(Owed)

(* The volume is checked before any lock is taken, so threads that add at  *)
(* once may pass it together: by one node for each but the first, never    *)
(* more.                                                                   *)
WithinVolume == Cardinality(Taken) < Volume + Cardinality({t \in Threads : "add" \in MayCall[t]})

(* A bucket whose lock was left behind by an add that could not allocate:  *)
(* its owner is in no call, or asks for a lock, which it does holding none.*)
LeftLocked == \E b \in Buckets : writer[b] # NoThread /\ pc[writer[b]] \in {"idle", "lock"}

(* Every call returns, or the threads of multi_thread_test could not be    *)
(* joined, unless an add without memory has kept the lock of a bucket.     *)
CallsReturn == \A t \in Threads : pc[t] # "idle" ~> pc[t] = "idle" \/ LeftLocked
=============================================================================
