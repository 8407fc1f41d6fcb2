-------------------------- MODULE HashTableProofs --------------------------
(***************************************************************************)
(* Theorems about HashTable, for any threads, items, keys and sizes of the *)
(* table, when one thread at most calls hasht_fetch_item: that call clears *)
(* a slot and stores a count under a lock held for reading, and two of     *)
(* them lose a node from the count.                                        *)
(***************************************************************************)
EXTENDS HashTable, FiniteSetTheorems, WellFoundedInduction, SequenceTheorems, TLAPS

OneFetcher == \A t, u \in Threads : "fetch" \in MayCall[t] \cap MayCall[u] => t = u

-----------------------------------------------------------------------------
(* Finite sets, and pairs that are counted by their first half.            *)

LEMMA LeastNumber ==
    ASSUME NEW T \in SUBSET Nat, T # {}
    PROVE  First(T) \in T
<1>1. OpToRel(<, Nat) = {p \in Nat \X Nat : p[1] < p[2]}
    BY Zenon DEF OpToRel
<1>2. \E n \in T : \A m \in T : <<m, n>> \notin OpToRel(<, Nat)
    BY WFMin, NatLessThanWellFounded, Zenon
<1>3. PICK n \in T : \A m \in T : <<m, n>> \notin {p \in Nat \X Nat : p[1] < p[2]}
    BY <1>1, <1>2
<1>4. \A m \in T : ~ (m < n)
    BY <1>3
<1>5. \A m \in T : n <= m
    BY <1>4
<1> QED BY <1>5 DEF First

LEMMA Row ==
    ASSUME NEW x, NEW S, IsFiniteSet(S)
    PROVE  IsFiniteSet({x} \X S) /\ Cardinality({x} \X S) = Cardinality(S)
<1> DEFINE f == [s \in S |-> <<x, s>>]
<1>1. f \in Bijection(S, {x} \X S)
  <2>1. f \in [S -> {x} \X S]
      OBVIOUS
  <2>2. \A a, b \in S : f[a] = f[b] => a = b
      OBVIOUS
  <2>3. \A p \in {x} \X S : \E s \in S : f[s] = p
      OBVIOUS
  <2> HIDE DEF f
  <2> QED BY <2>1, <2>2, <2>3, Zenon DEF Bijection, Injection, Surjection, IsInjective
<1>2. ExistsBijection(S, {x} \X S)
    BY <1>1 DEF ExistsBijection
<1> QED BY <1>2, FS_Bijection

LEMMA UnionOfApart ==
    ASSUME NEW S, NEW T, IsFiniteSet(S), IsFiniteSet(T), S \cap T = {}
    PROVE  /\ IsFiniteSet(S \cup T)
           /\ Cardinality(S \cup T) = Cardinality(S) + Cardinality(T)
           /\ Cardinality(S) \in Nat /\ Cardinality(T) \in Nat
BY FS_Union, FS_EmptySet, FS_CardinalityType

LEMMA LessAPart ==
    ASSUME NEW S, NEW T \in SUBSET S, IsFiniteSet(S)
    PROVE  /\ IsFiniteSet(S \ T) /\ IsFiniteSet(T)
           /\ Cardinality(S \ T) = Cardinality(S) - Cardinality(T)
           /\ Cardinality(S) \in Nat /\ Cardinality(T) \in Nat /\ Cardinality(T) <= Cardinality(S)
<1>1. S \cap T = T
    OBVIOUS
<1> QED BY <1>1, FS_Difference, FS_Subset, FS_CardinalityType

(* The pairs <<c, x>> with x in f[c], when one f[b] is replaced.           *)
Rows(I, f) == UNION {{c} \X f[c] : c \in I}

LEMMA RowChanges ==
    ASSUME NEW I, NEW f, NEW g, NEW b \in I, IsFiniteSet(f[b]), IsFiniteSet(g[b]),
           \A c \in I \ {b} : g[c] = f[c], IsFiniteSet(Rows(I, f))
    PROVE  /\ IsFiniteSet(Rows(I, g))
           /\ Cardinality(Rows(I, g)) = Cardinality(Rows(I, f)) - Cardinality(f[b]) + Cardinality(g[b])
           /\ Cardinality(f[b]) \in Nat /\ Cardinality(g[b]) \in Nat /\ Cardinality(Rows(I, f)) \in Nat
<1>1. PICK old, new, rest : /\ old = {b} \X f[b] /\ new = {b} \X g[b]
                            /\ rest = Rows(I, f) \ old
    OBVIOUS
<1>2. old \subseteq Rows(I, f)
    BY <1>1 DEF Rows
<1>3. Rows(I, g) = rest \cup new /\ rest \cap new = {}
    BY <1>1 DEF Rows
<1>4. /\ IsFiniteSet(old) /\ Cardinality(old) = Cardinality(f[b])
      /\ IsFiniteSet(new) /\ Cardinality(new) = Cardinality(g[b])
    BY <1>1, Row
<1>5. /\ IsFiniteSet(rest) /\ Cardinality(rest) = Cardinality(Rows(I, f)) - Cardinality(old)
      /\ Cardinality(Rows(I, f)) \in Nat /\ Cardinality(old) \in Nat
    BY <1>1, <1>2, LessAPart
<1>6. /\ IsFiniteSet(Rows(I, g)) /\ Cardinality(Rows(I, g)) = Cardinality(rest) + Cardinality(new)
      /\ Cardinality(new) \in Nat
    BY <1>3, <1>4, <1>5, UnionOfApart
<1> QED BY <1>4, <1>5, <1>6

LEMMA Buckets1 == NrBuckets \in Nat \ {0} /\ 1 \in Buckets /\ \A k \in Keys : BucketOf(k) \in Buckets
<1>1. Volume \div Share \in Nat
    BY SizesAssumption
<1>2. NrBuckets \in Nat \ {0}
    BY <1>1 DEF NrBuckets
<1>3. \A k \in Keys : HashOf[k] % NrBuckets \in 0 .. NrBuckets - 1
    BY <1>2, FunctionsAssumption
<1> QED BY <1>2, <1>3 DEF Buckets, BucketOf

-----------------------------------------------------------------------------
(* The invariant.                                                          *)

Slot == Items \cup {NoItem}
TableTypes ==
    /\ node \in [Buckets -> Seq(Slot)] /\ nr \in [Buckets -> Int] /\ nr_nodes \in Int
    /\ grown \in [Buckets -> Nat]
LockTypes ==
    writer \in [Buckets -> Threads \cup {NoThread}] /\ readers \in [Buckets -> SUBSET Threads]
CallTypes ==
    /\ pc \in [Threads -> {"idle", "lock", "locked", "count", "found", "store", "uncount", "value"}]
    /\ op \in [Threads -> WriteOps \cup KeyOps \cup {"none"}]
    /\ item = [t \in Threads |-> item[t]] /\ at \in [Threads -> Buckets]
    /\ res \in [Threads -> Nat \X Nat] /\ num \in [Threads -> Int]
Types == TableTypes /\ LockTypes /\ CallTypes

(* Where a thread is goes with the call it is in.                          *)
InCall(t) ==
    /\ op[t] # "none" => op[t] \in MayCall[t]
    /\ op[t] = "add" => item[t] \in Items
    /\ pc[t] \in {"found", "store"} => op[t] = "fetch"
    /\ pc[t] \in {"lock", "locked", "count", "uncount"} => op[t] # "none"
    /\ pc[t] = "count" => op[t] = "add"
    /\ pc[t] = "uncount" => num[t] \in Nat /\ op[t] \in {"delete", "fetch", "clean"}

(* A thread at work in a bucket has its lock, and a writer has it alone.   *)
AtWork(t) == pc[t] \in {"locked", "found", "store"}
HasLock(t) ==
    \/ writer[at[t]] = t
    \/ op[t] \notin WriteOps /\ writer[at[t]] = NoThread /\ t \in readers[at[t]]
LocksHeld ==
    /\ \A t \in Threads : AtWork(t) => HasLock(t)
    /\ \A b \in Buckets : writer[b] # NoThread => readers[b] = {}

(* What hasht_fetch_item has read is still so.                             *)
FetchKnows(t) ==
    /\ pc[t] = "found" => res[t][1] \in Occupied(at[t])
    /\ pc[t] = "store" => num[t] = nr[at[t]]

(* The volume was not reached when the calls that add looked at it.        *)
Adders == {t \in Threads : "add" \in MayCall[t]}
InAdd == {t \in Threads : op[t] = "add"}
Bounded == nr_nodes + Cardinality(InAdd) < Volume + Cardinality(Adders)

Finite == IsFiniteSet(Taken) /\ IsFiniteSet(Owed)

IInv ==
    /\ Types /\ (\A t \in Threads : InCall(t)) /\ LocksHeld
    /\ (\A t \in Threads : FetchKnows(t))
    /\ CountsAddUp /\ Bounded /\ Finite

-----------------------------------------------------------------------------
(* What the calls do to the slots.                                         *)

LEMMA OccupiedIs ==
    ASSUME Types, NEW b \in Buckets
    PROVE  /\ node[b] \in Seq(Slot) /\ Len(node[b]) \in Nat /\ DOMAIN node[b] = 1 .. Len(node[b])
           /\ Occupied(b) \in SUBSET (1 .. Len(node[b])) /\ Occupied(b) \in SUBSET Nat
           /\ IsFiniteSet(Occupied(b))
           /\ \A k : Matches(b, k) \in SUBSET Occupied(b)
<1>1. node[b] \in Seq(Slot)
    BY DEF Types, TableTypes, LockTypes, CallTypes
<1>2. Len(node[b]) \in Nat /\ DOMAIN node[b] = 1 .. Len(node[b])
    BY <1>1, LenProperties
<1>3. Occupied(b) \in SUBSET (1 .. Len(node[b])) /\ \A k : Matches(b, k) \in SUBSET Occupied(b)
    BY <1>2 DEF Occupied, Matches
<1>4. IsFiniteSet(Occupied(b))
  <2>1. IsFiniteSet(1 .. Len(node[b]))
      BY <1>2, FS_Interval
  <2> QED BY <1>3, <2>1, FS_Subset
<1> QED BY <1>1, <1>2, <1>3, <1>4

(* The set of taken slots of a sequence.                                   *)
InUse(slots) == {s \in DOMAIN slots : slots[s] # NoItem}

LEMMA RoomIsMade ==
    ASSUME Types, NEW b \in Buckets
    PROVE  /\ WithRoom(b) \in Seq(Slot) /\ InUse(WithRoom(b)) = Occupied(b)
           /\ {s \in DOMAIN WithRoom(b) : WithRoom(b)[s] = NoItem} # {}
           /\ {s \in DOMAIN WithRoom(b) : WithRoom(b)[s] = NoItem} \in SUBSET Nat
<1>1. PICK q : q = node[b]
    OBVIOUS
<1>2. q \in Seq(Slot) /\ Len(q) \in Nat /\ DOMAIN q = 1 .. Len(q)
    BY <1>1, OccupiedIs
<1>3. \A n \in Nat : Slots(n) \in Seq(Slot) /\ Len(Slots(n)) = n /\ \A s \in 1 .. n : Slots(n)[s] = NoItem
    BY DEF Slots, Slot
<1>4. CASE q = <<>>
  <2>1. WithRoom(b) = Slots(BucketSize) /\ BucketSize \in Nat \ {0} /\ Occupied(b) = {}
      BY <1>1, <1>4, SizesAssumption DEF WithRoom, Occupied
  <2>2. PICK r : r = Slots(BucketSize)
      OBVIOUS
  <2>3. r \in Seq(Slot) /\ DOMAIN r = 1 .. BucketSize /\ \A s \in 1 .. BucketSize : r[s] = NoItem
      BY <1>3, <2>1, <2>2, LenProperties
  <2>4. InUse(r) = {} /\ 1 \in {s \in DOMAIN r : r[s] = NoItem} /\ {s \in DOMAIN r : r[s] = NoItem} \in SUBSET Nat
      BY <2>1, <2>3 DEF InUse
  <2> QED BY <2>1, <2>2, <2>3, <2>4
<1>5. CASE q # <<>> /\ Free(b) # {}
  <2>1. WithRoom(b) = q
      BY <1>1, <1>5 DEF WithRoom
  <2>2. InUse(q) = Occupied(b) /\ Free(b) = {s \in DOMAIN q : q[s] = NoItem}
      BY <1>1 DEF InUse, Occupied, Free
  <2> QED BY <1>2, <1>5, <2>1, <2>2
<1>6. CASE q # <<>> /\ Free(b) = {}
  <2>1. PICK g \in Nat \ {0} : g = Growth(Len(q))
      BY <1>2 DEF Growth
  <2>2. PICK e \in Seq(Slot) : e = Slots(g) /\ Len(e) = g /\ \A s \in 1 .. g : e[s] = NoItem
      BY <1>3, <2>1
  <2>3. PICK r : r = q \o e
      OBVIOUS
  <2>4. /\ r \in Seq(Slot) /\ DOMAIN r = 1 .. Len(q) + g
        /\ \A s \in 1 .. Len(q) + g : r[s] = IF s <= Len(q) THEN q[s] ELSE e[s - Len(q)]
    <3>1. r \in Seq(Slot) /\ Len(r) = Len(q) + g
          /\ \A s \in 1 .. Len(q) + Len(e) : r[s] = IF s <= Len(q) THEN q[s] ELSE e[s - Len(q)]
        BY <1>2, <2>2, <2>3, ConcatProperties
    <3> QED BY <2>2, <3>1, LenProperties
  <2>5. WithRoom(b) = r
      BY <1>1, <1>6, <2>1, <2>2, <2>3 DEF WithRoom
  <2>6. Occupied(b) = 1 .. Len(q) /\ \A s \in 1 .. Len(q) : q[s] # NoItem
      BY <1>1, <1>2, <1>6 DEF Occupied, Free
  <2>7. \A s \in Len(q) + 1 .. Len(q) + g : s - Len(q) \in 1 .. g
      BY <1>2, <2>1
  <2>8. \A s \in 1 .. Len(q) + g : r[s] = NoItem <=> ~ (s <= Len(q))
      BY <1>2, <2>1, <2>2, <2>4, <2>6, <2>7
  <2>9. InUse(r) = Occupied(b) /\ {s \in DOMAIN r : r[s] = NoItem} \in SUBSET Nat
      BY <1>2, <2>1, <2>4, <2>6, <2>8 DEF InUse
  <2>10. Len(q) + 1 \in {s \in DOMAIN r : r[s] = NoItem}
      BY <1>2, <2>1, <2>4, <2>8
  <2> QED BY <2>4, <2>5, <2>9, <2>10
<1> QED BY <1>4, <1>5, <1>6

(* One bucket is written, and its taken slots become S.                    *)
Becomes(b, S) == \A c \in Buckets : Occupied(c)' = IF c = b THEN S ELSE Occupied(c)

LEMMA PlacesOne ==
    ASSUME Types, NEW t \in Threads, AddPlaces(t), item[t] \in Items
    PROVE  /\ node' \in [Buckets -> Seq(Slot)]
           /\ \E pos \in Nat : pos \notin Occupied(at[t]) /\ Becomes(at[t], Occupied(at[t]) \cup {pos})
<1>1. PICK b \in Buckets : b = at[t]
    BY DEF Types, TableTypes, LockTypes, CallTypes
<1>2. PICK slots \in Seq(Slot) : slots = WithRoom(b)
    BY RoomIsMade
<1>3. PICK pos : pos = First({s \in DOMAIN slots : slots[s] = NoItem})
    OBVIOUS
<1>4. /\ pos \in {s \in DOMAIN slots : slots[s] = NoItem} /\ pos \in Nat
      /\ InUse(slots) = Occupied(b)
  <2>1. PICK T : T = {s \in DOMAIN slots : slots[s] = NoItem}
      OBVIOUS
  <2>2. T \in SUBSET Nat /\ T # {} /\ InUse(slots) = Occupied(b)
      BY <1>2, <2>1, RoomIsMade
  <2> QED BY <1>3, <2>1, <2>2, LeastNumber
<1>5. PICK new : new = [slots EXCEPT ![pos] = item[t]]
    OBVIOUS
<1>6. new \in Seq(Slot) /\ InUse(new) = Occupied(b) \cup {pos} /\ pos \notin Occupied(b)
  <2>1. pos \in 1 .. Len(slots) /\ DOMAIN slots = 1 .. Len(slots) /\ item[t] \in Slot /\ item[t] # NoItem
      BY <1>4, NamesAssumption, LenProperties DEF Slot
  <2>2. new \in Seq(Slot) /\ DOMAIN new = DOMAIN slots
        /\ \A s \in DOMAIN slots : new[s] = IF s = pos THEN item[t] ELSE slots[s]
      BY <1>5, <2>1, ExceptSeq, LenProperties
  <2> QED BY <1>4, <2>1, <2>2 DEF InUse
<1>7. node' = [node EXCEPT ![b] = new]
    BY <1>1, <1>2, <1>3, <1>5 DEF AddPlaces
<1>8. node' \in [Buckets -> Seq(Slot)]
    BY <1>6, <1>7 DEF Types, TableTypes, LockTypes, CallTypes
<1>9. Becomes(b, Occupied(b) \cup {pos})
  <2>1. \A c \in Buckets : node'[c] = IF c = b THEN new ELSE node[c]
      BY <1>7 DEF Types, TableTypes, LockTypes, CallTypes
  <2> QED BY <1>6, <2>1 DEF Becomes, Occupied, InUse
<1> QED BY <1>1, <1>4, <1>6, <1>8, <1>9

LEMMA ClearsOne ==
    ASSUME Types, NEW b \in Buckets, NEW s \in Occupied(b), node' = [node EXCEPT ![b][s] = NoItem]
    PROVE  node' \in [Buckets -> Seq(Slot)] /\ Becomes(b, Occupied(b) \ {s})
<1>1. /\ node[b] \in Seq(Slot) /\ DOMAIN node[b] = 1 .. Len(node[b]) /\ s \in 1 .. Len(node[b])
    BY OccupiedIs
<1>2. PICK new : new = [node[b] EXCEPT ![s] = NoItem]
    OBVIOUS
<1>3. /\ new \in Seq(Slot) /\ DOMAIN new = DOMAIN node[b]
      /\ \A k \in DOMAIN new : new[k] = IF k = s THEN NoItem ELSE node[b][k]
    BY <1>1, <1>2, ExceptSeq, LenProperties DEF Slot
<1>4. \A c \in Buckets : node'[c] = IF c = b THEN new ELSE node[c]
    BY <1>2 DEF Types, TableTypes, LockTypes, CallTypes
<1>5. node' \in [Buckets -> Seq(Slot)]
    BY <1>1, <1>2, <1>3 DEF Types, TableTypes, LockTypes, CallTypes
<1> QED BY <1>3, <1>4, <1>5 DEF Becomes, Occupied

LEMMA ClearsAll ==
    ASSUME Types, NEW b \in Buckets, node' = [node EXCEPT ![b] = Slots(Len(node[b]))]
    PROVE  node' \in [Buckets -> Seq(Slot)] /\ Becomes(b, {})
<1>1. Len(node[b]) \in Nat
    BY OccupiedIs
<1>2. PICK new : new = Slots(Len(node[b]))
    OBVIOUS
<1>3. new \in Seq(Slot) /\ \A k \in DOMAIN new : new[k] = NoItem
    BY <1>1, <1>2 DEF Slots, Slot
<1>4. \A c \in Buckets : node'[c] = IF c = b THEN new ELSE node[c]
    BY <1>2 DEF Types, TableTypes, LockTypes, CallTypes
<1>5. node' \in [Buckets -> Seq(Slot)]
    BY <1>2, <1>3 DEF Types, TableTypes, LockTypes, CallTypes
<1> QED BY <1>3, <1>4, <1>5 DEF Becomes, Occupied

-----------------------------------------------------------------------------
(* Where the threads are.                                                  *)

Step(t) == Calls(t) \/ Inside(t)

LEMMA Unlocked ==
    ASSUME Types, NEW t \in Threads, Unlocks(t)
    PROVE  /\ writer' \in [Buckets -> Threads \cup {NoThread}] /\ readers' \in [Buckets -> SUBSET Threads]
           /\ \A b \in Buckets : /\ writer'[b] \in {writer[b], NoThread}
                                 /\ writer'[b] # writer[b] => writer[b] = t
                                 /\ readers'[b] \subseteq readers[b] /\ readers[b] \ {t} \subseteq readers'[b]
<1>1. at[t] \in Buckets
    BY DEF Types, TableTypes, LockTypes, CallTypes
<1>2. CASE writer[at[t]] = t /\ writer' = [writer EXCEPT ![at[t]] = NoThread] /\ readers' = readers
    BY <1>1, <1>2 DEF Types, TableTypes, LockTypes, CallTypes
<1>3. CASE readers' = [readers EXCEPT ![at[t]] = @ \ {t}] /\ writer' = writer
    BY <1>1, <1>3 DEF Types, TableTypes, LockTypes, CallTypes
<1> QED BY <1>2, <1>3 DEF Unlocks

LEMMA FoundIs ==
    ASSUME Types, NEW t \in Threads, Matches(at[t], key[t]) # {}
    PROVE  /\ First(Matches(at[t], key[t])) \in Occupied(at[t])
           /\ First(Matches(at[t], key[t])) \in Nat
<1>1. at[t] \in Buckets
    BY DEF Types, TableTypes, LockTypes, CallTypes
<1>2. Matches(at[t], key[t]) \in SUBSET Nat /\ Matches(at[t], key[t]) \in SUBSET Occupied(at[t])
    BY <1>1, OccupiedIs
<1> QED BY <1>2, LeastNumber

LEMMA TypesKept ==
    ASSUME Types, NEW t \in Threads, InCall(t), FetchKnows(t), Step(t)
    PROVE  Types'
<1>0. TableTypes /\ LockTypes /\ CallTypes /\ at[t] \in Buckets /\ num[t] \in Int
    BY DEF Types, CallTypes
<1>1. /\ Unlocks(t) => LockTypes'
      /\ UNCHANGED locks => LockTypes'
      /\ UNCHANGED table => TableTypes'
  <2>1. Unlocks(t) => LockTypes'
      BY Unlocked DEF LockTypes
  <2> QED BY <1>0, <2>1 DEF LockTypes, TableTypes, locks, table
<1>2. ASSUME NEW l \in {"idle", "lock", "locked", "count", "found", "store", "uncount", "value"},
             NEW o \in WriteOps \cup KeyOps \cup {"none"},
             NEW i, NEW b \in Buckets, NEW r \in Nat \X Nat, NEW n \in Int,
             pc' \in {pc, [pc EXCEPT ![t] = l]}, op' \in {op, [op EXCEPT ![t] = o]},
             item' \in {item, [item EXCEPT ![t] = i]}, at' \in {at, [at EXCEPT ![t] = b]},
             res' \in {res, [res EXCEPT ![t] = r]}, num' \in {num, [num EXCEPT ![t] = n]}
      PROVE  CallTypes'
  <2>1. /\ pc' \in [Threads -> {"idle", "lock", "locked", "count", "found", "store", "uncount", "value"}]
        /\ op' \in [Threads -> WriteOps \cup KeyOps \cup {"none"}]
      BY <1>0, <1>2 DEF CallTypes
  <2>2. item' = [u \in Threads |-> item'[u]] /\ at' \in [Threads -> Buckets]
      BY <1>0, <1>2 DEF CallTypes
  <2>3. res' \in [Threads -> Nat \X Nat] /\ num' \in [Threads -> Int]
      BY <1>0, <1>2 DEF CallTypes
  <2> QED BY <2>1, <2>2, <2>3 DEF CallTypes
<1>3. 1 \in Int /\ 0 \in Int /\ <<0, 0>> \in Nat \X Nat /\ 1 \in Buckets
    BY Buckets1
<1> USE DEF Goes, Returns
<1>4. ASSUME NEW i \in Items, CallAdd(t, i) PROVE Types'
  <2>1. BucketOf(KeyOf[i]) \in Buckets
      BY Buckets1, FunctionsAssumption
  <2>2. CASE Returns(t, NoItem) /\ at' = at /\ UNCHANGED <<table, locks, key, res, num>>
      BY <1>1, <1>2, <1>3, <2>2 DEF Types
  <2>3. CASE /\ pc' = [pc EXCEPT ![t] = "lock"] /\ op' = [op EXCEPT ![t] = "add"]
             /\ item' = [item EXCEPT ![t] = i] /\ at' = [at EXCEPT ![t] = BucketOf(KeyOf[i])]
             /\ UNCHANGED <<table, locks, key, res, num>>
      BY <1>1, <1>2, <1>3, <2>1, <2>3 DEF Types, WriteOps
  <2> QED BY <1>4, <2>2, <2>3 DEF CallAdd
<1>5. ASSUME NEW o \in KeyOps, NEW k \in Keys, CallKey(t, o, k) PROVE Types'
  <2>1. BucketOf(k) \in Buckets
      BY Buckets1
  <2> QED BY <1>1, <1>2, <1>3, <1>5, <2>1 DEF Types, CallKey
<1>6. CASE hasht_clean_table(t)
    BY <1>1, <1>2, <1>3, <1>6 DEF Types, hasht_clean_table, WriteOps
<1>7. CASE Lock(t)
  <2>1. LockTypes'
      BY <1>0, <1>7 DEF Lock, LockTypes
  <2>2. CallTypes' /\ TableTypes'
      BY <1>1, <1>2, <1>3, <1>7 DEF Lock, locals
  <2> QED BY <2>1, <2>2 DEF Types
<1>8. CASE AddPlaces(t)
  <2>1. op[t] = "add" /\ item[t] \in Items
      BY <1>8 DEF InCall, AddPlaces
  <2>2. node' \in [Buckets -> Seq(Slot)]
      BY <1>8, <2>1, PlacesOne
  <2>3. TableTypes'
      BY <1>0, <1>8, <2>2 DEF AddPlaces, TableTypes
  <2>4. LockTypes' /\ CallTypes'
      BY <1>1, <1>2, <1>3, <1>8 DEF AddPlaces, locals
  <2> QED BY <2>3, <2>4 DEF Types
<1>9. CASE AddFails(t)
    BY <1>1, <1>2, <1>3, <1>9 DEF Types, AddFails
<1>10. CASE AddCounts(t)
  <2>1. TableTypes'
      BY <1>0, <1>10 DEF AddCounts, TableTypes
  <2> QED BY <1>1, <1>2, <1>3, <1>10, <2>1 DEF Types, AddCounts
<1>11. CASE FindsNone(t)
    BY <1>1, <1>2, <1>3, <1>11 DEF Types, FindsNone
<1>12. CASE Modify(t)
    BY <1>1, <1>2, <1>3, <1>12 DEF Types, Modify
<1>13. CASE FindNode(t)
  <2>1. <<First(Matches(at[t], key[t])), grown[at[t]]>> \in Nat \X Nat
      BY <1>0, <1>13, FoundIs DEF FindNode, Finds, TableTypes
  <2>2. LockTypes' /\ TableTypes'
      BY <1>1, <1>13 DEF FindNode
  <2>3. CallTypes'
      BY <1>2, <1>3, <1>13, <2>1 DEF FindNode
  <2> QED BY <2>2, <2>3 DEF Types
<1>14. CASE Deletes(t)
  <2>1. PICK s \in Occupied(at[t]) : node' = [node EXCEPT ![at[t]][s] = NoItem]
      BY <1>14, FoundIs DEF Deletes, Finds
  <2>2. node' \in [Buckets -> Seq(Slot)]
      BY <1>0, <2>1, ClearsOne
  <2>3. TableTypes'
      BY <1>0, <1>14, <2>2 DEF Deletes, TableTypes
  <2>4. LockTypes' /\ CallTypes'
      BY <1>1, <1>2, <1>3, <1>14 DEF Deletes
  <2> QED BY <2>3, <2>4 DEF Types
<1>15. CASE FetchClears(t)
  <2>1. res[t][1] \in Occupied(at[t])
      BY <1>15 DEF FetchClears, FetchKnows
  <2>2. node' \in [Buckets -> Seq(Slot)]
      BY <1>0, <1>15, <2>1, ClearsOne DEF FetchClears
  <2>3. TableTypes' /\ nr[at[t]] \in Int
      BY <1>0, <1>15, <2>2 DEF FetchClears, TableTypes
  <2>4. LockTypes' /\ CallTypes'
      BY <1>1, <1>2, <1>3, <1>15, <2>3 DEF FetchClears
  <2> QED BY <2>3, <2>4 DEF Types
<1>16. CASE FetchStores(t)
  <2>1. TableTypes'
      BY <1>0, <1>16 DEF FetchStores, TableTypes
  <2>2. LockTypes' /\ CallTypes'
      BY <1>1, <1>2, <1>3, <1>16 DEF FetchStores
  <2> QED BY <2>1, <2>2 DEF Types
<1>17. CASE CleanBucket(t)
  <2>1. node' \in [Buckets -> Seq(Slot)]
      BY <1>0, <1>17, ClearsAll DEF CleanBucket
  <2>2. Cardinality(Occupied(at[t])) \in Int
      BY <1>0, OccupiedIs, FS_CardinalityType
  <2>3. TableTypes'
      BY <1>0, <1>17, <2>1 DEF CleanBucket, TableTypes
  <2>4. LockTypes' /\ CallTypes'
      BY <1>1, <1>2, <1>3, <1>17, <2>2 DEF CleanBucket
  <2> QED BY <2>3, <2>4 DEF Types
<1>18. CASE Uncount(t)
  <2>1. at[t] < NrBuckets => at[t] + 1 \in Buckets
    <3>1. NrBuckets \in Nat /\ at[t] \in 1 .. NrBuckets
        BY <1>0, Buckets1 DEF Buckets
    <3> QED BY <3>1 DEF Buckets
  <2>2. TableTypes' /\ LockTypes'
      BY <1>0, <1>1, <1>18 DEF Uncount, TableTypes
  <2>3. CASE op[t] = "fetch"
      BY <1>2, <1>3, <1>18, <2>2, <2>3 DEF Uncount, Types
  <2>4. CASE op[t] = "clean" /\ at[t] < NrBuckets
      BY <1>2, <1>3, <1>18, <2>1, <2>2, <2>4 DEF Uncount, Types
  <2>5. CASE op[t] # "fetch" /\ ~ (op[t] = "clean" /\ at[t] < NrBuckets)
      BY <1>2, <1>3, <1>18, <2>2, <2>5 DEF Uncount, Types
  <2> QED BY <2>3, <2>4, <2>5
<1>19. CASE ReadValue(t)
  <2>1. PICK i : Returns(t, i)
      BY <1>19 DEF ReadValue
  <2> QED BY <1>1, <1>2, <1>3, <1>19, <2>1 DEF ReadValue, Types
<1> QED BY <1>4, <1>5, <1>6, <1>7, <1>8, <1>9, <1>10, <1>11, <1>12, <1>13, <1>14, <1>15, <1>16, <1>17,
           <1>18, <1>19 DEF Step, Calls, Inside

LEMMA OthersStay ==
    ASSUME Types, NEW t \in Threads, Step(t), NEW u \in Threads, u # t
    PROVE  /\ pc'[u] = pc[u] /\ op'[u] = op[u] /\ item'[u] = item[u] /\ at'[u] = at[u]
           /\ res'[u] = res[u] /\ num'[u] = num[u]
<1>1. ASSUME NEW l, NEW o, NEW i, NEW b, NEW r, NEW n,
             pc' \in {pc, [pc EXCEPT ![t] = l]}, op' \in {op, [op EXCEPT ![t] = o]},
             item' \in {item, [item EXCEPT ![t] = i]}, at' \in {at, [at EXCEPT ![t] = b]},
             res' \in {res, [res EXCEPT ![t] = r]}, num' \in {num, [num EXCEPT ![t] = n]}
      PROVE  /\ pc'[u] = pc[u] /\ op'[u] = op[u] /\ item'[u] = item[u] /\ at'[u] = at[u]
             /\ res'[u] = res[u] /\ num'[u] = num[u]
    BY <1>1 DEF Types, CallTypes
<1> USE DEF Goes, Returns
<1>2. CASE Calls(t)
  <2>1. CASE \E i \in Items : CallAdd(t, i)
      BY <1>1, <2>1 DEF CallAdd
  <2>2. CASE \E o \in KeyOps, k \in Keys : CallKey(t, o, k)
      BY <1>1, <2>2 DEF CallKey
  <2>3. CASE hasht_clean_table(t)
      BY <1>1, <2>3 DEF hasht_clean_table
  <2> QED BY <1>2, <2>1, <2>2, <2>3 DEF Calls
<1>3. CASE Lock(t)
    BY <1>1, <1>3 DEF Lock, locals
<1>4. CASE AddPlaces(t)
    BY <1>1, <1>4 DEF AddPlaces, locals
<1>5. CASE AddFails(t)
    BY <1>1, <1>5 DEF AddFails
<1>6. CASE AddCounts(t)
    BY <1>1, <1>6 DEF AddCounts
<1>7. CASE FindsNone(t)
    BY <1>1, <1>7 DEF FindsNone
<1>8. CASE Modify(t)
    BY <1>1, <1>8 DEF Modify
<1>9. CASE Deletes(t)
    BY <1>1, <1>9 DEF Deletes
<1>10. CASE FetchClears(t)
    BY <1>1, <1>10 DEF FetchClears
<1>11. CASE FetchStores(t)
    BY <1>1, <1>11 DEF FetchStores
<1>12. CASE CleanBucket(t)
    BY <1>1, <1>12 DEF CleanBucket
<1>13. CASE FindNode(t)
  <2>1. PICK r : res' = [res EXCEPT ![t] = r]
      BY <1>13 DEF FindNode
  <2> QED BY <1>1, <1>13, <2>1 DEF FindNode
<1>14. CASE ReadValue(t)
  <2>1. PICK i : Returns(t, i)
      BY <1>14 DEF ReadValue
  <2> QED BY <1>1, <1>14, <2>1 DEF ReadValue
<1>15. CASE Uncount(t)
  <2>1. CASE op[t] = "fetch"
      BY <1>15, <2>1 DEF Uncount, Types, CallTypes
  <2>2. CASE op[t] = "clean" /\ at[t] < NrBuckets
      BY <1>15, <2>2 DEF Uncount, Types, CallTypes
  <2>3. CASE op[t] # "fetch" /\ ~ (op[t] = "clean" /\ at[t] < NrBuckets)
      BY <1>15, <2>3 DEF Uncount, Types, CallTypes
  <2> QED BY <2>1, <2>2, <2>3
<1> QED BY <1>2, <1>3, <1>4, <1>5, <1>6, <1>7, <1>8, <1>9, <1>10, <1>11, <1>12, <1>13, <1>14, <1>15
        DEF Step, Inside

LEMMA InCallKept ==
    ASSUME Types, NEW t \in Threads, InCall(t), Step(t)
    PROVE  InCall(t)'
<1>0. /\ t \in DOMAIN pc /\ t \in DOMAIN op /\ t \in DOMAIN item /\ t \in DOMAIN num
      /\ CallTypes
  <2>1. DOMAIN item = Threads
      BY DEF Types, CallTypes
  <2> QED BY <2>1 DEF Types, CallTypes
<1> USE DEF Goes, Returns
<1>1. CASE \E i \in Items : CallAdd(t, i)
    BY <1>0, <1>1 DEF CallAdd, Begins, InCall
<1>2. CASE \E o \in KeyOps, k \in Keys : CallKey(t, o, k)
    BY <1>0, <1>2 DEF CallKey, Begins, InCall, KeyOps
<1>3. CASE hasht_clean_table(t)
    BY <1>0, <1>3 DEF hasht_clean_table, Begins, InCall
<1>4. CASE Lock(t) \/ AddPlaces(t)
    BY <1>0, <1>4 DEF Lock, AddPlaces, locals, InCall
<1>5. CASE AddFails(t) \/ AddCounts(t) \/ FindsNone(t) \/ Modify(t) \/ ReadValue(t)
    BY <1>0, <1>5 DEF AddFails, AddCounts, FindsNone, Modify, ReadValue, InCall
<1>6. CASE FindNode(t)
    BY <1>0, <1>6 DEF FindNode, Finds, InCall
<1>7. CASE Deletes(t)
    BY <1>0, <1>7 DEF Deletes, Finds, InCall
<1>8. CASE FetchClears(t) \/ FetchStores(t)
    BY <1>0, <1>8 DEF FetchClears, FetchStores, InCall
<1>9. CASE CleanBucket(t)
  <2>1. Cardinality(Occupied(at[t])) \in Nat
      BY <1>0, OccupiedIs, FS_CardinalityType DEF CallTypes
  <2> QED BY <1>0, <1>9, <2>1 DEF CleanBucket, InCall
<1>10. CASE Uncount(t)
  <2>1. CASE op[t] = "fetch"
      BY <1>0, <1>10, <2>1 DEF Uncount, InCall
  <2>2. CASE op[t] = "clean" /\ at[t] < NrBuckets
      BY <1>0, <1>10, <2>2 DEF Uncount, InCall
  <2>3. CASE op[t] # "fetch" /\ ~ (op[t] = "clean" /\ at[t] < NrBuckets)
      BY <1>0, <1>10, <2>3 DEF Uncount, InCall
  <2> QED BY <2>1, <2>2, <2>3
<1> QED BY <1>1, <1>2, <1>3, <1>4, <1>5, <1>6, <1>7, <1>8, <1>9, <1>10 DEF Step, Calls, Inside

LEMMA LocksKept ==
    ASSUME Types, LocksHeld, NEW t \in Threads, Step(t)
    PROVE  LocksHeld'
<1>0. /\ CallTypes /\ LockTypes /\ at[t] \in Buckets /\ t \in DOMAIN pc /\ t \in DOMAIN op
      /\ NoThread \notin Threads
    BY NamesAssumption DEF Types, CallTypes
<1> USE DEF Goes, Returns
<1>1. ASSUME Unlocks(t), ~ AtWork(t)' PROVE LocksHeld'
  <2>1. \A b \in Buckets : /\ writer'[b] \in {writer[b], NoThread}
                           /\ writer'[b] # writer[b] => writer[b] = t
                           /\ readers'[b] \subseteq readers[b] /\ readers[b] \ {t} \subseteq readers'[b]
      BY <1>1, Unlocked
  <2>2. \A b \in Buckets : writer'[b] # NoThread => readers'[b] = {}
      BY <2>1 DEF LocksHeld
  <2>3. ASSUME NEW u \in Threads, AtWork(u)' PROVE HasLock(u)'
    <3>1. u # t /\ pc'[u] = pc[u] /\ op'[u] = op[u] /\ at'[u] = at[u] /\ at[u] \in Buckets
        BY <1>0, <1>1, <2>3, OthersStay DEF CallTypes
    <3>2. AtWork(u)
        BY <2>3, <3>1 DEF AtWork
    <3> QED BY <1>0, <2>1, <3>1, <3>2 DEF LocksHeld, HasLock
  <2> QED BY <2>2, <2>3 DEF LocksHeld
<1>2. ASSUME UNCHANGED locks, AtWork(t)' => HasLock(t)' PROVE LocksHeld'
  <2>1. ASSUME NEW u \in Threads, AtWork(u)', u # t PROVE HasLock(u)'
    <3>1. pc'[u] = pc[u] /\ op'[u] = op[u] /\ at'[u] = at[u]
        BY <2>1, OthersStay
    <3> QED BY <1>2, <2>1, <3>1 DEF LocksHeld, HasLock, AtWork, locks
  <2> QED BY <1>2, <2>1 DEF LocksHeld, locks
<1>3. CASE Calls(t)
  <2>1. UNCHANGED locks /\ pc'[t] \in {"idle", "lock"}
      BY <1>0, <1>3 DEF Calls, CallAdd, CallKey, hasht_clean_table
  <2> QED BY <1>2, <2>1 DEF AtWork
<1>4. CASE Lock(t)
  <2>1. PICK b \in Buckets : b = at[t]
      BY <1>0
  <2>2. at' = at /\ op' = op /\ pc[t] = "lock"
      BY <1>4 DEF Lock, locals
  <2>3. CASE /\ op[t] \in WriteOps /\ (writer[b] = t \/ (writer[b] = NoThread /\ readers[b] = {}))
             /\ writer' = [writer EXCEPT ![b] = t] /\ readers' = readers
    <3>1. \A c \in Buckets : writer'[c] = IF c = b THEN t ELSE writer[c]
        BY <1>0, <2>3 DEF LockTypes
    <3>2. readers[b] = {}
        BY <1>0, <2>1, <2>3 DEF LocksHeld
    <3>3. \A c \in Buckets : writer'[c] # NoThread => readers'[c] = {}
        BY <2>3, <3>1, <3>2 DEF LocksHeld
    <3>4. ASSUME NEW u \in Threads, AtWork(u)' PROVE HasLock(u)'
      <4>1. CASE u = t
          BY <2>1, <2>2, <3>1, <4>1 DEF HasLock
      <4>2. CASE u # t
        <5>1. AtWork(u) /\ at[u] \in Buckets
            BY <1>0, <3>4, <4>2, OthersStay DEF AtWork, CallTypes
        <5>2. HasLock(u)
            BY <5>1 DEF LocksHeld
        <5> QED BY <1>0, <2>2, <2>3, <3>1, <3>2, <4>2, <5>1, <5>2 DEF HasLock
      <4> QED BY <4>1, <4>2
    <3> QED BY <3>3, <3>4 DEF LocksHeld
  <2>4. CASE /\ op[t] \notin WriteOps /\ writer[b] \in {NoThread, t} /\ writer' = writer
             /\ readers' = [readers EXCEPT ![b] = IF writer[b] = t THEN @ ELSE @ \cup {t}]
    <3>1. \A c \in Buckets : readers'[c] = IF c = b /\ writer[b] # t THEN readers[c] \cup {t} ELSE readers[c]
        BY <1>0, <2>4 DEF LockTypes
    <3>2. \A c \in Buckets : writer'[c] # NoThread => readers'[c] = {}
        BY <2>4, <3>1 DEF LocksHeld
    <3>3. ASSUME NEW u \in Threads, AtWork(u)' PROVE HasLock(u)'
      <4>1. CASE u = t
          BY <2>1, <2>2, <2>4, <3>1, <4>1 DEF HasLock
      <4>2. CASE u # t
        <5>1. AtWork(u) /\ at[u] \in Buckets
            BY <1>0, <3>3, <4>2, OthersStay DEF AtWork, CallTypes
        <5>2. HasLock(u)
            BY <5>1 DEF LocksHeld
        <5> QED BY <1>0, <2>2, <2>4, <3>1, <4>2, <5>1, <5>2 DEF HasLock
      <4> QED BY <4>1, <4>2
    <3> QED BY <3>2, <3>3 DEF LocksHeld
  <2> QED BY <1>4, <2>1, <2>3, <2>4 DEF Lock
<1>5. CASE AddPlaces(t) \/ Deletes(t) \/ FetchStores(t) \/ CleanBucket(t) \/ FindsNone(t) \/ Modify(t)
  <2>1. Unlocks(t) /\ pc'[t] \in {"idle", "count", "uncount"}
      BY <1>0, <1>5 DEF AddPlaces, Deletes, FetchStores, CleanBucket, FindsNone, Modify
  <2> QED BY <1>1, <2>1 DEF AtWork
<1>6. CASE AddFails(t) \/ AddCounts(t) \/ Uncount(t) \/ ReadValue(t)
  <2>1. UNCHANGED locks
      BY <1>6 DEF AddFails, AddCounts, Uncount, ReadValue
  <2>2. CASE Uncount(t)
    <3>1. pc'[t] \in {"idle", "value", "lock"}
      <4>1. CASE op[t] = "fetch"
          BY <1>0, <2>2, <4>1 DEF Uncount
      <4>2. CASE op[t] = "clean" /\ at[t] < NrBuckets
          BY <1>0, <2>2, <4>2 DEF Uncount
      <4>3. CASE op[t] # "fetch" /\ ~ (op[t] = "clean" /\ at[t] < NrBuckets)
          BY <1>0, <2>2, <4>3 DEF Uncount
      <4> QED BY <4>1, <4>2, <4>3
    <3> QED BY <1>2, <2>1, <3>1 DEF AtWork
  <2>3. CASE AddFails(t) \/ AddCounts(t) \/ ReadValue(t)
    <3>1. pc'[t] = "idle"
        BY <1>0, <2>3 DEF AddFails, AddCounts, ReadValue
    <3> QED BY <1>2, <2>1, <3>1 DEF AtWork
  <2> QED BY <1>6, <2>2, <2>3
<1>7. CASE FindNode(t)
  <2>1. AtWork(t) /\ at' = at /\ op' = op
      BY <1>7 DEF FindNode, Finds, AtWork, Goes
  <2>2. CASE op[t] = "find"
      BY <1>0, <1>1, <1>7, <2>2 DEF FindNode, AtWork
  <2>3. CASE op[t] # "find"
      BY <1>2, <1>7, <2>1, <2>3 DEF FindNode, LocksHeld, HasLock, locks
  <2> QED BY <2>2, <2>3
<1>8. CASE FetchClears(t)
  <2>1. AtWork(t) /\ at' = at /\ op' = op /\ UNCHANGED locks
      BY <1>8 DEF FetchClears, AtWork
  <2> QED BY <1>2, <2>1 DEF LocksHeld, HasLock, locks
<1> QED BY <1>3, <1>4, <1>5, <1>6, <1>7, <1>8 DEF Step, Inside

(* A thread that writes in its bucket is there alone, but for those that   *)
(* only look.                                                              *)
LEMMA Alone ==
    ASSUME OneFetcher, LocksHeld, \A v \in Threads : InCall(v),
           NEW t \in Threads, AtWork(t), op[t] \in WriteOps \cup {"fetch"},
           NEW u \in Threads, u # t, pc[u] \in {"found", "store"}
    PROVE  at[u] # at[t]
<1>1. op[u] = "fetch" /\ "fetch" \in MayCall[u] /\ AtWork(u) /\ op[t] \in MayCall[t]
    BY DEF InCall, AtWork, WriteOps
<1>2. op[t] \in WriteOps
    BY <1>1 DEF OneFetcher
<1>3. HasLock(t) /\ HasLock(u)
    BY <1>1 DEF LocksHeld
<1> QED BY <1>2, <1>3, NamesAssumption DEF HasLock, WriteOps

LEMMA OneBucket ==
    ASSUME Types, NEW t \in Threads, InCall(t), FetchKnows(t), Step(t)
    PROVE  \/ node' = node /\ nr' = nr
           \/ /\ AtWork(t) /\ op[t] \in WriteOps \cup {"fetch"}
              /\ \A c \in Buckets : c # at[t] => Occupied(c)' = Occupied(c) /\ nr'[c] = nr[c]
<1>0. at[t] \in Buckets /\ nr \in [Buckets -> Int]
    BY DEF Types, TableTypes, CallTypes
<1>1. ASSUME NEW S, Becomes(at[t], S), \A c \in Buckets : c # at[t] => nr'[c] = nr[c],
             AtWork(t), op[t] \in WriteOps \cup {"fetch"}
      PROVE  /\ AtWork(t) /\ op[t] \in WriteOps \cup {"fetch"}
             /\ \A c \in Buckets : c # at[t] => Occupied(c)' = Occupied(c) /\ nr'[c] = nr[c]
    BY <1>0, <1>1 DEF Becomes
<1>2. CASE Calls(t)
    BY <1>2 DEF Calls, CallAdd, CallKey, hasht_clean_table, table
<1>3. CASE Lock(t) \/ AddFails(t) \/ AddCounts(t) \/ FindsNone(t) \/ FindNode(t) \/ Modify(t)
           \/ Uncount(t) \/ ReadValue(t)
    BY <1>3 DEF Lock, AddFails, AddCounts, FindsNone, FindNode, Modify, Uncount, ReadValue, table
<1>4. CASE AddPlaces(t)
  <2>1. op[t] = "add" /\ item[t] \in Items /\ AtWork(t)
      /\ \A c \in Buckets : c # at[t] => nr'[c] = nr[c]
      BY <1>0, <1>4 DEF InCall, AddPlaces, AtWork
  <2>2. PICK pos \in Nat : Becomes(at[t], Occupied(at[t]) \cup {pos})
      BY <1>4, <2>1, PlacesOne
  <2> QED BY <1>1, <2>1, <2>2 DEF WriteOps
<1>5. CASE Deletes(t)
  <2>1. op[t] = "delete" /\ AtWork(t)
      /\ \A c \in Buckets : c # at[t] => nr'[c] = nr[c]
      BY <1>0, <1>5 DEF Deletes, Finds, AtWork
  <2>2. PICK s \in Occupied(at[t]) : node' = [node EXCEPT ![at[t]][s] = NoItem]
      BY <1>5, FoundIs DEF Deletes, Finds
  <2>3. Becomes(at[t], Occupied(at[t]) \ {s})
      BY <1>0, <2>2, ClearsOne
  <2> QED BY <1>1, <2>1, <2>3 DEF WriteOps
<1>6. CASE FetchClears(t)
  <2>1. op[t] = "fetch" /\ AtWork(t) /\ nr' = nr /\ res[t][1] \in Occupied(at[t])
      BY <1>6 DEF FetchClears, AtWork, InCall, FetchKnows
  <2>2. Becomes(at[t], Occupied(at[t]) \ {res[t][1]})
      BY <1>0, <1>6, <2>1, ClearsOne DEF FetchClears
  <2> QED BY <1>1, <2>1, <2>2
<1>7. CASE FetchStores(t)
  <2>1. op[t] = "fetch" /\ AtWork(t) /\ node' = node
      /\ \A c \in Buckets : c # at[t] => nr'[c] = nr[c]
      BY <1>0, <1>7 DEF FetchStores, AtWork, InCall
  <2>2. Becomes(at[t], Occupied(at[t]))
      BY <2>1 DEF Becomes, Occupied
  <2> QED BY <1>1, <2>1, <2>2
<1>8. CASE CleanBucket(t)
  <2>1. op[t] = "clean" /\ AtWork(t)
      /\ \A c \in Buckets : c # at[t] => nr'[c] = nr[c]
      BY <1>0, <1>8 DEF CleanBucket, AtWork
  <2>2. Becomes(at[t], {})
      BY <1>0, <1>8, ClearsAll DEF CleanBucket
  <2> QED BY <1>1, <2>1, <2>2 DEF WriteOps
<1> QED BY <1>2, <1>3, <1>4, <1>5, <1>6, <1>7, <1>8 DEF Step, Inside

LEMMA KnowsKept ==
    ASSUME OneFetcher, Types, LocksHeld, \A v \in Threads : InCall(v),
           \A v \in Threads : FetchKnows(v), NEW t \in Threads, Step(t)
    PROVE  \A u \in Threads : FetchKnows(u)'
<1>0. /\ t \in DOMAIN pc /\ t \in DOMAIN num /\ t \in DOMAIN res /\ DOMAIN pc = Threads
      /\ InCall(t) /\ FetchKnows(t) /\ at[t] \in Buckets /\ \A u \in Threads : at[u] \in Buckets
    BY DEF Types, CallTypes
<1>1. ASSUME NEW u \in Threads, u # t PROVE FetchKnows(u)'
  <2>1. pc'[u] = pc[u] /\ at'[u] = at[u] /\ res'[u] = res[u] /\ num'[u] = num[u]
      BY <1>1, OthersStay
  <2>2. CASE node' = node /\ nr' = nr
      BY <2>1, <2>2 DEF FetchKnows, Occupied
  <2>3. CASE /\ AtWork(t) /\ op[t] \in WriteOps \cup {"fetch"}
             /\ \A c \in Buckets : c # at[t] => Occupied(c)' = Occupied(c) /\ nr'[c] = nr[c]
    <3>1. CASE pc[u] \in {"found", "store"}
      <4>1. at[u] # at[t] /\ at[u] \in Buckets
          BY <1>0, <1>1, <2>3, <3>1, Alone
      <4>2. Occupied(at[u])' = Occupied(at[u]) /\ nr'[at[u]] = nr[at[u]]
        <5>1. PICK c \in Buckets : c = at[u] /\ c = at'[u] /\ c # at[t]
            BY <2>1, <4>1
        <5>2. Occupied(c)' = Occupied(c) /\ nr'[c] = nr[c]
            BY <2>3, <5>1
        <5> QED BY <5>1, <5>2 DEF Occupied
      <4> QED BY <2>1, <4>2 DEF FetchKnows
    <3> QED BY <2>1, <3>1 DEF FetchKnows
  <2> QED BY <1>0, <2>2, <2>3, OneBucket
<1> SUFFICES FetchKnows(t)'
    BY <1>1
<1> USE DEF Goes, Returns
<1>2. ASSUME pc'[t] \notin {"found", "store"} PROVE FetchKnows(t)'
    BY <1>2 DEF FetchKnows
<1>3. CASE Calls(t)
  <2>1. pc'[t] \in {"idle", "lock"}
      BY <1>0, <1>3 DEF Calls, CallAdd, CallKey, hasht_clean_table
  <2> QED BY <1>2, <2>1
<1>4. CASE Lock(t) \/ AddPlaces(t) \/ Deletes(t) \/ FetchStores(t) \/ CleanBucket(t)
  <2>1. pc'[t] \in {"locked", "count", "uncount"}
      BY <1>0, <1>4 DEF Lock, AddPlaces, Deletes, FetchStores, CleanBucket
  <2> QED BY <1>2, <2>1
<1>5. CASE AddFails(t) \/ AddCounts(t) \/ FindsNone(t) \/ Modify(t) \/ ReadValue(t)
  <2>1. pc'[t] = "idle"
      BY <1>0, <1>5 DEF AddFails, AddCounts, FindsNone, Modify, ReadValue
  <2> QED BY <1>2, <2>1
<1>6. CASE FindNode(t)
  <2>1. at' = at /\ node' = node
      BY <1>6 DEF FindNode, table
  <2>2. res'[t][1] \in Occupied(at[t]) /\ pc'[t] # "store"
      BY <1>0, <1>6, FoundIs DEF FindNode, Finds
  <2> QED BY <2>1, <2>2 DEF FetchKnows, Occupied
<1>7. CASE FetchClears(t)
  <2>1. at' = at /\ nr' = nr /\ num'[t] = nr[at[t]] /\ pc'[t] = "store"
      BY <1>0, <1>7 DEF FetchClears
  <2> QED BY <2>1 DEF FetchKnows
<1>8. CASE Uncount(t)
  <2>1. pc'[t] \in {"idle", "value", "lock"}
    <3>1. CASE op[t] = "fetch"
        BY <1>0, <1>8, <3>1 DEF Uncount
    <3>2. CASE op[t] = "clean" /\ at[t] < NrBuckets
        BY <1>0, <1>8, <3>2 DEF Uncount
    <3>3. CASE op[t] # "fetch" /\ ~ (op[t] = "clean" /\ at[t] < NrBuckets)
        BY <1>0, <1>8, <3>3 DEF Uncount
    <3> QED BY <3>1, <3>2, <3>3
  <2> QED BY <1>2, <2>1
<1> QED BY <1>3, <1>4, <1>5, <1>6, <1>7, <1>8 DEF Step, Inside

-----------------------------------------------------------------------------
(* The counts.                                                             *)

One(P) == IF P THEN 1 ELSE 0

(* A set of threads in which only t may come or go.                        *)
LEMMA MemberMoves ==
    ASSUME NEW S \in SUBSET Threads, NEW T \in SUBSET Threads, NEW t \in Threads,
           \A u \in Threads : u # t => (u \in T <=> u \in S)
    PROVE  /\ IsFiniteSet(S) /\ IsFiniteSet(T) /\ Cardinality(S) \in Nat /\ Cardinality(T) \in Nat
           /\ Cardinality(T) = Cardinality(S) - One(t \in S) + One(t \in T)
<1>1. IsFiniteSet(S) /\ IsFiniteSet(T)
    BY NamesAssumption, FS_Subset
<1>2. Cardinality(S) \in Nat /\ Cardinality(T) \in Nat
    BY <1>1, FS_CardinalityType
<1>3. CASE t \in S <=> t \in T
  <2>1. S = T
      BY <1>3
  <2> QED BY <1>1, <1>2, <1>3, <2>1 DEF One
<1>4. CASE t \in S /\ t \notin T
  <2>1. T = S \ {t}
      BY <1>4
  <2> QED BY <1>1, <1>2, <1>4, <2>1, FS_RemoveElement DEF One
<1>5. CASE t \notin S /\ t \in T
  <2>1. T = S \cup {t}
      BY <1>5
  <2> QED BY <1>1, <1>2, <1>5, <2>1, FS_AddElement DEF One
<1> QED BY <1>3, <1>4, <1>5

LEMMA TakenBecomes ==
    ASSUME Types, Finite, NEW b \in Buckets, NEW S, IsFiniteSet(S), Becomes(b, S)
    PROVE  /\ IsFiniteSet(Taken') /\ Cardinality(Taken') \in Nat
           /\ Cardinality(Taken') = Cardinality(Taken) - Cardinality(Occupied(b)) + Cardinality(S)
<1>1. PICK f, g : f = [c \in Buckets |-> Occupied(c)] /\ g = [c \in Buckets |-> IF c = b THEN S ELSE Occupied(c)]
    OBVIOUS
<1>2. f[b] = Occupied(b) /\ g[b] = S /\ \A c \in Buckets \ {b} : g[c] = f[c]
    BY <1>1
<1>3. Taken = Rows(Buckets, f)
    BY <1>1 DEF Taken, Rows
<1>4. Taken' = Rows(Buckets, g)
  <2>1. \A c \in Buckets : Occupied(c)' = g[c]
      BY <1>1 DEF Becomes
  <2>2. Taken' = UNION {{c} \X Occupied(c)' : c \in Buckets}
      BY DEF Taken, Occupied
  <2> QED BY <2>1, <2>2 DEF Rows
<1>5. IsFiniteSet(f[b]) /\ IsFiniteSet(g[b]) /\ IsFiniteSet(Rows(Buckets, f))
    BY <1>2, <1>3, OccupiedIs DEF Finite
<1>6. /\ IsFiniteSet(Rows(Buckets, g))
      /\ Cardinality(Rows(Buckets, g)) = Cardinality(Rows(Buckets, f)) - Cardinality(f[b]) + Cardinality(g[b])
    BY <1>2, <1>5, RowChanges
<1>7. Cardinality(Rows(Buckets, g)) \in Nat
    BY <1>6, FS_CardinalityType
<1> QED BY <1>2, <1>3, <1>4, <1>6, <1>7

LEMMA OwedBecomes ==
    ASSUME Finite, NEW t \in Threads, NEW m \in Nat, NEW n \in Nat, Owes(t) = m, Owes(t)' = n,
           \A u \in Threads : u # t => Owes(u)' = Owes(u)
    PROVE  /\ IsFiniteSet(Owed') /\ Cardinality(Owed') \in Nat
           /\ Cardinality(Owed') = Cardinality(Owed) - m + n
<1>1. PICK f, g : /\ f = [u \in Threads |-> 1 .. Owes(u)]
                  /\ g = [u \in Threads |-> IF u = t THEN 1 .. n ELSE 1 .. Owes(u)]
    OBVIOUS
<1>2. f[t] = 1 .. m /\ g[t] = 1 .. n /\ \A u \in Threads \ {t} : g[u] = f[u]
    BY <1>1
<1>3. Owed = Rows(Threads, f)
    BY <1>1 DEF Owed, Rows
<1>4. Owed' = Rows(Threads, g)
  <2>1. \A u \in Threads : (1 .. Owes(u))' = g[u]
      BY <1>1
  <2>2. Owed' = UNION {{u} \X (1 .. Owes(u))' : u \in Threads}
      BY DEF Owed
  <2> QED BY <2>1, <2>2 DEF Rows
<1>5. /\ IsFiniteSet(f[t]) /\ IsFiniteSet(g[t]) /\ IsFiniteSet(Rows(Threads, f))
      /\ Cardinality(f[t]) = m /\ Cardinality(g[t]) = n
  <2>1. \A k \in Nat : IsFiniteSet(1 .. k) /\ Cardinality(1 .. k) = k
      BY FS_Interval
  <2> QED BY <1>2, <1>3, <2>1 DEF Finite
<1>6. /\ IsFiniteSet(Rows(Threads, g))
      /\ Cardinality(Rows(Threads, g)) = Cardinality(Rows(Threads, f)) - Cardinality(f[t]) + Cardinality(g[t])
    BY <1>2, <1>5, RowChanges
<1>7. Cardinality(Rows(Threads, g)) \in Nat
    BY <1>6, FS_CardinalityType
<1> QED BY <1>3, <1>4, <1>5, <1>6, <1>7

LEMMA OwesIs ==
    ASSUME NEW t \in Threads, InCall(t)
    PROVE  /\ Owes(t) \in Nat
           /\ pc[t] = "store" => Owes(t) = 1
           /\ pc[t] = "uncount" => Owes(t) = num[t]
           /\ pc[t] \notin {"store", "uncount"} => Owes(t) = 0
BY DEF Owes, InCall

(* What the sets of threads become when thread t makes a step.             *)
LEMMA StepCounts ==
    ASSUME Types, Finite, \A v \in Threads : InCall(v), NEW t \in Threads, Step(t)
    PROVE  /\ Owes(t) \in Nat /\ Owes(t)' \in Nat /\ Cardinality(Owed) \in Nat
           /\ IsFiniteSet(Owed') /\ Cardinality(Owed') \in Nat
           /\ Cardinality(Owed') = Cardinality(Owed) - Owes(t) + Owes(t)'
           /\ Cardinality(Adding) \in Nat /\ Cardinality(Adding') \in Nat
           /\ Cardinality(Adding') = Cardinality(Adding) - One(pc[t] = "count") + One(pc'[t] = "count")
           /\ Cardinality(InAdd) \in Nat /\ Cardinality(InAdd') \in Nat
           /\ Cardinality(InAdd') = Cardinality(InAdd) - One(op[t] = "add") + One(op'[t] = "add")
           /\ \A b : /\ Cardinality(Storing(b)) \in Nat /\ Cardinality(Storing(b)') \in Nat
                     /\ Cardinality(Storing(b)') = Cardinality(Storing(b)) - One(t \in Storing(b))
                                                                          + One((t \in Storing(b))')
<1>1. InCall(t) /\ InCall(t)'
    BY InCallKept
<1>2. \A u \in Threads : u # t => /\ pc'[u] = pc[u] /\ op'[u] = op[u] /\ at'[u] = at[u] /\ num'[u] = num[u]
    BY OthersStay
<1>3. Owes(t) \in Nat /\ Owes(t)' \in Nat
  <2>1. Owes(t) \in Nat
      BY <1>1, OwesIs
  <2>2. Owes(t)' \in Nat
      BY <1>1 DEF Owes, InCall
  <2> QED BY <2>1, <2>2
<1>4. /\ IsFiniteSet(Owed') /\ Cardinality(Owed') \in Nat
      /\ Cardinality(Owed') = Cardinality(Owed) - Owes(t) + Owes(t)'
  <2>1. PICK m \in Nat, n \in Nat : Owes(t) = m /\ Owes(t)' = n
      BY <1>3
  <2>2. \A u \in Threads : u # t => Owes(u)' = Owes(u)
      BY <1>2 DEF Owes
  <2> QED BY <2>1, <2>2, OwedBecomes
<1>5. /\ Cardinality(Adding) \in Nat /\ Cardinality(Adding') \in Nat
      /\ Cardinality(Adding') = Cardinality(Adding) - One(pc[t] = "count") + One(pc'[t] = "count")
  <2>1. PICK S, T : S = Adding /\ T = Adding'
      OBVIOUS
  <2>2. S \in SUBSET Threads /\ T \in SUBSET Threads
      BY <2>1 DEF Adding
  <2>3. \A u \in Threads : u # t => (u \in T <=> u \in S)
      BY <1>2, <2>1 DEF Adding
  <2>4. (t \in S <=> pc[t] = "count") /\ (t \in T <=> pc'[t] = "count")
      BY <1>1, <2>1 DEF Adding, InCall
  <2>5. One(t \in S) = One(pc[t] = "count") /\ One(t \in T) = One(pc'[t] = "count")
      BY <2>4 DEF One
  <2>6. /\ Cardinality(S) \in Nat /\ Cardinality(T) \in Nat
        /\ Cardinality(T) = Cardinality(S) - One(t \in S) + One(t \in T)
      BY <2>2, <2>3, MemberMoves
  <2> QED BY <2>1, <2>5, <2>6
<1>6. /\ Cardinality(InAdd) \in Nat /\ Cardinality(InAdd') \in Nat
      /\ Cardinality(InAdd') = Cardinality(InAdd) - One(op[t] = "add") + One(op'[t] = "add")
  <2>1. PICK S, T : S = InAdd /\ T = InAdd'
      OBVIOUS
  <2>2. S \in SUBSET Threads /\ T \in SUBSET Threads
      BY <2>1 DEF InAdd
  <2>3. \A u \in Threads : u # t => (u \in T <=> u \in S)
      BY <1>2, <2>1 DEF InAdd
  <2>4. (t \in S <=> op[t] = "add") /\ (t \in T <=> op'[t] = "add")
      BY <2>1 DEF InAdd
  <2>5. One(t \in S) = One(op[t] = "add") /\ One(t \in T) = One(op'[t] = "add")
      BY <2>4 DEF One
  <2>6. /\ Cardinality(S) \in Nat /\ Cardinality(T) \in Nat
        /\ Cardinality(T) = Cardinality(S) - One(t \in S) + One(t \in T)
      BY <2>2, <2>3, MemberMoves
  <2> QED BY <2>1, <2>5, <2>6
<1>7. ASSUME NEW b
      PROVE  /\ Cardinality(Storing(b)) \in Nat /\ Cardinality(Storing(b)') \in Nat
             /\ Cardinality(Storing(b)') = Cardinality(Storing(b)) - One(t \in Storing(b))
                                                                  + One((t \in Storing(b))')
  <2>1. PICK S, T : S = Storing(b) /\ T = Storing(b)'
      OBVIOUS
  <2>2. S \in SUBSET Threads /\ T \in SUBSET Threads
      BY <2>1 DEF Storing
  <2>3. \A u \in Threads : u # t => (u \in T <=> u \in S)
      BY <1>2, <2>1 DEF Storing
  <2>4. One(t \in S) = One(t \in Storing(b)) /\ One(t \in T) = One((t \in Storing(b))')
      BY <2>1
  <2>6. /\ Cardinality(S) \in Nat /\ Cardinality(T) \in Nat
        /\ Cardinality(T) = Cardinality(S) - One(t \in S) + One(t \in T)
      BY <2>2, <2>3, MemberMoves
  <2> QED BY <2>1, <2>4, <2>6
<1>8. Cardinality(Owed) \in Nat
    BY FS_CardinalityType DEF Finite
<1> QED BY <1>3, <1>4, <1>5, <1>6, <1>7, <1>8

(* The counts still add up if bucket b, the count of the table and what    *)
(* thread t has still to do have changed by as much.                       *)
LEMMA CountsMove ==
    ASSUME Types, Finite, CountsAddUp, \A v \in Threads : InCall(v), NEW t \in Threads, Step(t),
           NEW b \in Buckets, NEW S, IsFiniteSet(S), Becomes(b, S),
           pc[t] = "store" => at[t] = b, pc'[t] = "store" => at'[t] = b,
           \A c \in Buckets : c # b => nr'[c] = nr[c],
           nr'[b] \in Int, nr_nodes' \in Int,
           nr'[b] = nr[b] + Cardinality(S) - Cardinality(Occupied(b))
                    + One(pc'[t] = "store") - One(pc[t] = "store"),
           nr_nodes' + One(pc'[t] = "count") - One(pc[t] = "count")
               = nr_nodes + Cardinality(S) - Cardinality(Occupied(b)) + Owes(t)' - Owes(t)
    PROVE  CountsAddUp' /\ Finite'
<1>0. /\ nr \in [Buckets -> Int] /\ nr_nodes \in Int
      /\ IsFiniteSet(Occupied(b)) /\ Cardinality(Occupied(b)) \in Nat /\ Cardinality(S) \in Nat
      /\ IsFiniteSet(Taken) /\ Cardinality(Taken) \in Nat
  <2>1. IsFiniteSet(Occupied(b))
      BY OccupiedIs
  <2> QED BY <2>1, FS_CardinalityType DEF Types, TableTypes, Finite
<1>1. /\ IsFiniteSet(Taken') /\ Cardinality(Taken') \in Nat
      /\ Cardinality(Taken') = Cardinality(Taken) - Cardinality(Occupied(b)) + Cardinality(S)
    BY TakenBecomes
<1>2. \A P : One(P) \in {0, 1}
    BY DEF One
<1>3. nr_nodes' + Cardinality(Adding') = Cardinality(Taken') + Cardinality(Owed')
  <2>1. nr_nodes + Cardinality(Adding) = Cardinality(Taken) + Cardinality(Owed)
      BY DEF CountsAddUp
  <2> QED BY <1>0, <1>1, <1>2, <2>1, StepCounts
<1>4. ASSUME NEW c \in Buckets
      PROVE  nr'[c] = Cardinality(Occupied(c)') + Cardinality(Storing(c)')
  <2>1. nr[c] = Cardinality(Occupied(c)) + Cardinality(Storing(c))
      BY DEF CountsAddUp
  <2>2. /\ Cardinality(Storing(c)) \in Nat /\ Cardinality(Storing(c)') \in Nat
        /\ Cardinality(Storing(c)') = Cardinality(Storing(c)) - One(t \in Storing(c))
                                                              + One((t \in Storing(c))')
      BY StepCounts
  <2>3. CASE c = b
    <3>1. (t \in Storing(c) <=> pc[t] = "store") /\ ((t \in Storing(c))' <=> pc'[t] = "store")
        BY <2>3 DEF Storing
    <3>2. One(t \in Storing(c)) = One(pc[t] = "store") /\ One((t \in Storing(c))') = One(pc'[t] = "store")
        BY <3>1 DEF One
    <3>3. Occupied(c)' = S
        BY <2>3 DEF Becomes
    <3> QED BY <1>0, <1>2, <2>1, <2>2, <2>3, <3>2, <3>3
  <2>4. CASE c # b
    <3>1. ~ (t \in Storing(c)) /\ ~ (t \in Storing(c))'
        BY <2>4 DEF Storing
    <3>2. One(t \in Storing(c)) = 0 /\ One((t \in Storing(c))') = 0
        BY <3>1 DEF One
    <3>3. Occupied(c)' = Occupied(c) /\ nr'[c] = nr[c]
        BY <2>4 DEF Becomes
    <3> QED BY <1>0, <2>1, <2>2, <3>2, <3>3
  <2> QED BY <2>3, <2>4
<1> QED BY <1>1, <1>3, <1>4, StepCounts DEF CountsAddUp, Finite

LEMMA CountsKept ==
    ASSUME OneFetcher, Types, LocksHeld, Finite, CountsAddUp, \A v \in Threads : InCall(v),
           \A v \in Threads : FetchKnows(v), NEW t \in Threads, Step(t)
    PROVE  CountsAddUp' /\ Finite'
<1>0. /\ t \in DOMAIN pc /\ t \in DOMAIN num /\ InCall(t) /\ FetchKnows(t)
      /\ nr \in [Buckets -> Int] /\ nr_nodes \in Int
    BY DEF Types, TableTypes, CallTypes
<1>1. PICK b \in Buckets : b = at[t]
    BY DEF Types, CallTypes
<1>2. PICK S : S = Occupied(b) /\ IsFiniteSet(S) /\ Cardinality(S) \in Nat /\ nr[b] \in Int
    BY <1>0, OccupiedIs, FS_CardinalityType
<1>3. \A P : One(P) = IF P THEN 1 ELSE 0
    BY DEF One
<1>4. Owes(t) = IF pc[t] = "store" THEN 1 ELSE IF pc[t] = "uncount" THEN num[t] ELSE 0
    BY DEF Owes
<1>5. Owes(t)' = IF pc'[t] = "store" THEN 1 ELSE IF pc'[t] = "uncount" THEN num'[t] ELSE 0
    BY DEF Owes
<1>6. ASSUME node' = node, nr' = nr, nr_nodes' \in Int, pc[t] # "store", pc'[t] # "store",
             nr_nodes' + One(pc'[t] = "count") - One(pc[t] = "count") = nr_nodes + Owes(t)' - Owes(t)
      PROVE  CountsAddUp' /\ Finite'
  <2>1. Becomes(b, S)
      BY <1>2, <1>6 DEF Becomes, Occupied
  <2>2. /\ nr'[b] = nr[b] + Cardinality(S) - Cardinality(Occupied(b))
                    + One(pc'[t] = "store") - One(pc[t] = "store")
        /\ nr_nodes' + One(pc'[t] = "count") - One(pc[t] = "count")
             = nr_nodes + Cardinality(S) - Cardinality(Occupied(b)) + Owes(t)' - Owes(t)
    <3>1. Cardinality(Occupied(b)) = Cardinality(S)
        BY <1>2
    <3>2. Owes(t) \in Nat /\ Owes(t)' \in Nat
        BY StepCounts
    <3> QED BY <1>0, <1>2, <1>3, <1>6, <3>1, <3>2
  <2> QED BY <1>2, <1>6, <2>1, <2>2, CountsMove
<1>7. ASSUME node' = node, nr' = nr, nr_nodes' = nr_nodes,
             pc[t] \notin {"count", "store", "uncount"}, pc'[t] \notin {"count", "store", "uncount"}
      PROVE  CountsAddUp' /\ Finite'
    BY <1>0, <1>3, <1>4, <1>5, <1>6, <1>7
<1>8. ASSUME NEW T, IsFiniteSet(T), Becomes(b, T), Cardinality(T) \in Nat,
             at' = at, NEW n \in Int, nr' = [nr EXCEPT ![b] = n], nr_nodes' = nr_nodes,
             NEW d \in Int, NEW e \in Int,
             d = One(pc'[t] = "store") - One(pc[t] = "store") /\ n = nr[b] + Cardinality(T) - Cardinality(S) + d,
             e = One(pc'[t] = "count") - One(pc[t] = "count"),
             e = Cardinality(T) - Cardinality(S) + Owes(t)' - Owes(t)
      PROVE  CountsAddUp' /\ Finite'
  <2>1. /\ nr'[b] = n /\ \A c \in Buckets : c # b => nr'[c] = nr[c]
      BY <1>0, <1>8
  <2>2. nr'[b] = nr[b] + Cardinality(T) - Cardinality(Occupied(b))
                    + One(pc'[t] = "store") - One(pc[t] = "store")
    <3>1. One(pc'[t] = "store") \in Int /\ One(pc[t] = "store") \in Int
        BY DEF One
    <3> QED BY <1>2, <1>8, <2>1, <3>1
  <2>3. nr_nodes' + One(pc'[t] = "count") - One(pc[t] = "count")
             = nr_nodes + Cardinality(T) - Cardinality(Occupied(b)) + Owes(t)' - Owes(t)
    <3>1. Owes(t) \in Nat /\ Owes(t)' \in Nat
        BY StepCounts
    <3>2. One(pc'[t] = "count") \in Int /\ One(pc[t] = "count") \in Int
        BY DEF One
    <3> QED BY <1>0, <1>2, <1>8, <3>1, <3>2
  <2>4. nr'[b] \in Int /\ nr_nodes' \in Int /\ at'[t] = b /\ at[t] = b
      BY <1>0, <1>1, <1>8, <2>1
  <2> QED BY <1>8, <2>1, <2>2, <2>3, <2>4, CountsMove
<1> USE DEF Goes, Returns
<1>9. CASE Calls(t)
  <2>1. pc[t] = "idle" /\ pc'[t] \in {"idle", "lock"} /\ UNCHANGED table
      BY <1>0, <1>9 DEF Calls, CallAdd, CallKey, hasht_clean_table, Begins
  <2> QED BY <1>7, <2>1 DEF table
<1>10. CASE Lock(t) \/ AddFails(t) \/ FindsNone(t) \/ FindNode(t) \/ Modify(t) \/ ReadValue(t)
  <2>1. pc[t] \in {"lock", "locked", "value"} /\ UNCHANGED table
      BY <1>10 DEF Lock, AddFails, FindsNone, FindNode, Finds, Modify, ReadValue
  <2>2. pc'[t] \in {"idle", "locked", "value", "found"}
      BY <1>0, <1>10 DEF Lock, AddFails, FindsNone, FindNode, Modify, ReadValue
  <2> QED BY <1>7, <2>1, <2>2 DEF table
<1>11. CASE AddPlaces(t)
  <2>1. op[t] = "add" /\ item[t] \in Items
      BY <1>0, <1>11 DEF InCall, AddPlaces
  <2>2. PICK pos \in Nat : pos \notin S /\ Becomes(b, S \cup {pos})
      BY <1>1, <1>2, <1>11, <2>1, PlacesOne
  <2>3. PICK T : T = S \cup {pos} /\ Becomes(b, T) /\ IsFiniteSet(T) /\ Cardinality(T) = Cardinality(S) + 1
      BY <1>2, <2>2, FS_AddElement
  <2>4. /\ nr' = [nr EXCEPT ![b] = nr[b] + 1] /\ nr_nodes' = nr_nodes /\ at' = at
        /\ pc[t] = "locked" /\ pc'[t] = "count" /\ nr[b] + 1 \in Int
      BY <1>0, <1>1, <1>2, <1>11 DEF AddPlaces, locals
  <2>5. /\ One(pc[t] = "count") = 0 /\ One(pc[t] = "store") = 0 /\ Owes(t) = 0
        /\ One(pc'[t] = "count") = 1 /\ One(pc'[t] = "store") = 0 /\ Owes(t)' = 0
      BY <1>4, <1>5, <2>4 DEF One
  <2>6. PICK n, d, e : n = nr[b] + 1 /\ d = 0 /\ e = 1
      OBVIOUS
  <2>7. /\ n \in Int /\ d \in Int /\ e \in Int
        /\ d = One(pc'[t] = "store") - One(pc[t] = "store")
        /\ n = nr[b] + Cardinality(T) - Cardinality(S) + d
        /\ nr' = [nr EXCEPT ![b] = n]
      BY <1>2, <2>3, <2>4, <2>5, <2>6
  <2>8. e = One(pc'[t] = "count") - One(pc[t] = "count") /\ e = Cardinality(T) - Cardinality(S) + Owes(t)' - Owes(t)
      BY <1>2, <2>2, <2>3, <2>4, <2>5, <2>6
  <2>9. Cardinality(T) \in Nat
      BY <2>3, FS_CardinalityType
  <2> QED BY <1>8, <2>3, <2>4, <2>7, <2>8, <2>9
<1>12. CASE AddCounts(t)
  <2>1. node' = node /\ nr' = nr /\ pc[t] = "count" /\ pc'[t] = "idle" /\ nr_nodes' = nr_nodes + 1
      BY <1>0, <1>12 DEF AddCounts
  <2>2. /\ One(pc[t] = "count") = 1 /\ One(pc[t] = "store") = 0 /\ Owes(t) = 0
        /\ One(pc'[t] = "count") = 0 /\ One(pc'[t] = "store") = 0 /\ Owes(t)' = 0
      BY <1>4, <1>5, <2>1 DEF One
  <2>3. /\ nr_nodes' \in Int /\ pc[t] # "store" /\ pc'[t] # "store"
        /\ nr_nodes' + One(pc'[t] = "count") - One(pc[t] = "count") = nr_nodes + Owes(t)' - Owes(t)
      BY <1>0, <2>1, <2>2
  <2> QED BY <1>6, <2>1, <2>3
<1>13. CASE Deletes(t)
  <2>1. PICK s \in S : node' = [node EXCEPT ![b][s] = NoItem]
      BY <1>1, <1>2, <1>13, FoundIs DEF Deletes, Finds
  <2>2. Becomes(b, S \ {s})
      BY <1>2, <2>1, ClearsOne
  <2>3. PICK T : T = S \ {s} /\ Becomes(b, T) /\ IsFiniteSet(T) /\ Cardinality(T) = Cardinality(S) - 1
    <3>1. IsFiniteSet(S \ {s}) /\ Cardinality(S \ {s}) = Cardinality(S) - 1
        BY <1>2, <2>1, FS_RemoveElement
    <3> QED BY <2>2, <3>1
  <2>4. /\ nr' = [nr EXCEPT ![b] = nr[b] - 1] /\ nr_nodes' = nr_nodes /\ at' = at /\ num'[t] = 1
        /\ pc[t] = "locked" /\ pc'[t] = "uncount" /\ nr[b] - 1 \in Int
      BY <1>0, <1>1, <1>2, <1>13 DEF Deletes, Finds
  <2>5. /\ One(pc[t] = "count") = 0 /\ One(pc[t] = "store") = 0 /\ Owes(t) = 0
        /\ One(pc'[t] = "count") = 0 /\ One(pc'[t] = "store") = 0 /\ Owes(t)' = 1
      BY <1>4, <1>5, <2>4 DEF One
  <2>6. PICK n, d, e : n = nr[b] - 1 /\ d = 0 /\ e = 0
      OBVIOUS
  <2>7. /\ n \in Int /\ d \in Int /\ e \in Int
        /\ d = One(pc'[t] = "store") - One(pc[t] = "store")
        /\ n = nr[b] + Cardinality(T) - Cardinality(S) + d
        /\ nr' = [nr EXCEPT ![b] = n]
      BY <1>2, <2>3, <2>4, <2>5, <2>6
  <2>8. e = One(pc'[t] = "count") - One(pc[t] = "count") /\ e = Cardinality(T) - Cardinality(S) + Owes(t)' - Owes(t)
      BY <1>2, <2>2, <2>3, <2>4, <2>5, <2>6
  <2>9. Cardinality(T) \in Nat
      BY <2>3, FS_CardinalityType
  <2> QED BY <1>8, <2>3, <2>4, <2>7, <2>8, <2>9
<1>14. CASE FetchClears(t)
  <2>1. PICK s \in S : node' = [node EXCEPT ![b][s] = NoItem]
      BY <1>0, <1>1, <1>2, <1>14 DEF FetchClears, FetchKnows
  <2>2. Becomes(b, S \ {s})
      BY <1>2, <2>1, ClearsOne
  <2>3. PICK T : T = S \ {s} /\ Becomes(b, T) /\ IsFiniteSet(T) /\ Cardinality(T) = Cardinality(S) - 1
    <3>1. IsFiniteSet(S \ {s}) /\ Cardinality(S \ {s}) = Cardinality(S) - 1
        BY <1>2, <2>1, FS_RemoveElement
    <3> QED BY <2>2, <3>1
  <2>4. /\ nr' = [nr EXCEPT ![b] = nr[b]] /\ nr_nodes' = nr_nodes /\ at' = at
        /\ pc[t] = "found" /\ pc'[t] = "store"
      BY <1>0, <1>1, <1>2, <1>14 DEF FetchClears
  <2>5. /\ One(pc[t] = "count") = 0 /\ One(pc[t] = "store") = 0 /\ Owes(t) = 0
        /\ One(pc'[t] = "count") = 0 /\ One(pc'[t] = "store") = 1 /\ Owes(t)' = 1
      BY <1>4, <1>5, <2>4 DEF One
  <2>6. PICK n, d, e : n = nr[b] /\ d = 1 /\ e = 0
      OBVIOUS
  <2>7. /\ n \in Int /\ d \in Int /\ e \in Int
        /\ d = One(pc'[t] = "store") - One(pc[t] = "store")
        /\ n = nr[b] + Cardinality(T) - Cardinality(S) + d
        /\ nr' = [nr EXCEPT ![b] = n]
      BY <1>2, <2>3, <2>4, <2>5, <2>6
  <2>8. e = One(pc'[t] = "count") - One(pc[t] = "count") /\ e = Cardinality(T) - Cardinality(S) + Owes(t)' - Owes(t)
      BY <1>2, <2>2, <2>3, <2>4, <2>5, <2>6
  <2>9. Cardinality(T) \in Nat
      BY <2>3, FS_CardinalityType
  <2> QED BY <1>8, <2>3, <2>4, <2>7, <2>8, <2>9
<1>15. CASE FetchStores(t)
  <2>1. /\ nr' = [nr EXCEPT ![b] = nr[b] - 1] /\ nr_nodes' = nr_nodes /\ at' = at /\ num'[t] = 1
        /\ pc[t] = "store" /\ pc'[t] = "uncount" /\ nr[b] - 1 \in Int
    <3>1. /\ nr' = [nr EXCEPT ![b] = num[t] - 1] /\ nr_nodes' = nr_nodes /\ at' = at /\ num'[t] = 1
          /\ pc[t] = "store" /\ pc'[t] = "uncount"
        BY <1>0, <1>1, <1>15 DEF FetchStores
    <3>2. num[t] = nr[b]
        BY <1>0, <1>1, <3>1 DEF FetchKnows
    <3> QED BY <1>2, <3>1, <3>2
  <2>2. Becomes(b, S)
      BY <1>2, <1>15 DEF Becomes, Occupied, FetchStores
  <2>5. /\ One(pc[t] = "count") = 0 /\ One(pc[t] = "store") = 1 /\ Owes(t) = 1
        /\ One(pc'[t] = "count") = 0 /\ One(pc'[t] = "store") = 0 /\ Owes(t)' = 1
      BY <1>4, <1>5, <2>1 DEF One
  <2>6. PICK n, d, e : n = nr[b] - 1 /\ d = -1 /\ e = 0
      OBVIOUS
  <2>7. /\ n \in Int /\ d \in Int /\ e \in Int
        /\ d = One(pc'[t] = "store") - One(pc[t] = "store")
        /\ n = nr[b] + Cardinality(S) - Cardinality(S) + d
        /\ Cardinality(S) \in Nat /\ nr' = [nr EXCEPT ![b] = n]
      BY <1>2, <2>1, <2>2, <2>5, <2>6
  <2>8. e = One(pc'[t] = "count") - One(pc[t] = "count") /\ e = Cardinality(S) - Cardinality(S) + Owes(t)' - Owes(t)
      BY <1>2, <2>1, <2>2, <2>5, <2>6
  <2> QED BY <1>2, <1>8, <2>1, <2>2, <2>5, <2>6, <2>7, <2>8
<1>16. CASE CleanBucket(t)
  <2>1. /\ nr' = [nr EXCEPT ![b] = 0] /\ nr_nodes' = nr_nodes /\ at' = at /\ num'[t] = Cardinality(S)
        /\ pc[t] = "locked" /\ pc'[t] = "uncount" /\ op[t] = "clean"
      BY <1>0, <1>1, <1>2, <1>16 DEF CleanBucket
  <2>2. PICK T : T = {} /\ Becomes(b, T) /\ IsFiniteSet(T) /\ Cardinality(T) = 0
      BY <1>1, <1>16, ClearsAll, FS_EmptySet DEF CleanBucket
  <2>3. Storing(b) = {}
    <3>1. ASSUME NEW u \in Storing(b) PROVE FALSE
      <4>1. u \in Threads /\ pc[u] = "store" /\ at[u] = at[t] /\ u # t
          BY <1>1, <2>1, <3>1 DEF Storing
      <4>2. AtWork(t) /\ op[t] \in WriteOps \cup {"fetch"}
          BY <2>1 DEF AtWork, WriteOps
      <4> QED BY <4>1, <4>2, Alone
    <3> QED BY <3>1
  <2>4. nr[b] = Cardinality(S)
    <3>1. nr[b] = Cardinality(S) + Cardinality(Storing(b))
        BY <1>2 DEF CountsAddUp
    <3>2. Cardinality(Storing(b)) = 0
        BY <2>3, FS_EmptySet
    <3> QED BY <1>2, <3>1, <3>2
  <2>5. /\ One(pc[t] = "count") = 0 /\ One(pc[t] = "store") = 0 /\ Owes(t) = 0
        /\ One(pc'[t] = "count") = 0 /\ One(pc'[t] = "store") = 0 /\ Owes(t)' = Cardinality(S)
      BY <1>4, <1>5, <2>1 DEF One
  <2>6. PICK n, d, e : n = 0 /\ d = 0 /\ e = 0
      OBVIOUS
  <2>7. /\ n \in Int /\ d \in Int /\ e \in Int
        /\ d = One(pc'[t] = "store") - One(pc[t] = "store")
        /\ n = nr[b] + Cardinality(T) - Cardinality(S) + d
        /\ Cardinality(T) \in Nat /\ nr' = [nr EXCEPT ![b] = n]
      BY <1>2, <2>1, <2>2, <2>4, <2>5, <2>6
  <2>8. e = One(pc'[t] = "count") - One(pc[t] = "count") /\ e = Cardinality(T) - Cardinality(S) + Owes(t)' - Owes(t)
      BY <1>2, <2>1, <2>2, <2>4, <2>5, <2>6
  <2> QED BY <1>2, <1>8, <2>1, <2>2, <2>4, <2>5, <2>6, <2>7, <2>8
<1>17. CASE Uncount(t)
  <2>1. pc'[t] \in {"idle", "value", "lock"}
    <3>1. CASE op[t] = "fetch"
        BY <1>0, <1>17, <3>1 DEF Uncount
    <3>2. CASE op[t] = "clean" /\ at[t] < NrBuckets
        BY <1>0, <1>17, <3>2 DEF Uncount
    <3>3. CASE op[t] # "fetch" /\ ~ (op[t] = "clean" /\ at[t] < NrBuckets)
        BY <1>0, <1>17, <3>3 DEF Uncount
    <3> QED BY <3>1, <3>2, <3>3
  <2>2. node' = node /\ nr' = nr /\ pc[t] = "uncount" /\ nr_nodes' = nr_nodes - num[t] /\ num[t] \in Nat
      BY <1>0, <1>17 DEF Uncount, InCall
  <2> QED BY <1>0, <1>3, <1>4, <1>5, <1>6, <2>1, <2>2
<1> QED BY <1>9, <1>10, <1>11, <1>12, <1>13, <1>14, <1>15, <1>16, <1>17 DEF Step, Inside

LEMMA AddersAre ==
    ASSUME Types, \A v \in Threads : InCall(v), NEW t \in Threads, Step(t)
    PROVE  /\ Cardinality(InAdd') <= Cardinality(Adders) /\ Cardinality(Adders) \in Nat
<1>1. \A u \in Threads : op'[u] = "add" => "add" \in MayCall[u]
  <2>1. ASSUME NEW u \in Threads, u # t, op'[u] = "add" PROVE "add" \in MayCall[u]
    <3>1. op[u] = "add" /\ InCall(u)
        BY <2>1, OthersStay
    <3> QED BY <3>1 DEF InCall
  <2>2. InCall(t)'
      BY InCallKept
  <2>3. op'[t] = "add" => "add" \in MayCall[t]
      BY <2>2 DEF InCall
  <2> QED BY <2>1, <2>3
<1>2. InAdd' \subseteq Adders
    BY <1>1 DEF InAdd, Adders
<1>3. IsFiniteSet(Adders)
  <2>1. Adders \in SUBSET Threads
      BY DEF Adders
  <2> QED BY <2>1, NamesAssumption, FS_Subset
<1> QED BY <1>2, <1>3, FS_Subset, FS_CardinalityType

LEMMA BoundedKept ==
    ASSUME Types, Finite, Bounded, \A v \in Threads : InCall(v), NEW t \in Threads, Step(t)
    PROVE  Bounded'
<1>0. /\ t \in DOMAIN op /\ t \in DOMAIN pc /\ InCall(t) /\ nr_nodes \in Int /\ Volume \in Nat
      /\ Cardinality(Adders) \in Nat
      /\ Cardinality(InAdd) \in Nat /\ Cardinality(InAdd') \in Nat /\ Adders' = Adders
      /\ Cardinality(InAdd') = Cardinality(InAdd) - One(op[t] = "add") + One(op'[t] = "add")
    BY StepCounts, AddersAre, SizesAssumption DEF Types, TableTypes, CallTypes, Adders
<1>1. ASSUME nr_nodes' \in Int, nr_nodes' + One(op'[t] = "add") <= nr_nodes + One(op[t] = "add")
      PROVE  Bounded'
  <2>1. One(op[t] = "add") \in Int /\ One(op'[t] = "add") \in Int
      BY DEF One
  <2>2. nr_nodes + Cardinality(InAdd) < Volume + Cardinality(Adders)
      BY DEF Bounded
  <2>3. nr_nodes' + Cardinality(InAdd') < Volume + Cardinality(Adders)
      BY <1>0, <1>1, <2>1, <2>2
  <2> QED BY <1>0, <2>3 DEF Bounded
<1>2. ASSUME nr_nodes' = nr_nodes, op'[t] = "add" => op[t] = "add"
      PROVE  Bounded'
    BY <1>0, <1>1, <1>2 DEF One
<1> USE DEF Goes, Returns
<1>3. CASE \E i \in Items : CallAdd(t, i)
  <2>1. CASE nr_nodes < Volume
    <3>1. nr_nodes' = nr_nodes
        BY <1>3 DEF CallAdd, table
    <3>2. nr_nodes' + Cardinality(InAdd') < Volume + Cardinality(Adders)
        BY <1>0, <2>1, <3>1, AddersAre
    <3> QED BY <1>0, <3>2 DEF Bounded
  <2>2. CASE ~ (nr_nodes < Volume)
    <3>1. nr_nodes' = nr_nodes /\ op'[t] = "none"
        BY <1>0, <1>3, <2>2 DEF CallAdd, table
    <3> QED BY <1>2, <3>1
  <2> QED BY <2>1, <2>2
<1>4. CASE (\E o \in KeyOps, k \in Keys : CallKey(t, o, k)) \/ hasht_clean_table(t)
  <2>1. nr_nodes' = nr_nodes
      BY <1>4 DEF CallKey, hasht_clean_table, table
  <2>2. op'[t] # "add"
      BY <1>0, <1>4 DEF CallKey, hasht_clean_table, KeyOps
  <2> QED BY <1>2, <2>1, <2>2
<1>5. CASE Lock(t) \/ AddPlaces(t) \/ FetchClears(t) \/ FetchStores(t) \/ CleanBucket(t) \/ Deletes(t)
  <2>1. nr_nodes' = nr_nodes /\ op' = op
      BY <1>5 DEF Lock, AddPlaces, FetchClears, FetchStores, CleanBucket, Deletes, table
  <2> QED BY <1>2, <2>1
<1>6. CASE AddFails(t) \/ FindsNone(t) \/ Modify(t) \/ ReadValue(t)
  <2>1. nr_nodes' = nr_nodes /\ op'[t] = "none"
      BY <1>0, <1>6 DEF AddFails, FindsNone, Modify, ReadValue, table
  <2> QED BY <1>2, <2>1
<1>7. CASE FindNode(t)
  <2>1. nr_nodes' = nr_nodes /\ op' = op
      BY <1>7 DEF FindNode, table
  <2> QED BY <1>2, <2>1
<1>8. CASE AddCounts(t)
  <2>1. nr_nodes' = nr_nodes + 1 /\ op[t] = "add" /\ op'[t] = "none"
      BY <1>0, <1>8 DEF AddCounts
  <2>2. One(op[t] = "add") = 1 /\ One(op'[t] = "add") = 0
      BY <2>1 DEF One
  <2> QED BY <1>0, <1>1, <2>1, <2>2
<1>9. CASE Uncount(t)
  <2>1. nr_nodes' = nr_nodes - num[t] /\ num[t] \in Nat /\ op[t] # "add"
      BY <1>0, <1>9 DEF Uncount, InCall
  <2>2. op'[t] # "add"
    <3>1. CASE op[t] = "fetch"
        BY <1>0, <1>9, <3>1 DEF Uncount
    <3>2. CASE op[t] = "clean" /\ at[t] < NrBuckets
        BY <1>0, <1>9, <3>2 DEF Uncount
    <3>3. CASE op[t] # "fetch" /\ ~ (op[t] = "clean" /\ at[t] < NrBuckets)
        BY <1>0, <1>9, <3>3 DEF Uncount
    <3> QED BY <3>1, <3>2, <3>3
  <2>3. One(op[t] = "add") = 0 /\ One(op'[t] = "add") = 0
      BY <2>1, <2>2 DEF One
  <2> QED BY <1>0, <1>1, <2>1, <2>3
<1> QED BY <1>3, <1>4, <1>5, <1>6, <1>7, <1>8, <1>9 DEF Step, Calls, Inside

-----------------------------------------------------------------------------

LEMMA InitIInv == Init => IInv
<1> SUFFICES ASSUME Init PROVE IInv
    OBVIOUS
<1> USE DEF Init
<1>1. Types /\ \A b \in Buckets : node[b] = <<>>
  <2>1. TableTypes
      BY DEF TableTypes, Slot
  <2>2. LockTypes
      BY DEF LockTypes
  <2>3. CallTypes
      BY Buckets1 DEF CallTypes
  <2> QED BY <2>1, <2>2, <2>3 DEF Types
<1>2. (\A t \in Threads : InCall(t)) /\ LocksHeld /\ (\A t \in Threads : FetchKnows(t))
    BY DEF InCall, LocksHeld, AtWork, FetchKnows
<1>3. /\ \A b \in Buckets : Occupied(b) = {} /\ Storing(b) = {}
      /\ Adding = {} /\ InAdd = {} /\ \A t \in Threads : Owes(t) = 0
    BY <1>1 DEF Occupied, Storing, Adding, InAdd, Owes
<1>4. Taken = {} /\ Owed = {}
  <2>1. 1 .. 0 = {}
      OBVIOUS
  <2> QED BY <1>3, <2>1 DEF Taken, Owed
<1>5. CountsAddUp /\ Finite
  <2>1. Cardinality({}) = 0 /\ IsFiniteSet({})
      BY FS_EmptySet
  <2>2. nr_nodes + Cardinality(Adding) = Cardinality(Taken) + Cardinality(Owed)
      BY <1>3, <1>4, <2>1
  <2>3. \A b \in Buckets : nr[b] = Cardinality(Occupied(b)) + Cardinality(Storing(b))
    <3>1. ASSUME NEW b \in Buckets PROVE nr[b] = Cardinality(Occupied(b)) + Cardinality(Storing(b))
      <4>1. Cardinality(Occupied(b)) = 0 /\ Cardinality(Storing(b)) = 0 /\ nr[b] = 0
          BY <1>3, <2>1
      <4> QED BY <4>1
    <3> QED BY <3>1
  <2> QED BY <1>4, <2>1, <2>2, <2>3 DEF CountsAddUp, Finite
<1>6. Bounded
  <2>1. Cardinality(Adders) \in Nat
    <3>1. Adders \in SUBSET Threads
        BY DEF Adders
    <3> QED BY <3>1, NamesAssumption, FS_Subset, FS_CardinalityType
  <2> QED BY <1>3, <2>1, SizesAssumption, FS_EmptySet DEF Bounded
<1> QED BY <1>1, <1>2, <1>5, <1>6 DEF IInv

LEMMA NextIInv == ASSUME OneFetcher, IInv, [Next]_vars PROVE IInv'
<1>1. CASE UNCHANGED vars
  <2> USE <1>1 DEF vars, table, locks, locals
  <2>1. Types'
      BY DEF IInv, Types, TableTypes, LockTypes, CallTypes
  <2>2. \A t \in Threads : InCall(t)'
      BY DEF IInv, InCall
  <2>3. LocksHeld'
      BY DEF IInv, LocksHeld, HasLock, AtWork
  <2>4. \A t \in Threads : FetchKnows(t)'
      BY DEF IInv, FetchKnows, Occupied
  <2>5. Taken' = Taken /\ Owed' = Owed /\ Adding' = Adding /\ InAdd' = InAdd /\ Adders' = Adders
      BY DEF Taken, Owed, Adding, InAdd, Adders, Occupied, Owes
  <2>6. \A b : Occupied(b)' = Occupied(b) /\ Storing(b)' = Storing(b)
      BY DEF Occupied, Storing
  <2>7. CountsAddUp' /\ Finite' /\ Bounded'
      BY <2>5, <2>6 DEF IInv, CountsAddUp, Finite, Bounded
  <2> QED BY <2>1, <2>2, <2>3, <2>4, <2>7 DEF IInv
<1>2. CASE Next
  <2>1. PICK t \in Threads : Step(t)
      BY <1>2 DEF Next, Step
  <2>2. /\ Types /\ LocksHeld /\ CountsAddUp /\ Bounded /\ Finite
        /\ (\A v \in Threads : InCall(v)) /\ (\A v \in Threads : FetchKnows(v))
        /\ InCall(t) /\ FetchKnows(t)
      BY DEF IInv
  <2>3. Types'
      BY <2>1, <2>2, TypesKept
  <2>4. ASSUME NEW u \in Threads PROVE InCall(u)'
    <3>1. CASE u = t
      <4>1. InCall(t)'
          BY <2>1, <2>2, InCallKept
      <4> QED BY <3>1, <4>1
    <3>2. CASE u # t
      <4>1. pc'[u] = pc[u] /\ op'[u] = op[u] /\ item'[u] = item[u] /\ num'[u] = num[u]
          BY <2>1, <2>2, <3>2, OthersStay
      <4> QED BY <2>2, <4>1 DEF InCall
    <3> QED BY <3>1, <3>2
  <2>5. LocksHeld'
      BY <2>1, <2>2, LocksKept
  <2>6. \A u \in Threads : FetchKnows(u)'
      BY <2>1, <2>2, KnowsKept
  <2>7. CountsAddUp' /\ Finite'
      BY <2>1, <2>2, CountsKept
  <2>8. Bounded'
      BY <2>1, <2>2, BoundedKept
  <2> QED BY <2>3, <2>4, <2>5, <2>6, <2>7, <2>8 DEF IInv
<1> QED BY <1>1, <1>2

(* The counts of the buckets and of the table are right up to what the     *)
(* calls under way have still to do: hasht_add_item, hasht_delete_item,    *)
(* hasht_fetch_item and hasht_clean_table change the count of the table    *)
(* under another lock than the bucket, and none of them loses a node.      *)
THEOREM TableCounts == ASSUME OneFetcher PROVE Spec => []CountsAddUp
<1>1. Init => IInv
    BY InitIInv
<1>2. IInv /\ [Next]_vars => IInv'
    BY NextIInv
<1>3. IInv => CountsAddUp
    BY DEF IInv
<1> QED BY <1>1, <1>2, <1>3, PTL DEF Spec

(* hasht_add_item looks at the volume before it takes any lock; the calls  *)
(* that add at once pass it by one node less than there are of them.       *)
THEOREM TableVolume == ASSUME OneFetcher PROVE Spec => []WithinVolume
<1>1. Init => IInv
    BY InitIInv
<1>2. IInv /\ [Next]_vars => IInv'
    BY NextIInv
<1>3. ASSUME IInv PROVE WithinVolume
  <2>1. Adding \in SUBSET InAdd /\ InAdd \in SUBSET Threads
      BY DEF Adding, InAdd
  <2>2. IsFiniteSet(InAdd)
      BY <2>1, NamesAssumption, FS_Subset
  <2>3. Cardinality(Adding) <= Cardinality(InAdd) /\ Cardinality(Adding) \in Nat /\ Cardinality(InAdd) \in Nat
      BY <2>1, <2>2, FS_Subset, FS_CardinalityType
  <2>4. Cardinality(Taken) \in Nat /\ Cardinality(Owed) \in Nat /\ nr_nodes \in Int
      BY <1>3, FS_CardinalityType DEF IInv, Finite, Types, TableTypes
  <2>5. Cardinality(Adders) \in Nat /\ Volume \in Nat
    <3>1. Adders \in SUBSET Threads
        BY DEF Adders
    <3> QED BY <3>1, NamesAssumption, SizesAssumption, FS_Subset, FS_CardinalityType
  <2>6. /\ nr_nodes + Cardinality(Adding) = Cardinality(Taken) + Cardinality(Owed)
        /\ nr_nodes + Cardinality(InAdd) < Volume + Cardinality(Adders)
      BY <1>3 DEF IInv, CountsAddUp, Bounded
  <2>7. Cardinality(Taken) < Volume + Cardinality(Adders)
      BY <2>3, <2>4, <2>5, <2>6
  <2> QED BY <2>7 DEF WithinVolume, Adders
<1> QED BY <1>1, <1>2, <1>3, PTL DEF Spec
=============================================================================
