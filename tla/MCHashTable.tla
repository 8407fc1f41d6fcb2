---------------------------- MODULE MCHashTable ----------------------------
(* A small instance of HashTable for TLC. *)
EXTENDS HashTable, TLC

CONSTANTS t1, t2, t3, i1, i2, i3, i4, k1, k2

MCKeys == {k1, k2}
MCItems == {i1, i2, i3, i4}
MCKeyOf == i1 :> k1 @@ i2 :> k1 @@ i3 :> k2 @@ i4 :> k2
MCHashes == k1 :> 7 @@ k2 :> 10

(* Every call; one thread fetches.                                         *)
MCThreads == {t1, t2, t3}
MCCalls == t1 :> {"add", "fetch"} @@ t2 :> {"add", "delete"} @@ t3 :> {"clean", "modify", "find"}
MCBounds == t1 :> 2 @@ t2 :> 2 @@ t3 :> 1
=============================================================================
