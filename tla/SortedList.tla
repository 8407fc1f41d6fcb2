------------------------------ MODULE SortedList ------------------------------
(***************************************************************************)
(* What ds_rbtree.h promises: a list of nodes in the order of their keys,  *)
(* nodes with equal keys in the order they came.                           *)
(***************************************************************************)
EXTENDS Naturals, Sequences

CONSTANTS Nodes, Less(_, _)     \* Less compares the keys of two nodes

VARIABLE list

Upto(n) == SubSeq(list, 1, n)
From(n) == SubSeq(list, n + 1, Len(list))
Has(n) == \E i \in 1 .. Len(list) : list[i] = n

Init == list = <<>>

(* Behind every node that is not later, before every one that is.          *)
Insert(n) ==
    /\ ~Has(n)
    /\ \E p \in 0 .. Len(list) :
        /\ \A i \in 1 .. p : ~Less(n, list[i])
        /\ \A i \in p + 1 .. Len(list) : Less(n, list[i])
        /\ list' = Upto(p) \o <<n>> \o From(p)

Delete(n) ==
    \E p \in 1 .. Len(list) :
        /\ list[p] = n
        /\ list' = Upto(p - 1) \o From(p)

Next == \E n \in Nodes : Insert(n) \/ Delete(n)

Spec == Init /\ [][Next]_list
=============================================================================
