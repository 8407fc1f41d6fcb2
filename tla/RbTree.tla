-------------------------------- MODULE RbTree --------------------------------
(***************************************************************************)
(* The red-black tree of ds_rbtree.c, for one thread.  A call is a first   *)
(* step that looks at the root, one step for each round of its loops, and  *)
(* the return.  The two halves of every loop, which the code writes out    *)
(* for left and right, are one definition with a side.                     *)
(***************************************************************************)
EXTENDS Integers, Sequences, FiniteSets

CONSTANTS
    Nodes, sentinel, NULL,
    KeyOf,      \* the key a caller gives a node before it inserts it
    Timer,      \* is tree->insert rbtree_insert_timer_value?
    Word        \* 2^w, w the width of rbtree_key_t

ASSUME NodesAssumption == IsFiniteSet(Nodes)
ASSUME TreeNames == sentinel \notin Nodes /\ NULL \notin Nodes \cup {sentinel}
ASSUME WordAssumption == Word \in Nat /\ Word > 1
ASSUME KeysAssumption == KeyOf \in [Nodes -> 0 .. Word - 1]
(* "Timer values are spread in small range", ds_rbtree.c:118.              *)
ASSUME SpreadAssumption ==
    Timer => \E first \in 0 .. Word - 1 :
                \A n \in Nodes : 2 * ((KeyOf[n] - first + Word) % Word) < Word

Sides == {"left", "right"}
Other(s) == CHOOSE o \in Sides : o # s

VARIABLES
    tree,       \* root, child, parent and color
    call        \* the call under way: where it is, node, temp

treeVars == <<tree, call>>

Idle == [pc |-> "idle", node |-> NULL, temp |-> NULL]

-----------------------------------------------------------------------------
(* Definitions whose names end in _Bug are what a slip in the code would   *)
(* give; each stands before the definition it varies and is part of no     *)
(* specification.  They show that a property can fail.                     *)

Black(t, n) == [t EXCEPT !.color[n] = "black"]
Red(t, n) == [t EXCEPT !.color[n] = "red"]
IsRed(t, n) == t.color[n] = "red"
IsBlack(t, n) == ~IsRed(t, n)

SideOf(t, n) == IF n = t.child["left"][t.parent[n]] THEN "left" ELSE "right"

(* rbtree_left_rotate and rbtree_right_rotate.                             *)
Rotate(t, s, n) ==
    LET o == Other(s)
        temp == t.child[o][n]
        inner == t.child[s][temp]
        turned == [t.child EXCEPT ![o][n] = inner, ![s][temp] = n]
        hung == [t.parent EXCEPT ![temp] = t.parent[n], ![n] = temp]
    IN [root |-> IF n = t.root THEN temp ELSE t.root,
        child |-> IF n = t.root THEN turned
                  ELSE [turned EXCEPT ![SideOf(t, n)][t.parent[n]] = temp],
        parent |-> IF inner = sentinel THEN hung ELSE [hung EXCEPT ![inner] = n],
        color |-> t.color]

rbtree_min(t, n) ==
    LET down[m \in {k \in Nodes : t.child["left"][k] # NULL}] ==
            IF t.child["left"][m] = sentinel THEN m ELSE down[t.child["left"][m]]
    IN down[n]

(* The comparison of rbtree_insert_value, and that of                      *)
(* rbtree_insert_timer_value: the sign of a difference in w bits.          *)
Less_Bug(a, b) == KeyOf[a] < KeyOf[b]
Less(a, b) ==
    IF Timer THEN 2 * ((KeyOf[a] - KeyOf[b] + Word) % Word) >= Word
             ELSE KeyOf[a] < KeyOf[b]

-----------------------------------------------------------------------------

InTree(n) == n = tree.root \/ tree.parent[n] # NULL

(* rbtree_init.                                                            *)
TreeInit ==
    /\ tree = [root |-> sentinel,
               child |-> [s \in Sides |-> [n \in Nodes |-> NULL]],
               parent |-> [n \in Nodes \cup {sentinel} |-> NULL],
               color |-> [n \in Nodes \cup {sentinel} |-> "black"]]
    /\ call = Idle

Hang(t, n, up, color) ==
    [t EXCEPT !.child = [s \in Sides |-> [@[s] EXCEPT ![n] = sentinel]],
              !.parent[n] = up, !.color[n] = color]

(* rbtree_insert: into an empty tree at once, else from the root down.     *)
rbtree_insert(n) ==
    /\ call = Idle /\ ~InTree(n)
    /\ IF tree.root = sentinel
         THEN /\ tree' = [Hang(tree, n, NULL, "black") EXCEPT !.root = n]
              /\ UNCHANGED call
         ELSE /\ call' = [pc |-> "descend", node |-> n, temp |-> tree.root]
              /\ UNCHANGED tree

(* One round of rbtree_insert_value.                                       *)
rbtree_insert_value ==
    /\ call.pc = "descend"
    /\ LET s == IF Less(call.node, call.temp) THEN "left" ELSE "right"
           next == tree.child[s][call.temp]
       IN  IF next = sentinel
             THEN /\ tree' = [Hang(tree, call.node, call.temp, "red")
                                EXCEPT !.child[s][call.temp] = call.node]
                  /\ call' = [call EXCEPT !.pc = "balance", !.temp = NULL]
             ELSE /\ call' = [call EXCEPT !.temp = next]
                  /\ UNCHANGED tree

-----------------------------------------------------------------------------
(* "re-balance tree": a round for a red node under a red parent.           *)

Parent == tree.parent[call.node]
Grand == tree.parent[Parent]
Uncle == tree.child[Other(SideOf(tree, Parent))][Grand]
RedPair == call.pc = "balance" /\ call.node # tree.root /\ IsRed(tree, Parent)

InsertRecolors ==
    /\ RedPair /\ IsRed(tree, Uncle)
    /\ tree' = Red(Black(Black(tree, Parent), Uncle), Grand)
    /\ call' = [call EXCEPT !.node = Grand]

(* Perhaps a rotation that turns the node outwards, then the one that      *)
(* lifts its parent.                                                       *)
InsertRotates ==
    /\ RedPair /\ IsBlack(tree, Uncle)
    /\ LET s == SideOf(tree, Parent)
           inside == call.node = tree.child[Other(s)][Parent]
           low == IF inside THEN Parent ELSE call.node
           t == IF inside THEN Rotate(tree, s, low) ELSE tree
           p == t.parent[low]
           g == t.parent[p]
       IN  /\ tree' = Rotate(Red(Black(t, p), g), Other(s), g)
           /\ call' = [call EXCEPT !.node = low]

InsertEnds ==
    /\ call.pc = "balance" /\ ~RedPair
    /\ tree' = Black(tree, tree.root)
    /\ call' = Idle

-----------------------------------------------------------------------------
(* rbtree_delete as far as the "delete fixup".                             *)

(* "DEBUG stuff".  The color of the node, which is set anew before it is   *)
(* read, is not kept.                                                      *)
Cleared(t, n) ==
    [t EXCEPT !.child = [s \in Sides |-> [@[s] EXCEPT ![n] = NULL]],
              !.parent[n] = NULL, !.color[n] = "black"]

(* subst takes the place of the node.                                      *)
Replace(t, n, subst) ==
    LET kids == {t.child[s][n] : s \in Sides} \ {sentinel}
    IN [root |-> IF n = t.root THEN subst ELSE t.root,
        child |-> LET taken == [s \in Sides |-> [t.child[s] EXCEPT ![subst] = t.child[s][n]]]
                  IN  IF n = t.root THEN taken
                      ELSE [taken EXCEPT ![SideOf(t, n)][t.parent[n]] = subst],
        parent |-> [m \in DOMAIN t.parent |->
                      IF m = subst THEN t.parent[n]
                      ELSE IF m \in kids THEN subst ELSE t.parent[m]],
        color |-> [t.color EXCEPT ![subst] = t.color[n]]]

Fixup(t, red, temp) ==
    /\ tree' = t
    /\ call' = IF red THEN Idle ELSE [Idle EXCEPT !.pc = "fixup", !.temp = temp]

rbtree_delete(n) ==
    /\ call = Idle /\ InTree(n)
    /\ LET left == tree.child["left"][n]
           right == tree.child["right"][n]
           subst == IF sentinel \in {left, right} THEN n ELSE rbtree_min(tree, right)
           temp == IF left = sentinel THEN right
                   ELSE IF right = sentinel THEN left
                   ELSE tree.child["right"][subst]
           up == tree.parent[subst]
       IN IF subst = tree.root
            THEN /\ tree' = Cleared(Black([tree EXCEPT !.root = temp], temp), n)
                 /\ UNCHANGED call
            ELSE LET cut == [tree EXCEPT
                               !.child[SideOf(tree, subst)][up] = temp,
                               !.parent[temp] = IF up = n THEN subst ELSE up]
                     whole == IF subst = n THEN [cut EXCEPT !.parent[temp] = up]
                              ELSE Replace(cut, n, subst)
                 IN  Fixup(Cleared(whole, n), IsRed(tree, subst), temp)

-----------------------------------------------------------------------------
(* The "delete fixup": a round for a temp that is black and not the root.  *)

DoubleBlack == call.pc = "fixup" /\ call.temp # tree.root /\ IsBlack(tree, call.temp)

(* A red sibling is turned above the parent first.                         *)
Lifted ==
    LET s == SideOf(tree, call.temp)
        p == tree.parent[call.temp]
        w == tree.child[Other(s)][p]
    IN  IF IsRed(tree, w) THEN Rotate(Red(Black(tree, w), p), s, p) ELSE tree

FixupRound ==
    /\ DoubleBlack
    /\ LET s == SideOf(tree, call.temp)
           o == Other(s)
           p == tree.parent[call.temp]
           t == Lifted
           w == t.child[o][p]
           near == t.child[s][w]
           far == t.child[o][w]
           u == IF IsBlack(t, far) THEN Rotate(Red(Black(t, near), w), o, w) ELSE t
           v == u.child[o][p]
           colored == Black(Black([u EXCEPT !.color[v] = u.color[p]], p), u.child[o][v])
       IN IF IsBlack(t, near) /\ IsBlack(t, far)
            THEN /\ tree' = Red(t, w)
                 /\ call' = [call EXCEPT !.temp = p]
            ELSE /\ tree' = Rotate(colored, s, p)
                 /\ call' = [call EXCEPT !.temp = tree'.root]

FixupEnds_Bug ==
    /\ call.pc = "fixup" /\ ~DoubleBlack
    /\ call' = Idle
    /\ UNCHANGED tree

FixupEnds ==
    /\ call.pc = "fixup" /\ ~DoubleBlack
    /\ tree' = Black(tree, call.temp)
    /\ call' = Idle

-----------------------------------------------------------------------------

Goes == rbtree_insert_value \/ InsertRecolors \/ InsertRotates \/ InsertEnds
            \/ FixupRound \/ FixupEnds

TreeNext == Goes \/ \E n \in Nodes : rbtree_insert(n) \/ rbtree_delete(n)

TreeSpec == TreeInit /\ [][TreeNext]_treeVars

-----------------------------------------------------------------------------

TreeTypeOK ==
    /\ tree.root \in Nodes \cup {sentinel}
    /\ tree.child \in [Sides -> [Nodes -> Nodes \cup {sentinel, NULL}]]
    /\ tree.parent \in [Nodes \cup {sentinel} -> Nodes \cup {NULL}]
    /\ tree.color \in [Nodes \cup {sentinel} -> {"red", "black"}]
    /\ \A n \in Nodes : \A s \in Sides :
         (tree.child[s][n] = NULL) = ~(InTree(n))
    /\ call \in [pc : {"idle", "descend", "balance", "fixup"},
                 node : Nodes \cup {NULL}, temp : Nodes \cup {sentinel, NULL}]

(* The nodes below n in order, no further down than the tree can reach.    *)
Deep == Cardinality(Nodes) + 1

Walk ==
    LET in[d \in 0 .. Deep] ==
            [n \in Nodes \cup {sentinel} |->
                IF n = sentinel \/ d = 0 THEN <<>>
                ELSE in[d - 1][tree.child["left"][n]] \o <<n>>
                         \o in[d - 1][tree.child["right"][n]]]
    IN  in[Deep][tree.root]

Reached == {Walk[i] : i \in 1 .. Len(Walk)}

(* How many black nodes each way down from the root passes; temp of a     *)
(* deletion counts one more, for the black node that its subtree lacks.    *)
Lacks(n, up) == /\ call.pc = "fixup" /\ n = call.temp
                /\ n = tree.root \/ up = tree.parent[n]
Own(n, up) == (IF IsBlack(tree, n) THEN 1 ELSE 0) + (IF Lacks(n, up) THEN 1 ELSE 0)

BlackHeights ==
    LET heights[d \in 0 .. Deep] ==
            [e \in (Nodes \cup {sentinel}) \X (Nodes \cup {NULL}) |->
                LET n == e[1] IN
                IF n = sentinel THEN {Own(n, e[2])}
                ELSE IF d = 0 THEN {}
                ELSE {h + Own(n, e[2]) :
                        h \in UNION {heights[d - 1][<<tree.child[s][n], n>>] : s \in Sides}}]
    IN  heights[Deep][<<tree.root, NULL>>]

RedPairs == {<<tree.parent[n], n>> : n \in {m \in Reached \ {tree.root} :
                                          IsRed(tree, m) /\ IsRed(tree, tree.parent[m])}}

(* The pointers form one tree in every step, rotations and the deletion of *)
(* a node with two children included: each node is reached once, from the  *)
(* parent it names, and whoever a caller has inserted is reached.          *)
Linked ==
    /\ Cardinality(Reached) = Len(Walk)
    /\ \A n \in Reached \ {tree.root} : \E s \in Sides : tree.child[s][tree.parent[n]] = n
    /\ Reached = {n \in Nodes : InTree(n)}

(* Between calls no red node has a red child, the root is black, and all   *)
(* ways down pass the same number of black nodes, which keeps the tree     *)
(* within twice the least depth.  During a call the one fault is at the    *)
(* node the loop is at: an insertion may have a red pair or a red root     *)
(* there, and below temp of a deletion one black node is missing.          *)
Balanced ==
    LET at == IF call.pc = "fixup" THEN call.temp ELSE call.node
        mid == call.pc \in {"balance", "fixup"}
    IN  /\ IsBlack(tree, sentinel)
        /\ IsRed(tree, tree.root) => mid /\ at = tree.root
        /\ \A pair \in RedPairs :
             \/ call.pc = "balance" /\ pair[2] = at
             \/ call.pc = "fixup" /\ at \in {pair[1], pair[2]}
        /\ Cardinality(BlackHeights) = 1

(* The tree is a red-black tree, but for what the call under way has still *)
(* to mend.                                                                *)
RedBlackTree == Linked /\ Balanced

(* The order in which the timers are due, told without the comparison of   *)
(* the code: how far each is from a time before all of them.               *)
Origin ==
    IF Timer THEN CHOOSE first \in 0 .. Word - 1 :
                    \A n \in Nodes : 2 * ((KeyOf[n] - first + Word) % Word) < Word
             ELSE 0
Before(a, b) == (KeyOf[a] - Origin + Word) % Word < (KeyOf[b] - Origin + Word) % Word

(* The tree is a list sorted by key, with equal keys in the order they     *)
(* were inserted, and keys that have wrapped around after those that have  *)
(* not: rbtree_min finds the node that is first due.                       *)
Sorted == INSTANCE SortedList WITH list <- Walk, Less <- Before
ImplementsSortedList == Sorted!Spec
=============================================================================
