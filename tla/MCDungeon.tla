----------------------------- MODULE MCDungeon -----------------------------
(* Small instances of Dungeon for TLC. *)
EXTENDS Dungeon, TLC

CONSTANTS main, w1, w2, i1, i2, i3

OneWorker == {w1}
TwoWorkers == {w1, w2}
TwoImps == {i1, i2}
ThreeImps == {i1, i2, i3}

(* Two rooms summon i1 and i3, and the soul of any imp may summon i2.      *)
Summoners == main :> {i1, i3} @@ [w \in Workers |-> {i2}]
OneSummoner == main :> {i1} @@ [w \in Workers |-> {i2}]

(* i1 and i3 are as a listener, i2 as a connection with a timeout.         *)
Events == [i \in Imps |-> IF i = i2 THEN {{}, {"io", "timer"}} ELSE {{"io"}}]
TimerOnly == [i \in Imps |-> {{"timer"}}]

(* The bounds.  What follows a race, which every property excepts, is left *)
(* out; an imp is killed while no other lives; and the second room summons *)
(* only while the soul of i1 runs, and beside a worker that summons.       *)
Bounds ==
    /\ ~raced
    /\ \A i \in MayKill : kread[i] # {} \/ "KILL" \in mask[i] => Live = {i}
    /\ spc[main] # "none" /\ mem[i1] # "none" => \/ child[main] = i1
                                             \/ \E w \in Workers : cur[w] = i1 /\ pc[w] = "drive"
    /\ mem[i3] # "none" => Begun # {}
=============================================================================
