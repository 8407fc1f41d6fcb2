------------------------------ MODULE ImpLife ------------------------------
(***************************************************************************)
(* The life of an imp, as imp.h and dungeon.h promise it to a room: it is  *)
(* summoned into the run queue, driven by one worker at a time in the      *)
(* order of that queue, put back, put to sleep until an event wakes it, or *)
(* terminated, and dismissed once after that.  No more than MaxImps live   *)
(* at a time.  Dungeon is shown to implement this.                         *)
(***************************************************************************)
EXTENDS Naturals, Sequences, FiniteSets

CONSTANTS
    Imps,       \* every imp that may ever be summoned
    MaxImps,    \* the most that live at a time
    Drivers     \* the number of workers

VARIABLES
    life,       \* life[i]: where imp i is in its life
    ready       \* the imps that may be driven, oldest first

lifeVars == <<life, ready>>

In(state) == {i \in Imps : life[i] = state}
Alive == In("ready") \cup In("running") \cup In("asleep") \cup In("terminated")

Init ==
    /\ life = [i \in Imps |-> "none"]
    /\ ready = <<>>

Enter(i, state) == life' = [life EXCEPT ![i] = state]
MakeReady(i) == Enter(i, "ready") /\ ready' = Append(ready, i)

Summon(i) ==
    /\ life[i] = "none"
    /\ Cardinality(Alive) < MaxImps
    /\ MakeReady(i)

Drive ==
    /\ ready # <<>>
    /\ Cardinality(In("running")) < Drivers
    /\ Enter(Head(ready), "running")
    /\ ready' = Tail(ready)

Yield(i) == life[i] = "running" /\ MakeReady(i)
Sleep(i) == life[i] = "running" /\ Enter(i, "asleep") /\ UNCHANGED ready
Wake(i) == life[i] = "asleep" /\ MakeReady(i)
Terminate(i) == life[i] = "running" /\ Enter(i, "terminated") /\ UNCHANGED ready
Dismiss(i) == life[i] = "terminated" /\ Enter(i, "gone") /\ UNCHANGED ready

Next ==
    \/ Drive
    \/ \E i \in Imps :
        Summon(i) \/ Yield(i) \/ Sleep(i) \/ Wake(i) \/ Terminate(i) \/ Dismiss(i)

Spec == Init /\ [][Next]_lifeVars
=============================================================================
