-------------------------------- MODULE Echo --------------------------------
(***************************************************************************)
(* The echo room, modules/echo/mod.c: a listener that accepts connections  *)
(* and summons an imp for each, and the imps, which send back what they    *)
(* receive.  Their peers and the kernel's socket buffers are the           *)
(* environment.                                                            *)
(*                                                                         *)
(* The scheduler is the one Dungeon describes, seen from a soul that asks  *)
(* for one event at a time: an imp is queued or asleep, a worker runs its  *)
(* driver once, the event it waits for queues it again.  The echo room     *)
(* never sets a timer, so IMP_TIMEDOUT stays false in it.                  *)
(***************************************************************************)
EXTENDS Naturals, Sequences, FiniteSets, ByteStrings

CONSTANTS
    Conns,      \* the connections of the peers
    MaxSay,     \* how many bytes a peer says
    BufSize,    \* BUFSIZE
    KernelBuf,  \* what the kernel holds, in each direction
    MaxImps     \* dungeon_heart->nr_max

ASSUME ConnsAssumption == IsFiniteSet(Conns)
ASSUME EchoSizes == MaxSay \in Nat /\ {BufSize, KernelBuf, MaxImps} \subseteq Nat \ {0}

VARIABLES
    peer,       \* "away", "open", "fin" when it says no more, "reset"
    said,       \* said[c]: how many bytes the peer has said
    inflight,   \* the bytes on their way to the imp
    unread,     \* the bytes on their way to the peer
    heard,      \* the bytes the peer has read
    backlog,    \* the connections accept has not returned yet
    listener,   \* the listener: "queued" or "asleep"
    sched,      \* the imp: "none", "queued", "asleep", "terminated",
                \* "dismissed", or "refused" when there was no imp
    state,      \* mem->state
    buf,        \* mem->buf from pos, len bytes
    waits,      \* the event the imp has asked for
    nr_total

world == <<peer, said, heard>>
socks == <<inflight, unread>>
listening == <<backlog, listener>>
soul == <<state, buf, waits>>
echoVars == <<world, socks, listening, sched, soul, nr_total>>

-----------------------------------------------------------------------------
(* Definitions whose names end in _Bug are what a slip in the code would   *)
(* give; each stands before the definition it varies and is part of no     *)
(* specification.  They show that a property can fail.                     *)

(* mod_init has summoned the listener.                                     *)
EchoInit ==
    /\ peer = [c \in Conns |-> "away"] /\ said = [c \in Conns |-> 0]
    /\ inflight = [c \in Conns |-> <<>>] /\ unread = [c \in Conns |-> <<>>]
    /\ heard = [c \in Conns |-> <<>>]
    /\ backlog = <<>> /\ listener = "queued"
    /\ sched = [c \in Conns |-> "none"]
    /\ state = [c \in Conns |-> "ST_RECV"] /\ buf = [c \in Conns |-> <<>>]
    /\ waits = [c \in Conns |-> "none"]
    /\ nr_total = 1

-----------------------------------------------------------------------------
(* The peers and the kernel.                                               *)

Connect(c) ==
    /\ peer[c] = "away"
    /\ peer' = [peer EXCEPT ![c] = "open"]
    /\ backlog' = Append(backlog, c)
    /\ UNCHANGED <<said, heard, socks, listener, sched, soul, nr_total>>

Say(c) ==
    /\ peer[c] = "open" /\ said[c] < MaxSay /\ Len(inflight[c]) < KernelBuf
    /\ said' = [said EXCEPT ![c] = @ + 1]
    /\ inflight' = [inflight EXCEPT ![c] = Append(@, said[c] + 1)]
    /\ UNCHANGED <<peer, heard, unread, listening, sched, soul, nr_total>>

Hear(c) ==
    /\ peer[c] # "reset" /\ unread[c] # <<>>
    /\ heard' = [heard EXCEPT ![c] = Append(@, Head(unread[c]))]
    /\ unread' = [unread EXCEPT ![c] = Tail(@)]
    /\ UNCHANGED <<peer, said, inflight, listening, sched, soul, nr_total>>

HangUp(c) ==
    /\ peer[c] = "open"
    /\ \E how \in {"fin", "reset"} : peer' = [peer EXCEPT ![c] = how]
    /\ UNCHANGED <<said, heard, socks, listening, sched, soul, nr_total>>

-----------------------------------------------------------------------------
(* The listener.                                                           *)

(* One round of its loop: imp_summon, or imp_summon fails and the          *)
(* connection is closed.                                                   *)
listener_driver ==
    /\ listener = "queued" /\ backlog # <<>>
    /\ backlog' = Tail(backlog)
    /\ sched' = [sched EXCEPT ![Head(backlog)] =
                   IF nr_total >= MaxImps THEN "refused" ELSE "queued"]
    /\ nr_total' = IF nr_total >= MaxImps THEN nr_total ELSE nr_total + 1
    /\ UNCHANGED <<world, socks, listener, soul>>

(* accept returns no more: imp_set_ioev and TO_BLOCK.                      *)
ListenerBlocks ==
    /\ listener = "queued" /\ backlog = <<>>
    /\ listener' = "asleep"
    /\ UNCHANGED <<world, socks, backlog, sched, soul, nr_total>>

ListenerWakes ==
    /\ listener = "asleep" /\ backlog # <<>>
    /\ listener' = "queued"
    /\ UNCHANGED <<world, socks, backlog, sched, soul, nr_total>>

-----------------------------------------------------------------------------
(* The imp of a connection: one call of echo_driver.                       *)

Drives(c, s) == sched[c] = "queued" /\ state[c] = s

GoOn(c, s) == state' = [state EXCEPT ![c] = s] /\ UNCHANGED <<sched, waits>>

Blocks(c, ev) ==
    /\ sched' = [sched EXCEPT ![c] = "asleep"]
    /\ waits' = [waits EXCEPT ![c] = ev]
    /\ UNCHANGED state

(* The end of the stream is seen before the bytes ahead of it are read.    *)
Recv(c) ==
    /\ Drives(c, "ST_RECV")
    /\ \/ /\ peer[c] = "reset" /\ GoOn(c, "ST_Ex")
          /\ UNCHANGED <<inflight, buf>>
       \/ /\ peer[c] # "reset"
          /\ \E k \in 1 .. Least(BufSize, Len(inflight[c])) :
                /\ buf' = [buf EXCEPT ![c] = Upto(inflight[c], k)]
                /\ inflight' = [inflight EXCEPT ![c] = From(@, k)]
          /\ GoOn(c, "ST_SEND")
       \/ /\ peer[c] = "fin" /\ inflight[c] = <<>> /\ GoOn(c, "ST_TERM")
          /\ UNCHANGED <<inflight, buf>>
       \/ /\ peer[c] = "open" /\ inflight[c] = <<>> /\ Blocks(c, "EPOLLIN")
          /\ UNCHANGED <<inflight, buf>>
    /\ UNCHANGED <<world, unread, listening, nr_total>>

(* A partial send is taken for a whole one, or waits for the wrong event.  *)
Send_Bug(c) ==
    /\ Drives(c, "ST_SEND")
    /\ \/ /\ peer[c] = "reset" /\ GoOn(c, "ST_Ex")
          /\ UNCHANGED <<unread, buf>>
       \/ /\ peer[c] # "reset"
          /\ \E k \in 1 .. Least(Len(buf[c]), KernelBuf - Len(unread[c])) :
                /\ unread' = [unread EXCEPT ![c] = @ \o Upto(buf[c], k)]
                /\ buf' = [buf EXCEPT ![c] = <<>>]
          /\ GoOn(c, "ST_RECV")
       \/ /\ peer[c] # "reset" /\ Len(unread[c]) = KernelBuf /\ Blocks(c, "EPOLLOUT")
          /\ UNCHANGED <<unread, buf>>
    /\ UNCHANGED <<world, inflight, listening, nr_total>>

SendWaits_Bug(c) ==
    /\ Drives(c, "ST_SEND")
    /\ \/ /\ peer[c] = "reset" /\ GoOn(c, "ST_Ex")
          /\ UNCHANGED <<unread, buf>>
       \/ /\ peer[c] # "reset"
          /\ \E k \in 1 .. Least(Len(buf[c]), KernelBuf - Len(unread[c])) :
                /\ unread' = [unread EXCEPT ![c] = @ \o Upto(buf[c], k)]
                /\ buf' = [buf EXCEPT ![c] = From(@, k)]
          /\ IF buf'[c] = <<>> THEN GoOn(c, "ST_RECV") ELSE Blocks(c, "EPOLLIN")
       \/ /\ peer[c] # "reset" /\ Len(unread[c]) = KernelBuf /\ Blocks(c, "EPOLLIN")
          /\ UNCHANGED <<unread, buf>>
    /\ UNCHANGED <<world, inflight, listening, nr_total>>

(* send takes a part, has no room, or fails.                               *)
Send(c) ==
    /\ Drives(c, "ST_SEND")
    /\ \/ /\ peer[c] = "reset" /\ GoOn(c, "ST_Ex")
          /\ UNCHANGED <<unread, buf>>
       \/ /\ peer[c] # "reset"
          /\ \E k \in 1 .. Least(Len(buf[c]), KernelBuf - Len(unread[c])) :
                /\ unread' = [unread EXCEPT ![c] = @ \o Upto(buf[c], k)]
                /\ buf' = [buf EXCEPT ![c] = From(@, k)]
          /\ IF buf'[c] = <<>> THEN GoOn(c, "ST_RECV") ELSE Blocks(c, "EPOLLOUT")
       \/ /\ peer[c] # "reset" /\ Len(unread[c]) = KernelBuf /\ Blocks(c, "EPOLLOUT")
          /\ UNCHANGED <<unread, buf>>
    /\ UNCHANGED <<world, inflight, listening, nr_total>>

Fails_Bug(c) ==
    /\ Drives(c, "ST_Ex") /\ GoOn(c, "ST_Ex")
    /\ UNCHANGED <<world, socks, listening, buf, nr_total>>

(* ST_Ex, left for ST_TERM.                                                *)
Fails(c) ==
    /\ Drives(c, "ST_Ex") /\ GoOn(c, "ST_TERM")
    /\ UNCHANGED <<world, socks, listening, buf, nr_total>>

(* TO_TERM.                                                                *)
Terminates(c) ==
    /\ Drives(c, "ST_TERM")
    /\ sched' = [sched EXCEPT ![c] = "terminated"]
    /\ UNCHANGED <<world, socks, listening, soul, nr_total>>

echo_driver(c) == Recv(c) \/ Send(c) \/ Fails(c) \/ Terminates(c)

(* EPOLLRDHUP is asked for with either event; a reset is always reported.  *)
Ready(c) ==
    \/ peer[c] \in {"fin", "reset"}
    \/ waits[c] = "EPOLLIN" /\ inflight[c] # <<>>
    \/ waits[c] = "EPOLLOUT" /\ Len(unread[c]) < KernelBuf

Wakes(c) ==
    /\ sched[c] = "asleep" /\ Ready(c)
    /\ sched' = [sched EXCEPT ![c] = "queued"]
    /\ waits' = [waits EXCEPT ![c] = "none"]
    /\ UNCHANGED <<world, socks, listening, state, buf, nr_total>>

(* The maintainer dismisses the imp, echo_delete closes the connection.    *)
echo_delete(c) ==
    /\ sched[c] = "terminated"
    /\ sched' = [sched EXCEPT ![c] = "dismissed"]
    /\ nr_total' = nr_total - 1
    /\ UNCHANGED <<world, socks, listening, soul>>

-----------------------------------------------------------------------------

Listener == listener_driver \/ ListenerBlocks \/ ListenerWakes
Imp(c) == echo_driver(c) \/ Wakes(c) \/ echo_delete(c)

EchoNext ==
    \/ Listener
    \/ \E c \in Conns : Connect(c) \/ Say(c) \/ Hear(c) \/ HangUp(c) \/ Imp(c)

EchoSpec == EchoInit /\ [][EchoNext]_echoVars

(* The dungeon runs its imps.  A peer need not speak, read or hang up.     *)
EchoFairSpec ==
    /\ EchoSpec /\ WF_echoVars(Listener)
    /\ \A c \in Conns : WF_echoVars(Imp(c))

-----------------------------------------------------------------------------

Streams == [Conns -> Seq(1 .. MaxSay)]

EchoTypeOK ==
    /\ peer \in [Conns -> {"away", "open", "fin", "reset"}]
    /\ said \in [Conns -> 0 .. MaxSay]
    /\ inflight \in Streams /\ unread \in Streams /\ heard \in Streams /\ buf \in Streams
    /\ backlog \in Seq(Conns) /\ listener \in {"queued", "asleep"}
    /\ sched \in [Conns -> {"none", "queued", "asleep", "terminated", "dismissed", "refused"}]
    /\ state \in [Conns -> {"ST_RECV", "ST_SEND", "ST_TERM", "ST_Ex"}]
    /\ waits \in [Conns -> {"none", "EPOLLIN", "EPOLLOUT"}]
    /\ nr_total \in Nat

(* "It reflects every byte of the socket": what the peer hears is what it  *)
(* said, in order, with none missing between it, the imp's buffer and the  *)
(* socket, through partial sends and receives.                             *)
EchoesInOrder ==
    \A c \in Conns :
        heard[c] \o unread[c] \o buf[c] \o inflight[c] = [k \in 1 .. said[c] |-> k]

(* Every byte a peer says comes back to it if it reads what comes, half-   *)
(* closed or not, although imps sleep for room or for bytes and whatever   *)
(* the other peers do: the event an imp waits for is one that will come.   *)
EveryByteReturns ==
    \A c \in Conns : WF_echoVars(Hear(c)) =>
        \A k \in 1 .. MaxSay :
            said[c] >= k ~> Len(heard[c]) >= k \/ peer[c] = "reset" \/ sched[c] = "refused"

(* A peer that hangs up costs no imp for ever, but for one that closes its *)
(* side and reads no more of what is still owed to it: with the socket     *)
(* full, EPOLLRDHUP wakes the imp in ST_SEND and it blocks again, over and *)
(* over, for the echo room sets no timer.                                  *)
Unheard(c) == peer[c] = "fin" /\ state[c] = "ST_SEND" /\ Len(unread[c]) = KernelBuf

HangUpEnds ==
    \A c \in Conns :
        peer[c] \in {"fin", "reset"} ~>
            sched[c] \in {"dismissed", "refused"} \/ []Unheard(c)
=============================================================================
