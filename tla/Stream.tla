------------------------------- MODULE Stream -------------------------------
(***************************************************************************)
(* A TCP connection of util_conn_tcp.c with the buffer lists of            *)
(* ds_bufferlist.c at its ends: the sender writes to a list and sends the  *)
(* list, the receiver receives into a list and reads from it.  Either end  *)
(* may send_nb and recv_nb without a list.                                 *)
(*                                                                         *)
(* The bytes are numbered in the order they are written.  The kernel takes *)
(* and hands over any part of what it is offered.  Each end is one thread; *)
(* what a loop of the code does in one round is one action.                *)
(***************************************************************************)
EXTENDS Naturals, Sequences, FiniteSetsExt, SequencesExt, ByteStrings

CONSTANTS
    Bytes,      \* the bytes the sender has to say
    Sizes,      \* the sizes the ends call with
    BufMax,     \* bl->max, the most nodes of a buffer list
    Chunk,      \* DATA_BUFSIZE
    Iovs,       \* DEFAULT_IOVS
    SockBuf     \* what the kernel holds

ASSUME SizesAssumption == Sizes \subseteq Nat \ {0} /\ Bytes \in Nat
ASSUME LimitsAssumption == {BufMax, Chunk, Iovs, SockBuf} \subseteq Nat \ {0}

VARIABLES
    written,    \* how many bytes the sender has written or sent
    out, inn,   \* the two buffer lists
    wire,       \* the bytes the kernel holds
    got,        \* the bytes the receiver has read
    snd, rcv,   \* what each end is at
    scount, rcount, closed,
    ret,        \* what conn_tcp_recvv_nb returned
    spilt       \* history: conn_tcp_recvv_nb has lost bytes, for the list was full
                \* from the start or there was no memory for a node

vars == <<written, out, inn, wire, got, snd, rcv, scount, rcount, closed, ret, spilt>>

Size(node) == Len(node)
NewBytes(n) == [k \in 1 .. n |-> written + k]

-----------------------------------------------------------------------------
(* Definitions whose names end in _Bug are what a slip in the code would   *)
(* give; each stands before the definition it varies and is part of no     *)
(* specification.  They show that a property can fail.                     *)

(* The buffer list: its nodes, each the bytes from pos on, and what the    *)
(* code counts.                                                            *)
buffer_new == [nodes |-> <<>>, bufsize |-> 0, nbytes |-> 0]

Full(bl) == Len(bl.nodes) >= BufMax
First(bl) == Head(bl.nodes)

buffer_write(bl, data) ==
    [nodes |-> Append(bl.nodes, data), bufsize |-> bl.bufsize + 1,
     nbytes |-> bl.nbytes + Len(data)]

buffer_pop_Bug(bl) ==
    [nodes |-> Tail(bl.nodes), bufsize |-> bl.bufsize, nbytes |-> bl.nbytes - Size(First(bl))]
buffer_pop(bl) ==
    [nodes |-> Tail(bl.nodes), bufsize |-> bl.bufsize - 1,
     nbytes |-> bl.nbytes - Size(First(bl))]

buffer_move_head_Bug(bl, n) ==
    [bl EXCEPT !.nodes[1] = Upto(@, Len(@) - n), !.nbytes = @ - n]
buffer_move_head(bl, n) ==
    [bl EXCEPT !.nodes[1] = From(@, n), !.nbytes = @ - n]

Init ==
    /\ written = 0 /\ wire = <<>> /\ got = <<>>
    /\ out = buffer_new /\ inn = buffer_new
    /\ snd = [pc |-> "idle", left |-> 0]
    /\ rcv = [pc |-> "idle", left |-> 0, total |-> 0]
    /\ scount = 0 /\ rcount = 0 /\ closed = FALSE
    /\ ret = "none" /\ spilt = FALSE

-----------------------------------------------------------------------------
(* The sender.                                                             *)

SndIdle == snd.pc = "idle" /\ ~closed
Room == SockBuf - Len(wire)

(* buffer_write, which llist_append_nb refuses on a full list.             *)
WriteOut(n) ==
    /\ SndIdle /\ written + n <= Bytes
    /\ ~Full(out)
    /\ out' = buffer_write(out, NewBytes(n))
    /\ written' = written + n
    /\ UNCHANGED <<inn, wire, got, snd, rcv, scount, rcount, closed, ret, spilt>>

(* The kernel takes a part of the bytes.                                   *)
conn_tcp_send_nb(n) ==
    /\ SndIdle /\ written + n <= Bytes
    /\ out.nodes = <<>>
    /\ \E taken \in 1 .. Least(n, Room) :
        /\ wire' = wire \o NewBytes(taken)
        /\ written' = written + taken
        /\ scount' = scount + taken
    /\ UNCHANGED <<out, inn, got, snd, rcv, rcount, closed, ret, spilt>>

(* writev of the first Iovs nodes, no more than n bytes of them.           *)
conn_tcp_sendv_nb(n) ==
    /\ SndIdle
    /\ LET held == FlattenSeq(Upto(out.nodes, Least(Iovs, Len(out.nodes))))
           offered == Upto(held, Least(n, Len(held)))
       IN  \E taken \in 1 .. Least(Len(offered), Room) :
            /\ wire' = wire \o Upto(offered, taken)
            /\ snd' = [pc |-> "pop", left |-> taken]
    /\ UNCHANGED <<written, out, inn, got, rcv, scount, rcount, closed, ret, spilt>>

(* One round of its loop over what was sent, or the end of it.             *)
SendvPops ==
    /\ snd.pc = "pop"
    /\ \/ /\ snd.left > 0 /\ snd.left >= Size(First(out))
          /\ out' = buffer_pop(out)
          /\ snd' = [snd EXCEPT !.left = @ - Size(First(out))]
       \/ /\ snd.left > 0 /\ snd.left < Size(First(out))
          /\ out' = buffer_move_head(out, snd.left)
          /\ snd' = [snd EXCEPT !.left = 0]
       \/ /\ snd.left = 0
          /\ snd' = [snd EXCEPT !.pc = "idle"]
          /\ UNCHANGED out
    /\ UNCHANGED <<written, inn, wire, got, rcv, scount, rcount, closed, ret, spilt>>

(* The sender has sent all it has.                                         *)
conn_tcp_close_nb ==
    /\ SndIdle /\ written = Bytes /\ out.nodes = <<>>
    /\ closed' = TRUE
    /\ UNCHANGED <<written, out, inn, wire, got, snd, rcv, scount, rcount, ret, spilt>>

-----------------------------------------------------------------------------
(* The receiver.                                                           *)

RcvIdle == rcv.pc = "idle"

conn_tcp_recv_nb(n) ==
    /\ RcvIdle /\ inn.nodes = <<>>
    /\ \E k \in 1 .. Least(n, Len(wire)) :
        /\ got' = got \o Upto(wire, k)
        /\ wire' = From(wire, k)
        /\ rcount' = rcount + k
    /\ UNCHANGED <<written, out, inn, snd, rcv, scount, closed, ret, spilt>>

(* It takes from the socket before it looks for room: called with a full   *)
(* list it loses what it has taken, and returns 0.                         *)
conn_tcp_recvv_nb(n) ==
    /\ RcvIdle
    /\ rcv' = [pc |-> "recv", left |-> n, total |-> 0]
    /\ ret' = "none"
    /\ UNCHANGED <<written, out, inn, wire, got, snd, scount, rcount, closed, spilt>>

(* What it returns: a count, 0 among them, or -EAGAIN.                     *)
RecvvReturns(value) ==
    /\ rcv' = [pc |-> "idle", left |-> 0, total |-> 0]
    /\ ret' = IF value = 0 THEN "zero" ELSE "some"

(* A round of its loop in which recv has bytes.  They are lost when        *)
(* buffer_write fails, for the list is full or there is no memory: the     *)
(* history takes a list full in the first round for one the caller passed. *)
RecvvReceives_Bug ==
    /\ rcv.pc = "recv" /\ rcv.left > 0
    /\ \E k \in 1 .. Least(Least(rcv.left, Chunk), Len(wire)) :
        /\ wire' = From(wire, k)
        /\ rcount' = rcount + k
        /\ \/ /\ ~Full(inn)
              /\ inn' = buffer_write(inn, Upto(wire, k))
              /\ rcv' = [rcv EXCEPT !.left = @ - Least(@, Chunk), !.total = @ + k]
              /\ UNCHANGED <<ret, spilt>>
           \/ /\ RecvvReturns(rcv.total)
              /\ spilt' = (spilt \/ ~Full(inn) \/ rcv.total = 0)
              /\ UNCHANGED inn
    /\ UNCHANGED <<written, out, got, snd, scount, closed>>

RecvvReceives ==
    /\ rcv.pc = "recv" /\ rcv.left > 0
    /\ \E k \in 1 .. Least(Least(rcv.left, Chunk), Len(wire)) :
        /\ wire' = From(wire, k)
        /\ rcount' = rcount + k
        /\ \/ /\ ~Full(inn)
              /\ inn' = buffer_write(inn, Upto(wire, k))
              /\ IF inn'.bufsize = BufMax
                   THEN RecvvReturns(rcv.total + k)
                   ELSE /\ rcv' = [rcv EXCEPT !.left = @ - Least(@, Chunk), !.total = @ + k]
                        /\ UNCHANGED ret
              /\ UNCHANGED spilt
           \/ /\ RecvvReturns(rcv.total)
              /\ spilt' = (spilt \/ ~Full(inn) \/ rcv.total = 0)
              /\ UNCHANGED inn
    /\ UNCHANGED <<written, out, got, snd, scount, closed>>

(* recv has none: -EAGAIN, or the end of the stream, where the result goes *)
(* by what errno held before.                                              *)
RecvvEmpty_Bug ==
    /\ rcv.pc = "recv" /\ rcv.left > 0 /\ wire = <<>>
    /\ RecvvReturns(rcv.total)
    /\ UNCHANGED <<written, out, inn, wire, got, snd, scount, rcount, closed, spilt>>

RecvvEmpty ==
    /\ rcv.pc = "recv" /\ rcv.left > 0 /\ wire = <<>>
    /\ IF closed
         THEN RecvvReturns(0) \/ (rcv.total > 0 /\ RecvvReturns(rcv.total))
         ELSE /\ rcv' = [pc |-> "idle", left |-> 0, total |-> 0]
              /\ ret' = IF rcv.total > 0 THEN "some" ELSE "EAGAIN"
    /\ UNCHANGED <<written, out, inn, wire, got, snd, scount, rcount, closed, spilt>>

RecvvFull ==
    /\ rcv.pc = "recv" /\ rcv.left = 0
    /\ RecvvReturns(rcv.total)
    /\ UNCHANGED <<written, out, inn, wire, got, snd, scount, rcount, closed, spilt>>

buffer_read(n) ==
    /\ RcvIdle
    /\ rcv' = [pc |-> "read", left |-> n, total |-> 0]
    /\ UNCHANGED <<written, out, inn, wire, got, snd, scount, rcount, closed, ret, spilt>>

(* One round of its loop, or the end of it.                                *)
ReadTakes ==
    /\ rcv.pc = "read"
    /\ LET more == inn.nbytes > 0 /\ rcv.left > 0
       IN \/ /\ more /\ Size(First(inn)) <= rcv.left
             /\ got' = got \o First(inn)
             /\ rcv' = [rcv EXCEPT !.left = @ - Size(First(inn))]
             /\ inn' = buffer_pop(inn)
          \/ /\ more /\ Size(First(inn)) > rcv.left
             /\ got' = got \o Upto(First(inn), rcv.left)
             /\ inn' = buffer_move_head(inn, rcv.left)
             /\ rcv' = [rcv EXCEPT !.left = 0]
          \/ /\ ~more
             /\ rcv' = [rcv EXCEPT !.pc = "idle"]
             /\ UNCHANGED <<inn, got>>
    /\ UNCHANGED <<written, out, wire, snd, scount, rcount, closed, ret, spilt>>

-----------------------------------------------------------------------------

Sends == SendvPops \/ \E n \in Sizes : conn_tcp_sendv_nb(n)
ReceiverSteps == RecvvReceives \/ RecvvEmpty \/ RecvvFull \/ ReadTakes
Receives == \E n \in Sizes : conn_tcp_recvv_nb(n)
Reads == \E n \in Sizes : buffer_read(n)

Next ==
    \/ Sends \/ ReceiverSteps \/ Receives \/ Reads \/ conn_tcp_close_nb
    \/ \E n \in Sizes : WriteOut(n) \/ conn_tcp_send_nb(n) \/ conn_tcp_recv_nb(n)

Spec == Init /\ [][Next]_vars

(* The loops run on, and the ends keep sending, receiving and reading.     *)
FairSpec ==
    /\ Spec
    /\ WF_vars(SendvPops) /\ SF_vars(Sends)
    /\ WF_vars(ReceiverSteps) /\ SF_vars(Receives) /\ SF_vars(Reads)

-----------------------------------------------------------------------------

Lists == [nodes : Seq(Seq(1 .. Bytes) \ {<<>>}), bufsize : 0 .. BufMax, nbytes : 0 .. Bytes]

TypeOK ==
    /\ written \in 0 .. Bytes
    /\ out \in Lists /\ inn \in Lists
    /\ wire \in Seq(1 .. Bytes) /\ got \in Seq(1 .. Bytes)
    /\ snd \in [pc : {"idle", "pop"}, left : 0 .. Bytes]
    /\ rcv \in [pc : {"idle", "recv", "read"}, left : Nat, total : 0 .. Bytes]
    /\ scount \in 0 .. Bytes /\ rcount \in 0 .. Bytes
    /\ closed \in BOOLEAN
    /\ ret \in {"none", "zero", "some", "EAGAIN"} /\ spilt \in BOOLEAN

(* The bytes of out that writev has not taken yet.                         *)
Unsent == From(FlattenSeq(out.nodes), snd.left)

(* No byte is lost, doubled or reordered between buffer_write at one end   *)
(* and buffer_read at the other, through nodes split by partial sends,     *)
(* full sockets and lists, and reads that end inside a node, until         *)
(* conn_tcp_recvv_nb has no memory or was called with a full list.  A list *)
(* that becomes full in the midst of a call loses none.                    *)
BytesInOrder ==
    spilt \/ got \o FlattenSeq(inn.nodes) \o wire \o Unsent = [k \in 1 .. written |-> k]

(* bufsize and nbytes, which buffer_delete, buffer_read and recvv go by,   *)
(* are the nodes of the list and the bytes in them, whatever is lost;      *)
(* rcount, shown as "BytesIn", is what came over the connection.           *)
CountsMatch ==
    /\ \A bl \in {out, inn} :
         bl.bufsize = Len(bl.nodes) /\ bl.nbytes = Len(FlattenSeq(bl.nodes))
    /\ spilt \/ rcount = Len(got) + Len(FlattenSeq(inn.nodes))

(* conn_tcp_recvv_nb returns 0 at the end of the stream and only there, or *)
(* when it has lost bytes: the drivers of the rooms take 0 for a closed    *)
(* connection.                                                             *)
ZeroIsTheEnd == spilt \/ (ret = "zero" => closed /\ wire = <<>>)

(* What is written is read, if none is lost on the way.                    *)
AllArrives == \A k \in 1 .. Bytes : written >= k ~> Len(got) >= k \/ spilt
=============================================================================
