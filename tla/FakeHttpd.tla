----------------------------- MODULE FakeHttpd -----------------------------
(***************************************************************************)
(* A connection of the fake_httpd room, modules/fake_httpd/mod.c: its imp  *)
(* receives once, answers with a header that announces as many bytes as it *)
(* received, sends that many, and closes.  It sleeps for its descriptor    *)
(* and a timer together, so a time-out races the event it limits, in the   *)
(* worker (imp_reduct_event_mask), the epoller (imp_cancel_timer before    *)
(* imp_wake) and the kernel.                                               *)
(*                                                                         *)
(* imp_driver arms the two requests one after the other, so an event of    *)
(* the first wakes the imp while its worker is still arming the second,    *)
(* another worker fetches it then, and the list of requests is shared      *)
(* between them.  One of the two events may also still be in the epoller's *)
(* hands when the other has brought the imp to its end.  Where two drivers *)
(* run on the same memory at once, or a thread goes on with the freed imp, *)
(* anything may happen: the specification ends there, with misused.        *)
(***************************************************************************)
EXTENDS Naturals, Sequences

CONSTANTS
    Workers,    \* the worker threads
    MaxSay,     \* how many bytes the peer says
    BufSize,    \* BUFSIZE
    HeaderLen,  \* the length of the header
    Padding,    \* padding_data_size
    SockBuf,    \* what the kernel holds for the peer
    MaxRequests \* bound: no request is made while so many are not armed

ASSUME SizesAssumption ==
    {MaxSay, BufSize, HeaderLen, Padding, SockBuf} \subseteq Nat \ {0}

VARIABLES
    peer, said, inflight, unread,       \* the peer, and bytes in the kernel
    state, length, header_len,          \* struct echoer_memory_st
    announced, sentHeader, sentBody,    \* what the peer has been told and sent
    failed,                             \* has the imp been in ST_Ex?
    queued,     \* is the imp in run_queue?
    at,         \* at[w]: "idle", or what w does with the imp: "fetched", "running"
                \* its driver, "arming" its requests, "armed" when one is armed
    requests,   \* imp->requested_events
    waitio,     \* imp->waitio
    life,       \* "alive", or "dismissed" when it is freed
    terms,      \* how often it is in terminated_queue
    overlap,    \* history: a worker has taken the imp before another had let go of it
    misused,    \* two threads have driven the imp at once, or one has used it freed
    timer,      \* timer_fd: "off", "armed" or "expired"
    armedIn,    \* the state in which the timer was set last
    timedout,   \* IMP_TIMEDOUT
    want,       \* the event of the descriptor that was asked for
    polled,     \* the events armed in epoll_fd
    batch,      \* those epoll_wait has returned
    handling    \* the one the epoller has cancelled the timer for

world == <<peer, said>>
mem == <<state, length, header_len>>
reply == <<announced, sentHeader, sentBody, failed>>
clock == <<timer, armedIn>>
sched == <<queued, at, requests, waitio>>
grave == <<life, terms, overlap, misused>>
events == <<want, polled>>
epoller == <<batch, handling>>
vars == <<world, inflight, unread, mem, reply, sched, grave, clock, timedout, events, epoller>>

Least(a, b) == IF a < b THEN a ELSE b

-----------------------------------------------------------------------------
(* Definitions whose names end in _Bug are what a slip in the code would   *)
(* give; each stands before the definition it varies and is part of no     *)
(* specification.  They show that a property can fail.                     *)

(* listener_driver has summoned the imp, echo_new has set it up.           *)
Init ==
    /\ peer = "open" /\ said = 0 /\ inflight = 0 /\ unread = 0
    /\ state = "ST_RECV" /\ length = 0 /\ header_len = 0
    /\ announced = 0 /\ sentHeader = 0 /\ sentBody = 0 /\ failed = FALSE
    /\ queued = TRUE /\ at = [w \in Workers |-> "idle"] /\ requests = <<>> /\ waitio = FALSE
    /\ life = "alive" /\ terms = 0 /\ overlap = FALSE /\ misused = FALSE
    /\ timer = "off" /\ armedIn = "none" /\ timedout = FALSE
    /\ want = "none" /\ polled = {} /\ batch = {} /\ handling = "none"

-----------------------------------------------------------------------------
(* The peer, the kernel and the clock, as long as the socket is open.      *)

Say ==
    /\ life = "alive" /\ peer = "open" /\ said < MaxSay
    /\ said' = said + 1 /\ inflight' = inflight + 1
    /\ UNCHANGED <<peer, unread, mem, reply, sched, grave, clock, timedout, events, epoller>>

Hear ==
    /\ life = "alive" /\ peer # "reset" /\ unread > 0
    /\ unread' = unread - 1
    /\ UNCHANGED <<world, inflight, mem, reply, sched, grave, clock, timedout, events, epoller>>

HangUp ==
    /\ life = "alive" /\ peer = "open"
    /\ peer' \in {"fin", "reset"}
    /\ UNCHANGED <<said, inflight, unread, mem, reply, sched, grave, clock, timedout, events, epoller>>

Expire ==
    /\ timer = "armed"
    /\ timer' = "expired"
    /\ UNCHANGED <<world, inflight, unread, mem, reply, sched, grave, armedIn, timedout, events, epoller>>

-----------------------------------------------------------------------------
(* The epoller.                                                            *)

Ready(e) ==
    \/ e = "timer" /\ timer = "expired"
    \/ /\ e = "io"
       /\ \/ peer # "open"
          \/ want = "EPOLLIN" /\ inflight > 0
          \/ want = "EPOLLOUT" /\ unread < SockBuf

epoll_wait ==
    /\ batch = {} /\ handling = "none"
    /\ \E e \in polled : Ready(e)
    /\ batch' = {e \in polled : Ready(e)}
    /\ polled' = polled \ batch'
    /\ UNCHANGED <<world, inflight, unread, mem, reply, sched, grave, clock, timedout, want, handling>>

imp_cancel_timer ==
    /\ life = "alive" /\ handling = "none"
    /\ \E e \in batch : handling' = e /\ batch' = batch \ {e}
    /\ timer' = "off"
    /\ UNCHANGED <<world, inflight, unread, mem, reply, sched, grave, armedIn, timedout, events>>

imp_wake ==
    /\ life = "alive" /\ handling # "none"
    /\ handling' = "none"
    /\ waitio' = FALSE
    /\ queued' = (queued \/ waitio)
    /\ UNCHANGED <<world, inflight, unread, mem, reply, at, requests, grave, clock,
                   timedout, events, batch>>

-----------------------------------------------------------------------------
(* The workers: imp_reduct_event_mask, one call of echo_driver, and the    *)
(* loop of imp_driver over the requests it has made.                       *)

queue_dequeue(w) ==
    /\ at[w] = "idle" /\ queued
    /\ queued' = FALSE
    /\ at' = [at EXCEPT ![w] = "fetched"]
    /\ overlap' = (overlap \/ \E u \in Workers : at[u] # "idle")
    /\ UNCHANGED <<world, inflight, unread, mem, reply, requests, waitio, life, terms, misused,
                   clock, timedout, events, epoller>>

imp_reduct_event_mask_Bug(w) ==
    /\ life = "alive" /\ at[w] = "fetched"
    /\ at' = [at EXCEPT ![w] = "running"]
    /\ timedout' = (timer = "expired")
    /\ misused' = (misused \/ \E u \in Workers : at[u] = "running")
    /\ timer' = IF timer = "expired" THEN "off" ELSE timer
    /\ UNCHANGED <<world, inflight, unread, mem, reply, queued, requests, waitio, life, terms,
                   overlap, armedIn, events, epoller>>

imp_reduct_event_mask(w) ==
    /\ life = "alive" /\ at[w] = "fetched"
    /\ at' = [at EXCEPT ![w] = "running"]
    /\ timedout' = (timer = "expired")
    /\ misused' = (misused \/ \E u \in Workers : at[u] = "running")
    /\ timer' = "off"
    /\ UNCHANGED <<world, inflight, unread, mem, reply, queued, requests, waitio, life, terms,
                   overlap, armedIn, events, epoller>>

Drives(w, s) == life = "alive" /\ at[w] = "running" /\ state = s

(* TO_RUN.                                                                 *)
GoOn(w, s) ==
    /\ state' = s
    /\ at' = [at EXCEPT ![w] = "arming"]
    /\ UNCHANGED <<requests, clock, want>>

(* imp_set_ioev, imp_set_timer and TO_BLOCK.  The guard on requests is a   *)
(* bound: it waits for a worker that is still arming the last ones.        *)
Blocks(w, ev) ==
    /\ at' = [at EXCEPT ![w] = "arming"]
    /\ Len(requests) < MaxRequests
    /\ requests' = requests \o <<"io", "timer">>
    /\ want' = ev
    /\ timer' = "armed" /\ armedIn' = state
    /\ UNCHANGED state

(* One round of the loop over requested_events, each of which sets waitio. *)
ArmRequest(w) ==
    /\ life = "alive" /\ at[w] \in {"arming", "armed"} /\ requests # <<>>
    /\ at' = [at EXCEPT ![w] = "armed"]
    /\ requests' = Tail(requests)
    /\ waitio' = TRUE
    /\ polled' = polled \cup {Head(requests)}
    /\ UNCHANGED <<world, inflight, unread, mem, reply, queued, grave, clock, timedout,
                   want, epoller>>

(* The loop ends: llist_fetch_head_nb finds none, or the list held by      *)
(* another worker.  If it has armed none, imp_run.                         *)
Yields(w) ==
    /\ life = "alive" /\ at[w] \in {"arming", "armed"}
    /\ requests = <<>> \/ \E u \in Workers \ {w} : at[u] \in {"arming", "armed"}
    /\ at' = [at EXCEPT ![w] = "idle"]
    /\ queued' = (queued \/ at[w] = "arming")
    /\ UNCHANGED <<world, inflight, unread, mem, reply, requests, waitio, grave, clock,
                   timedout, events, epoller>>

Kept == UNCHANGED <<world, queued, waitio, grave, timedout, polled, epoller>>

(* IMP_TIMEDOUT, or recv and send fail.                                    *)
ToEx(w) ==
    /\ life = "alive" /\ at[w] = "running" /\ state \in {"ST_RECV", "ST_SEND_HEADER", "ST_SEND_BODY"}
    /\ timedout \/ peer = "reset"
    /\ GoOn(w, "ST_Ex")
    /\ failed' = TRUE
    /\ UNCHANGED <<inflight, unread, length, header_len, announced, sentHeader, sentBody>>
    /\ Kept

Recv(w) ==
    /\ Drives(w, "ST_RECV") /\ ~timedout /\ peer # "reset"
    /\ \/ /\ \E k \in 1 .. Least(BufSize, inflight) :
               length' = k /\ inflight' = inflight - k
          /\ GoOn(w, "ST_PREPARE_HEADER")
       \/ /\ inflight = 0 /\ peer = "fin" /\ GoOn(w, "ST_TERM")
          /\ UNCHANGED <<length, inflight>>
       \/ /\ inflight = 0 /\ peer = "open" /\ Blocks(w, "EPOLLIN")
          /\ UNCHANGED <<length, inflight>>
    /\ UNCHANGED <<unread, header_len, reply>>
    /\ Kept

PrepareHeader(w) ==
    /\ Drives(w, "ST_PREPARE_HEADER")
    /\ header_len' = HeaderLen
    /\ announced' = length
    /\ GoOn(w, "ST_SEND_HEADER")
    /\ UNCHANGED <<inflight, unread, length, sentHeader, sentBody, failed>>
    /\ Kept

SendHeader(w) ==
    /\ Drives(w, "ST_SEND_HEADER") /\ ~timedout /\ peer # "reset"
    /\ \/ \E k \in 1 .. Least(header_len, SockBuf - unread) :
            /\ unread' = unread + k /\ header_len' = header_len - k
            /\ sentHeader' = sentHeader + k
            /\ GoOn(w, IF header_len = k THEN "ST_SEND_BODY" ELSE state)
       \/ /\ unread = SockBuf /\ Blocks(w, "EPOLLOUT")
          /\ UNCHANGED <<unread, header_len, sentHeader>>
    /\ UNCHANGED <<inflight, length, announced, sentBody, failed>>
    /\ Kept

(* The padding is sent whole, however little is left to send.              *)
SendBody_Bug(w) ==
    /\ Drives(w, "ST_SEND_BODY") /\ ~timedout /\ peer # "reset"
    /\ \/ \E k \in 1 .. Least(Padding, SockBuf - unread) :
            /\ unread' = unread + k
            /\ length' = IF length > k THEN length - k ELSE 0
            /\ sentBody' = sentBody + k
            /\ GoOn(w, IF length <= k THEN "ST_TERM" ELSE state)
       \/ /\ unread = SockBuf /\ Blocks(w, "EPOLLOUT")
          /\ UNCHANGED <<unread, length, sentBody>>
    /\ UNCHANGED <<inflight, header_len, announced, sentHeader, failed>>
    /\ Kept

SendBody(w) ==
    /\ Drives(w, "ST_SEND_BODY") /\ ~timedout /\ peer # "reset"
    /\ \/ \E k \in 1 .. Least(Least(Padding, length), SockBuf - unread) :
            /\ unread' = unread + k /\ length' = length - k
            /\ sentBody' = sentBody + k
            /\ GoOn(w, IF length = k THEN "ST_TERM" ELSE state)
       \/ /\ unread = SockBuf /\ Blocks(w, "EPOLLOUT")
          /\ UNCHANGED <<unread, length, sentBody>>
    /\ UNCHANGED <<inflight, header_len, announced, sentHeader, failed>>
    /\ Kept

Fails_Bug(w) ==
    /\ Drives(w, "ST_Ex") /\ GoOn(w, "ST_RECV")
    /\ UNCHANGED <<inflight, unread, length, header_len, reply>>
    /\ Kept

(* ST_Ex is left for ST_TERM.                                              *)
Fails(w) ==
    /\ Drives(w, "ST_Ex") /\ GoOn(w, "ST_TERM")
    /\ UNCHANGED <<inflight, unread, length, header_len, reply>>
    /\ Kept

(* TO_TERM.                                                                *)
Terminates(w) ==
    /\ Drives(w, "ST_TERM")
    /\ at' = [at EXCEPT ![w] = "idle"]
    /\ terms' = terms + 1
    /\ UNCHANGED <<world, inflight, unread, mem, reply, queued, requests, waitio, life,
                   overlap, misused, clock, timedout, events, epoller>>

echo_driver(w) ==
    \/ ToEx(w) \/ Recv(w) \/ PrepareHeader(w) \/ SendHeader(w) \/ SendBody(w)
    \/ Fails(w) \/ Terminates(w)

(* The maintainer dismisses the imp: the connection and the timer are      *)
(* closed, and epoll reports them no more.                                 *)
echo_delete ==
    /\ life = "alive" /\ terms > 0
    /\ life' = "dismissed" /\ terms' = terms - 1
    /\ timer' = "off" /\ polled' = {}
    /\ UNCHANGED <<world, inflight, unread, mem, reply, sched, overlap, misused, armedIn, timedout, want,
                   epoller>>

(* The next step of whoever still holds a pointer to the imp.              *)
UseFreed ==
    /\ life = "dismissed"
    /\ handling # "none" \/ batch # {} \/ terms > 0 \/ \E w \in Workers : at[w] # "idle"
    /\ misused' = TRUE
    /\ UNCHANGED <<world, inflight, unread, mem, reply, sched, life, terms, overlap, clock, timedout, events,
                   epoller>>

imp_driver(w) == imp_reduct_event_mask(w) \/ echo_driver(w) \/ ArmRequest(w) \/ Yields(w)
Worker(w) == queue_dequeue(w) \/ imp_driver(w)
Epoller == epoll_wait \/ imp_cancel_timer \/ imp_wake

Next ==
    /\ ~misused
    /\ \/ Say \/ Hear \/ HangUp \/ Expire \/ Epoller \/ echo_delete \/ UseFreed
       \/ \E w \in Workers : Worker(w)

Spec == Init /\ [][Next]_vars

(* The threads of the dungeon run, and some worker dequeues what is        *)
(* queued.  A peer need not speak, read or hang up.                        *)
FairSpec ==
    /\ Spec /\ WF_vars(Epoller) /\ WF_vars(echo_delete)
    /\ WF_vars(\E w \in Workers : queue_dequeue(w))
    /\ \A w \in Workers : WF_vars(imp_driver(w))

-----------------------------------------------------------------------------

States == {"ST_RECV", "ST_PREPARE_HEADER", "ST_SEND_HEADER", "ST_SEND_BODY", "ST_TERM", "ST_Ex"}

TypeOK ==
    /\ peer \in {"open", "fin", "reset"}
    /\ said \in 0 .. MaxSay /\ inflight \in 0 .. MaxSay /\ unread \in 0 .. SockBuf
    /\ state \in States /\ length \in 0 .. BufSize /\ header_len \in 0 .. HeaderLen
    /\ announced \in 0 .. BufSize /\ sentHeader \in 0 .. HeaderLen /\ sentBody \in Nat
    /\ failed \in BOOLEAN
    /\ queued \in BOOLEAN /\ waitio \in BOOLEAN /\ overlap \in BOOLEAN /\ misused \in BOOLEAN
    /\ at \in [Workers -> {"idle", "fetched", "running", "arming", "armed"}]
    /\ requests \in Seq({"io", "timer"})
    /\ life \in {"alive", "dismissed"} /\ terms \in Nat
    /\ timer \in {"off", "armed", "expired"} /\ armedIn \in States \cup {"none"}
    /\ timedout \in BOOLEAN
    /\ want \in {"none", "EPOLLIN", "EPOLLOUT"}
    /\ polled \subseteq {"io", "timer"} /\ batch \subseteq {"io", "timer"}
    /\ handling \in {"none", "io", "timer"}

(* The answer is what its header says: no byte of the body before the      *)
(* whole header, never more of it than Content-Length, and all of it       *)
(* before the connection is closed, unless it failed.                      *)
ReplyIsWhole ==
    /\ sentBody <= announced
    /\ sentBody > 0 => sentHeader = HeaderLen
    /\ state = "ST_TERM" /\ ~failed => sentBody = announced

(* A time-out ends the wait it was set for and no other: a timer left over *)
(* from a wait that ended by its descriptor is never taken for the next,   *)
(* whichever workers drive the imp.                                        *)
TimeoutIsItsOwn == \A w \in Workers : at[w] = "running" /\ timedout => armedIn = state

(* A peer that has said something and reads what comes gets its answer, or *)
(* the connection ends.  Not so once a worker has taken the imp before     *)
(* another had let go of it: it may then find the timer's request alone in *)
(* the list, left by the other for a timer that is cancelled by now, and   *)
(* put the imp to sleep on that.                                           *)
AnswersOrEnds == WF_vars(Hear) => (said > 0 ~> life = "dismissed" \/ overlap)
=============================================================================
