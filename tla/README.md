# The dungeon server in TLA+

A dungeon is a server in C: rooms (loadable modules) summon *imps*, small finite
state machines, and a few threads drive them. This directory models the parts of
`src/src` whose correctness depends on order: the queues, the life of an imp, the
start and end of the processes, the containers, a connection and two rooms. TLC
checks small instances; TLAPS proves, for every instance, the two queues, the safety
of the dungeon at work and of its start and end, the linked list, the red-black tree,
the hash table's counts, the bytes of a connection and of the echo room and the answers
of the http room.

    tlc -config MCQueue.cfg MCQueue             # a run
    tlapm QueueProofs.tla                       # the proofs of a module

## 1. Inventory

### Components

| component | source | state | operations |
|---|---|---|---|
| bounded queue | `ds_queue2.c` | ring `bucket`, `rindex`, `windex`, counters, a mutex, two condition variables | enqueue, enqueue_nb, enqueue_uniq_nb, dequeue, dequeue_nb |
| imps | `imp.c`, `imp_body.c` | `waitio`, `event_mask`, `requested_events`, a timerfd; `nr_total`, `nr_waitio` | summon, run, wake, kill, term, dismiss, driver, set_ioev, set_timer |
| workers and epoller | `thr_worker.c` | the imp at hand; the batch of `epoll_wait` | fetch and drive; wait, cancel the timer, wake |
| maintainer | `thr_maintainer.c` | `pending_event`, quit mark | drain, dismiss, sleep |
| dungeon | `dungeon.c`, `main.c`, `thr_monitor.c` | queues, epoll descriptor, rooms, threads | init, add rooms, delete; signal handler |
| keeper | `main.c` | the child it waits for; the file limit of the heart | fork, waitpid; `rlimit_try` |
| lock-free queue | `ds_queue.c` (not built) | ring, `windex`, `rindex`, `max_rindex` | enqueue_nb, dequeue_nb |
| linked list | `ds_llist.c` | chain, `nr_nodes`, one mutex, one condition variable | append, get, fetch, fetch_match, delete, `_nb` forms |
| buffer list, TCP connection | `ds_bufferlist.c`, `util_conn_tcp.c` | nodes, `bufsize`, `nbytes`, `pos`; `rcount`, `scount` | write, read, pop, move_head; send, recv, sendv, recvv, close |
| echo room | `modules/echo/mod.c` | per connection a state, a buffer, pos and len | listener and connection drivers |
| fake httpd room | `modules/fake_httpd/mod.c` | state, request, header, body left, timers | connection driver |
| hash table | `ds_hasht.c` | buckets of slots, a rwlock for each, counts | add, find, fetch, modify, delete, clean |
| red-black tree | `ds_rbtree.c` | nodes with parent and color | insert (by key, by timer), delete, min |

Configuration, logging, the room loader, the dumb room, strings and memory vectors,
the bitmap, time arithmetic, the state dictionary, the UDP connection and cJSON are
not modelled; section 5 and `PROJECT.json` say why for each.

### How they interact

Main forks through the keeper, then builds the dungeon: queues and epoll, workers
and epoller, maintainer, monitor, rooms, in that order. A room's `mod_init` summons
its listener, which puts it in the **run queue**. A worker takes an imp from it,
reads its timer into `event_mask`, tests for a kill and calls the soul's
`fsm_driver`. The driver may summon imps and asks for events
(`imp_set_ioev`, `imp_set_timer`, through the imp's **linked list** of requests);
after it, the worker marks the imp as waiting and hands each descriptor to
**epoll**, or queues the imp again if it asked for nothing, or puts it in the
**terminated queue** and wakes the **maintainer**, which dismisses it. The
**epoller** turns an event into a wake-up: it cancels the timer, clears `waitio`
with a compare and swap, and queues the imp. On a signal `dungeon_delete` ends the
threads in an order, drains the queues and demolishes the rooms.

### What is hard

* An imp is handed between worker, epoller and maintainer without a lock of its own:
  two queues, a compare and swap and EPOLLONESHOT are all that keeps it in one place,
  and there are four ways around them.
* Counters are changed before or after what they count, by other threads.
* Condition variables with cancellation, spurious wake-ups and calls that barge in.
* Rings, counters, timer keys that wrap; scans that run one slot too far.
* Threads cancelled and joined while asleep, while a queue is drained; a signal that
  comes between any two steps of `dungeon_init`, any of which may fail.
* Indices of a ring without a lock, read one after the other and swapped later.
* Reads, writes and writev that do a part; the end of a stream told by errno.
* A timer that races the descriptor it guards.

### What makes each part correct

The queue is a FIFO and loses no wake-up; an imp lives one life, is never touched
after it is freed, is driven when queued, woken when its timer expires, freed when
terminated; the counters count; resources outlive the threads that use them and
shutdown ends; the keeper keeps one heart; the list is a list; bytes arrive once and
in order; a reply is as long as it says; the hash table's counts and locks agree
with its slots; the tree is balanced and sorted. The hazards in `PROJECT.json` tie
these to lines.

## 2. The modules

| module | what it models | abstract specification |
|---|---|---|
| `Queue` | `ds_queue2.c`: one action per stretch between lock, wait and unlock | `BoundedFifo` |
| `Dungeon` | `imp.c`, `imp_body.c`, `thr_worker.c`, `thr_maintainer.c` at work | `ImpLife` |
| `Daemon` | one heart: `dungeon_init`, `dungeon_delete`, the threads' loops, cancellation | |
| `Server` | `main.c`: the keeper and its hearts, the bisection of the file limit; extends `Daemon`, whose steps are those of the living heart | |
| `RingQueue` | `ds_queue.c`, the queue without a lock | `BoundedFifo`, up to refusals |
| `LList` | `ds_llist.c` | `SharedList` |
| `Stream` | `ds_bufferlist.c` at both ends of a connection of `util_conn_tcp.c` | |
| `Echo` | the echo room with its peers | |
| `FakeHttpd` | a connection of the fake httpd room, its timer, epoller | |
| `HashTable` | `ds_hasht.c` | |
| `RbTree` | `ds_rbtree.c`, a round of a loop at a time | `SortedList` |
| `ByteStrings` | parts of a string of bytes, for `Stream` and `Echo` | |
| `QueueProofs`, `DungeonProofs`, `ServerProofs`, `RingQueueProofs`, `FakeHttpdProofs`, `HashTableProofs` | theorems about the module they name | |
| `ConnectionProofs` | theorems about `Stream` and `Echo`, which share what is said of strings of bytes | |
| `ContainerProofs` | theorems about `LList` and `RbTree` | |
| `MC*` | the instances for TLC | |

State and actions keep the source's names. Where a definition has none it is named
for what it does, and `PROJECT.json` gives its lines. The modules that meet others in
a module of proofs name their specification after themselves: `EchoSpec`, `TreeSpec`.

**Queue.** `bucket`, `rindex`, `windex`, `nr` and both counters are the fields of
`struct queue_st`; `pc` says whether a thread asks for the mutex, has it, or sleeps.
`Lock` takes the mutex; `Wait`, `Enqueue`, `EnqueuePresent`, `Dequeue`, `Refuse` are
what a call does inside, to its unlock. A signal picks any sleeper; `SpuriousWakeup`
is what POSIX allows; `Cancel`, `Unwind`, `cleanup_unlock` a `pthread_cancel` in the
wait. `CountMod` is the width of the counters. Pointers in `Unique` are queued by
`queue_enqueue_uniq_nb` alone, as the imps are, and the others by either of the
plain calls, as the tests of `ds_queue2.c` do. The scan of `queue_enqueue_uniq_nb`
reads one word past the ring when it has wrapped: `Beyond` is what may stand there.

**Dungeon.** A worker's actions follow `thr_driver` and `imp_driver` line by line
(`Fetch`, `Reduct`, `CheckKill`, `CheckAlert`, `SoulTerm`/`SoulYield`, `ArmNext`,
`set_poll_action`, `ArmEnd`, `CountSleeper`, `Rerun`, `imp_term`,
`thr_maintainer_wakeup`, `Yielded`); the epoller's are `epoll_wait`,
`imp_cancel_timer`, `WakeCas`, `WakeCount`, `WakeRun`, `WakeEnd`; the maintainer's
`imp_dismiss`, `Decrease`, `Drained`, `PendingEvent`; `imp_summon` is three steps,
for its check, its `imp_new` and its `imp_run`, and `imp_kill` two, the read and the
write of its `|=`. Queue operations are atomic: `Queue` and its proofs are the
reason. A soul is any choice the constants allow, a descriptor and a timer together
among them, and there may be any number of workers and of summoners. The generic
event descriptor of `imp_body.c` has no caller and is left out.

No lock is held for an imp, and the code leaves four races open. `raced` is a history
variable, which no guard reads; it becomes true when

* an imp is fetched while another worker is still in `imp_driver` with it (`Fetch`);
* a worker marks its imp as waiting for a second time, after an event of the first
  request has woken it (`ArmNext`);
* `epoll_wait` reports an event of an imp that is awake, or two events of one imp;
* `imp_new` raises `nr_total` although others have raised it to `nr_max` meanwhile.

The model goes on after a race and shows what comes of it; most properties say what
holds until there is one. So what they say is: whatever goes wrong in the dungeon
begins with one of these four. A thread that follows the pointer of a freed imp stops
there (the guards `mem[..] = "live"`). `mylog` evaluates its arguments only if the
log level has the line (`util_log.h:39`); `Debug` says whether it is `L_DEBUG`, and
`InLog`, `WakeEnd` are the lines that then use an imp the thread has already let go of.

**Daemon.** `main` walks through `dungeon_init`, one step for each part it makes and
each thread it creates, then `run`, then `dungeon_delete`. Each step that the code
tests may fail, and some of the workers may be refused. `Signal` interrupts main
after any step: where the part that `dungeon_delete` goes to end does not exist, the
handler runs into what the code leaves there (`crash`). `dungeon_add_room` takes the
mutex of the run queue to summon the listener, and that of the list of rooms to
append to it (`holds`); a handler that comes in between finds them taken. `mod_init`
may get no listener from `imp_summon` and returns 0 all the same, may refuse, or make
`dungeon_add_room` call `exit`; `room` says what has become of each. `mod_destroy`
writes to the room's listener, be it in memory, freed (which may go unnoticed), or NULL
(`crash`). A second
signal cancels the monitor, which then is in a `dungeon_delete` of its own
(`SignalMonitor`). A worker takes a cancellation only where POSIX has a cancellation
point. What a worker does with an imp is one step here; `Dungeon` has it in full.

**Server.** `fork`, `waitpid` and the fork that fails are the keeper's; a heart is a
process id in `heart`. It bisects for its file limit (`rlimit_try` is one call up to
its tail call; `kernel` is what `setrlimit` goes by: `fs.nr_open`, the hard limit, the
privilege) and then takes the steps of `Daemon`. `HeartEnds` may come at any moment:
the exit, the abort, or a kill from outside; the memory of the process, which is all
of `Daemon`'s state, goes back to its initial value.

**RingQueue.** Each read and each compare-and-swap of an index is a step, and so is
the write and the read of a slot. Two history variables, which no guard reads, tell
what the swaps cannot: `moved[t]`, that another has moved the index since t read it,
and `aba`, that a swap has succeeded all the same, for the index had come back to its
old value. The model goes on from there and loses or repeats pointers as the code does.

**LList, HashTable.** As `Queue`: what a call does under a lock is a step, what it
does outside is another. `Accepts` is what a comparison of `llist_fetch_match`
takes, and the history variable `lost` says that one has taken a node that is not the
first. An append may find no memory for a node. In `HashTable` a node found under the
lock is read after it, as in the code, and `grown` tells whether `realloc` has moved the slots since.

**Stream, Echo, FakeHttpd.** Bytes are numbered in the order they are said, so that
loss, duplication and reordering show. The kernel takes and gives any part of what
it is offered. Each round of a loop is a step. In `Stream` `conn_tcp_recvv_nb` may be
called with any list, and the history variable `spilt` says that it has lost bytes to
one that was full, or for want of memory. `FakeHttpd` has any number of workers, the
loop of `imp_driver` over the two requests one at a time, and the threads that still
hold the imp when it is freed. `overlap` says that a worker has taken the imp before
another had let go of it; `misused` that two were in the soul's driver at once, or that
the freed imp was used: the specification ends there, for C promises nothing more.

**RbTree.** A call is its first step, one step for each round of a loop and its
return; the two mirrored halves of a loop are one definition with a side.

The modules state their variables' types in `TypeOK` (`EchoTypeOK`, `TreeTypeOK`), `RingQueue`
in `Types` of its proofs. Definitions ending in `_Bug`
are slips a programmer could make at that place. No specification uses them; each
property is violated when one of them stands in for the definition it varies.

## 3. The runs

| run | module | shows |
|---|---|---|
| `queue` | MCQueue | `MutexInv`, `RingInv`, `NoLostWakeup`, `NoDuplicates`; the code implements the FIFO (`ImplementsFifo`) under every mix of calls, cancellation and spurious wake-ups; `AllDelivered`, what is queued is handed out |
| `dungeon` | MCDungeon | `TypeOK`; until a race: no use after free, on any thread (`NoUseAfterFree`), `AsleepIsArmed`, the threads implement `ImpLife`, `QueuedIsDriven`, `TimerWakes`, `TerminatedIsFreed`; `Accounting` of `nr_total`, race or not, and of `nr_waitio` |
| `dungeon_timeout` | MCDungeon | a violation: `ExpiryIsReported` fails, see section 6 |
| `dungeon_kill` | MCDungeon | a violation: `KillIsObeyed` fails, see section 6 |
| `server` | MCServer | `ThreadsEndFirst`: what `dungeon_delete` frees no thread uses any more; `DismissedOnce`, `QueuedAreDismissed`; `ShutdownEnds` from wherever the threads are; `OneHeart`, `HeartComesBack`; `LimitFound`: what the bisection may find |
| `llist` | MCLList | until a `llist_fetch_match` loses nodes: `ImplementsList`; `DeleteEnds`: `llist_delete` ends, and it does not once nodes are lost |
| `stream` | MCStream | `BytesInOrder`, `CountsMatch`, `ZeroIsTheEnd` (the drivers take 0 for a closed connection), `AllArrives`; all until `recvv` spills bytes, but for the counters of the lists |
| `echo` | MCEcho | `EchoesInOrder`; `EveryByteReturns` to a peer that reads; `HangUpEnds`, unless the peer leaves unread what is owed to it |
| `httpd` | MCFakeHttpd | `ReplyIsWhole`, `TimeoutIsItsOwn` (a time-out ends the wait it was set for); `AnswersOrEnds` for a peer that reads, until workers overlap |
| `hasht` | MCHashTable | `CountsAddUp`, `WithinVolume`, `CallsReturn` |
| `rbtree` | MCRbTree | `RedBlackTree` in every step, up to what the call at hand has still to mend; `ImplementsSortedList` |
| `ring` | MCRingQueue | until a swap takes an old index for the present one: `ImplementsFifo`, up to refusals that tell nothing; `CallsReturn` |

### Bounds

* `queue`: three threads, one of which does both like a worker, two pointers of which
  one is only queued by `queue_enqueue_uniq_nb`, a ring of two, counters modulo 3:
  two sleepers on a side, both wrap-arounds (the ring's and the counters', which are
  out of step), a cancellation and a barging call all occur. The proofs have every
  size.
* `dungeon`: two workers, three imps, a limit of two: a third imp must wait for a
  dismissal; a sleeping, a queued and a running imp meet. The soul of `i2` asks for
  nothing, or for a descriptor and a timer together, as a connection of fake httpd
  does; those of `i1` and `i3` for a descriptor, as the listeners do. Main summons `i1`
  and `i3`, the soul of any imp may summon `i2`. `i1` may be killed, and its descriptor
  refused. `Debug` is off, as the default level of the log has it. `Bounds` is a
  constraint that keeps the run short: it does not follow what comes after a race, of
  which every property but `TotalAccounting` says nothing; an imp is killed only while
  no other lives; and main summons a second time only while the soul of `i1` runs, and
  beside a worker that summons, where the two pass the test of `nr_max` together.
  The theorems have none of these bounds.
* `server`: two workers, a listener and one imp more, every step of `dungeon_init`
  allowed to fail, two process ids, so that a second heart could live beside the
  first; limits to 14 with a lower end of 3, where both parities of the middle occur.
* `ring`: two threads that both put and take, and three slots, which wrap: each thread
  races the other on both sides and may be passed by any number of laps of it.
* `llist`: a list of two and three threads, so that both sides sleep at once; one
  comparison takes any node, another passes a node by.
* `stream`: four bytes, sizes 1 and 3, lists of three nodes of which a writev is
  offered two, a socket of three: nodes are split, a list is longer than what is
  offered, lists and the socket fill. `echo`: two peers, three bytes, a limit of
  two. `httpd`: two workers, two bytes, a header of two, padding of two, a socket of
  two, so that the header fills it and the body waits. `MaxRequests` is a bound: a
  driver does not ask for more while another worker still arms the last requests.
* `hasht`: two buckets, a volume of two, slots that start at one, four items, two to
  a key; two threads add and one fetches (section 6 has two). `MaxCalls` bounds the
  calls a thread begins. `rbtree`: six nodes, which is enough for every case of both fixups; keys
  of four bits on both sides of the wrap, two pairs equal.

### Fairness

A thread inside a call runs on (weak fairness of its steps). A mutex that is asked
for again and again is had at last (strong fairness of `Lock`), which is what glibc
gives in practice and POSIX does not promise. A timer that is set expires. The
workers' loops call `queue_dequeue` again; nothing else is assumed to call. No peer
is assumed to speak, to hang up or to read. `EveryByteReturns` and `AnswersOrEnds`,
which are about bytes that return, have it as a premise that the peer reads; no other
property has. In `Stream` the ends keep calling, as the loops of the
rooms do. In `Server` the keeper runs, and in the heart `dungeon_delete`, the workers,
the epoller and the maintainer; `accept` need not return, but a cancelled monitor
comes to a cancellation point, which both of its calls are. In `RingQueue` every
thread inside a call runs on, which `sched_yield` in the publishing loop lets it.
Nobody is assumed to send a signal, to summon or to kill.

Deadlock checking is off where the system may come to rest: a dungeon that is
deleted, a keeper that is ended, peers that are gone, threads that have made their
calls.

## 4. Proofs

`QueueProofs` (any threads, any calls, any capacity, any counter width that exceeds
it):

* `TypeCorrect`, `MutualExclusion` and `RingConsistent`, from the conjunction of
  the type, what a thread's `pc` says of its call, the ownership of the mutex, and
  the arithmetic of `rindex`, `windex`, `nr` and the counters. `RingInv` is not
  inductive alone: a dequeue subtracts one from `nr`, which must not be 0, and that
  is known from the guard taken under the mutex.
* `QueueIsFifo`: `Spec => Fifo!Spec` with the refinement mapping that reads the
  ring from `rindex` for `nr` slots. Its assumption is that the word after the ring
  never holds a pointer in use; without it the scan may see what is not queued.
  Each step of the ring is a step of the FIFO or a stutter; the lemma about the
  ring is that appending at `windex` and dropping at `rindex` are `Append` and
  `Tail` of the contents.
* `RunQueueUnique`: a ring filled by `queue_enqueue_uniq_nb` alone has no pointer
  twice, for its scan misses none.
* `WakeupsNeverLost`: while a thread sleeps, as many others are on their way to the
  ring as it has work for. Barging calls leave the count to the signal that follows,
  a cancelled sleeper passes on nothing it was given; the induction is on how the
  two cardinalities change, by one, in a step.

`DungeonProofs`: `TypeCorrect`, for any imps, workers, limit and souls. It needs
`Holding`: a thread past its fetch holds an imp, a summoner at its last step has a
child, the epoller at work has an imp.

`NothingFreedIsUsed` and `SleepersCanWake` hold for any imps, any workers, whatever the
souls ask for, any limit, kills and refusals of epoll, until a race. Neither property is
inductive. What makes them true is that until then an imp is in one place at a time, the
invariant `Safe`: what a worker has marked at each of its steps (`ThreadInv`), queues hold
each imp once (`QueueInv`), imps that can be reached are in memory (`LiveInv`), none is in
two of the queues, asleep, on its way to be woken, newborn, or driven (`PlaceInv`), and
epoll and the batch point at imps marked as waiting, an imp at most once in a batch
(`EpollInv`). The one exception is a worker that has marked its imp as waiting and still
arms it (`slept`): the imp may be woken, and queued, under it. It is what two of the four
races come from, and `Quiet` names the workers it is not true of. Each lemma about a step
shows that the step keeps `Safe` or sets `raced`. `CanWake` adds for `SleepersCanWake` that
requests are left only to the worker that arms them, and that whoever waits has something
armed. `NothingFreedIsUsed` assumes `~Debug`: at `L_DEBUG` the code does use freed imps
(section 6), race or not.

`CountersAreRight` (`Accounting`), for finitely many imps and workers: `nr_total` by the
sum it stands for and by `Overrun`, neither of which needs that there is no race;
`nr_waitio` by `Safe` and its sum, in which a worker that has marked its imp and not
counted it has a part. `LimitIsOverrunByWorkersOnly` is `Overrun` by itself: the test and
the count of `imp_summon` are two steps, but an actor is once between them, and main
and the workers are all the actors there are.

`DungeonImplementsImpLife` is the step simulation, for finitely many imps and workers,
up to the first race. Beside `Safe` it needs that no imp is ever lost between two places
(`Placed`): both queues hold `nr_max` imps, each live and each once, and until a race no
more than `nr_max` live (`InLimit`), so that neither queue can refuse one. Of what follows
a race it claims nothing, for there it is false: two workers drive one imp.

`ServerProofs`, for any workers, imps, rooms, process ids, kernels, and whichever
steps fail: `HeartsAreOne`, from `KeeperInv` (the child the keeper waits for is the
only process there is); `ReleasedLast` (`ThreadsEndFirst`), from `StageInv`, which says
for every step of main which threads have ended by then and which parts are in place;
`NothingDismissedIsUsed` (`DismissedOnce`), from an invariant on where each imp is;
`NothingQueuedIsLeft` (`QueuedAreDismissed`), from `KeptInv`: an imp in memory is in a
queue, asleep or in the hands of a worker, and a queue that is drained stays empty, for
nobody is left to fill it. A heart that ends returns to the initial state, so these
hold of every heart there is. `BisectionFinds` (`LimitFound`) rests on `BisectInv`: what
the bisection still searches holds the limit it will find. It assumes
`Wanted # Low + 1`, for a range of two is not tried at its upper end; main asks for 1024
files and five for each imp, from a lower end of 1024, so that the code never meets it.

`ConnectionProofs` on `Echo`, for any connections, any number of bytes and any sizes of the buffer and
the sockets: `EveryByteInOrder` (`EchoesInOrder`). Beside the property itself its
invariant says that an imp about to receive has an empty buffer (`Emptied`); without it
`recv` would overwrite what a partial send has left.

`FakeHttpdProofs`, for any workers, sizes and however the kernel splits what is sent:
`AnswerIsWhole` (`ReplyIsWhole`) and `TimeoutsAreOwn` (`TimeoutIsItsOwn`), from what
each state of the connection has sent, and from which state a timer that is on was set;
also where workers overlap, as long as they are not both in the soul's driver.

`ContainerProofs` on `LList`, for any threads, pointers, volume and calls. `CounterCovers`: `nr_nodes`
is never behind the chain nor beyond the volume, whatever `llist_fetch_match` drops.
`ListIsShared` (`ImplementsList`) is the step simulation, until `llist_fetch_match`
takes a node that is not the first: with `Exact`, `nr_nodes` is until then
the length of the chain, so that the guards on the counter are those of `SharedList` on
the list, and the error return of a counter that is wrong is never taken; `CallInv` says
which call a thread at each label is in, and that nothing overlaps `llist_delete`. It
holds of every comparison; nothing in `src` calls `llist_fetch_match`.

`ConnectionProofs` on `Stream`, for any number of bytes, any sizes of calls, lists and socket:
`StreamInOrder` (`BytesInOrder`), `StreamCounts` (`CountsMatch`), `StreamZero`
(`ZeroIsTheEnd`). The bytes read, in the list of the receiver, in the socket and in the
list of the sender from where `writev` has left off are one sequence, `AllBytes`, which
only `buffer_write` makes longer (`IInv` adds that no list has an empty node, that its
counters are right, and where a call that sends or receives has come to). All this is
until `spilt`; the counters of the lists, the types and the sender's part hold after it
too. `ReceiverInv` says what makes `spilt` the only way to lose bytes: a call to
`recvv` that has stored a chunk goes on only while the list has room for the next. Each action
moves bytes from one part of it to the next: the lemmas say that a part taken from the
front of one and put at the end of the other leaves the whole as it was. They need what
`FlattenSeq` does to a list with a node more or less or split, for every list.
`FlattenSeq` is a recursive function, and induction as a rule is out of the prover's
reach; the proofs take the least length at which the claim fails instead, which exists
because the naturals are well founded (`WFMin`), and derive a contradiction.

`HashTableProofs`, for any finite set of threads, any items, keys, hash and sizes:
`TableCounts` (`CountsAddUp`) and `TableVolume` (`WithinVolume`). They assume
`OneFetcher`, that one thread at most calls `hasht_fetch_item`; section 6 says why. The
count of the table is a sum over buckets and over the calls under way, written as the
sizes of two sets of pairs, `Taken` and `Owed`: `RowChanges` says what replacing one row
of such a set does to its size. The invariant adds who holds which lock (`LocksHeld`),
that the slot and the count that a fetch has read under its shared lock are still so
(`FetchKnows`, from `Alone`: who else writes in that bucket would need the lock for
itself), and for the volume `Bounded`: `nr_nodes` and the adders past their test together
are less than the volume and all threads that add.

`RingQueueProofs`, for any threads, data and number of slots: `RingIsFifo`
(`ImplementsFifo`), the step simulation of `BoundedFifo`. A call takes effect where it
publishes its slot or swaps `rindex`, or where it gives up. The invariant has, from `rindex` on,
the slots that are published, reserved and free, in that order (`Reserved`): each
reserved slot belongs to one thread, and is written when its owner is about to publish
it. The compare-and-swaps are justified by `Seen`: as long as `moved[t]` is false the
index is what t has read, and the queue as t saw it (there is room, or the pointer copied
is still the first). A swap that succeeds although `moved[t]` holds sets `aba`, and the
invariant and the property end there: the theorem says that every pointer lost, repeated
or out of turn comes after such a swap, with no guard that the code lacks.
The property alone says nothing of what a thread holds between its read and its
swap, which is where an induction on it fails. `CallAssumption` names the calls
that `ds_queue.c` has.

`ContainerProofs` on `RbTree`, for any finite set of nodes, keys, and width of a timer
key: `AlwaysRedBlack` (`RedBlackTree`). The property is about paths of any length, and a rotation
moves whole subtrees, so that the invariant has to say the same in a form that each
step changes in a few places only. `IsShape` gives each node a place `pos` in the order
of the tree (`at[i]` is the node at place i), and the first and last place below it,
`lo` and `hi`: the left child's span ends just before its parent, the right child's
begins just after. A rotation changes two spans and no place (`RotateSpans`). `Heights` gives
each node the number of black nodes below it, on either side; the colors then are
right but for one place, which depends on where the call is: nowhere (`Settled`), at a
red node whose parent may be red (`Balancing`), at a child that counts for one black
node more (`Fixing`). `TreeInv` says which of them holds at each `pc`; that such
places and heights exist is all that it claims of them. Each case of the two loops is a
lemma that takes one of these to the next (`RecolorsBalancing`, `OuterTurn`, `InnerTurn`;
`SiblingTurn`, `BothBlack`, `NearTurn`, `FarTurn`). `rbtree_insert_value` hangs a
leaf, which makes a place in the middle (`HungShape`). `rbtree_delete` of a
node with two children cuts its successor out (`CutShape`) and gives that one the links
and color of the node deleted, which is a renaming (`RenamedShape`): `ReplacedRenamed`
shows that the assignments of the C code, which do both at once, come to the same.
At the end `Walk` and `BlackHeights`, which are recursive functions, are related to the
places and heights by the least counterexample (`WalkOf`, `HeightsOf`): the walk meets
`at[1]`, `at[2]`, ... and every path has the one height.

`TreeIsSorted` (`ImplementsSortedList`) then is about the order alone. `Ordered` hides `pos`,
`lo` and `hi`: rotations and colors keep it (`OrderTurns`, `OrderStays`), so that the rounds
of both loops are steps in which the list does not change, and a deletion takes one place out
of it (`Loses`). `SortInv` adds that the nodes stand in the order in which they are due
(`Sorts`), and that while `rbtree_insert_value` descends, every place before the span of `temp`
has a node that is no later than the one let in, and every place behind it one that is
(`Between`); each comparison narrows what is open (`SideBetween`), and at a sentinel nothing is
(`BetweenFits`). The comparison itself is `LessIsBefore`: the sign of a difference in w bits
tells which timer is due first, because `SpreadAssumption` (the remark at
`ds_rbtree.c:118`) puts all of them in less than half of the range.

Only checked by TLC: all liveness (fairness and ENABLED are outside of the prover). `TypeOK` is part of a run for
`Dungeon`, a theorem for `Queue` and `Dungeon`, and follows from the invariant for `LList` and
`RbTree` (`TreeTyped`); in the other modules it documents the variables, and the proofs state
the types they need.

## 5. What is not modelled

Inside the modelled parts: statistics, log text (`memoirs` of the fake httpd among
it), JSON views, thread affinity, the memory of a soul, `llist_foreach`,
`hasht_delete`, `queue_size` of the lock-free queue, connecting and listening sockets.
`fsm_driver` of a general soul is a choice of what it asked for; `Echo` and
`FakeHttpd` have two souls in full. The generic event descriptor of `imp_body.c` has
no caller. What the monitor writes to its client is left out.

Left out altogether:

* the configuration, the logging and the room loader: they read a file, write one, or
  call `dlopen`; what can fail there is a step that may fail in `Daemon`;
* `ds_memvec.c`, `ds_string.c`, `util_misc.c`, the wrappers of system calls: functions
  of their arguments, without a state that an order of calls could spoil;
* `ds_bmap.c` and `ds_state_dict.c`, which are not built; the second adds to the hash
  table an unprotected flag that says whether it was made;
* the dumb room, whose soul asks for nothing: the request `{}` of the run `dungeon`;
* `util_conn_udp.c`, which is not built and not complete; cJSON, which is vendored.

## 6. Divergences met

Two are checked as runs.

* `dungeon_timeout`: `thr_epoller` cancels an expired timer before it wakes the imp
  (`thr_worker.c:73`), so `imp_body_cleanup_timer` reads nothing, and a soul is told
  of a time-out only when a worker reads the timer before the epoller gets to it.
  `imp.h:63` promises `IMP_TIMEDOUT`.
* `dungeon_kill`: `imp_driver` assigns `event_mask` over the bit `imp_kill` has set and
  tests it afterwards (`imp.c:134`), so that a kill is lost unless it falls between
  the two. `imp.h:55` says that it notifies an imp to terminate.

The others are what the properties except: a history variable or a disjunct of the
property stands for each, and what the property says holds until it happens, and fails
after it.

* `imp.c:154`: descriptors are handed to epoll while `imp_driver` still runs, and by
  default there are as many workers as processors (`main.c:234`). An imp woken early is
  driven by a second worker while the first still arms it (`raced`; in `FakeHttpd`
  `overlap`, and `misused` when both are in the soul's driver). An imp that asks for a
  descriptor and a timer, as fake httpd does (`mod.c:257`), may be marked as waiting
  again after its first event, so that `nr_waitio` drifts (`imp.c:178`); or both events
  are in one batch of the epoller, and the imp may be driven, terminated and freed
  between them (`thr_worker.c:73`, `74`), with one worker too.
* `thr_worker.c:104` and `imp.c:105`, `107`, `179`: a worker and the epoller log the
  id of an imp after they have queued it, when others may have terminated and freed it.
  At the default `L_INFO` (`util_log.c:22`) `mylog` does not evaluate the arguments; with
  `LogLevel` 7, which the example configuration sets (`doc/conf.example:2`), these are
  uses after free that need no race. `Debug` of `Dungeon` has them.
* `imp.c:71`: `event_mask |= EV_MASK_KILL` is a read and a write; a mask that a worker
  stores in between is overwritten by an old one.
* `imp.c:78`: summoners that pass the test of `nr_max` together exceed it, by no more
  than one imp for each worker (`Accounting`, `LimitIsOverrunByWorkersOnly`).
* `imp.c:172`: the result of `set_poll_action` is ignored although its message says
  TERMINATE; a refused imp sleeps on. `AsleepIsArmed` excepts such imps by name.
* `ds_queue2.c:112`: the scan one word past the ring (`Beyond`).
* `dungeon.c:124`: sleeping imps, and one under a cancelled worker, are not
  dismissed by `dungeon_delete`. `dungeon.c:144`: rooms are demolished after the
  drains, so `mod_destroy` of a room (echo `mod.c:114`) may write to a listener that is
  freed; the model has the write and both of its outcomes, and `DismissedOnce` does not
  extend to `id_listener`. It is NULL when `imp_summon` had failed, for `mod_init` returns
  0 then too (echo `mod.c:104`), and the write ends the heart. Nor does `mod_init` look at
  the result of `conn_tcp_listen_create`. `dungeon.c:170`: any other value of `mod_init`
  makes the heart call `exit`, without `dungeon_delete`.
* `main.c:227`: a signal during `dungeon_init`. Before the monitor exists, the handler
  cancels a thread that was never created (`thr_monitor.c:109`); before the list of
  rooms exists, it travels a null pointer: both are `crash`. While main holds the
  mutex of the run queue (`dungeon.c:165`), the handler, or a worker it joins, waits
  for it for ever; while it holds that of the list, the loop of `llist_delete` fails
  to lock as long as it counts a node, and spins. `ShutdownEnds` excepts those two
  moments (`holds`), and nothing else.
* `main.c:48`: a second signal goes to the monitor, which enters `dungeon_delete`
  itself while main waits to join it; it cancels itself and ends there.
* `thr_worker.c:149`: when `pthread_create` refuses all workers the epoller runs
  already, and `dungeon_heart` is freed under it until main aborts. `ThreadsEndFirst`
  excepts a process that is about to abort.
* `main.c:205`: after a failed fork the keeper waits for no child for ever
  (`keeper = "lost"`), and a signal to the keeper, which has no dungeon, ends it by
  `thr_monitor.c:109` (`"crash"`). `HeartComesBack` excepts both.
* `ds_llist.c:334`: `llist_fetch_match` of a node that is not the first loses those
  before it, and `llist_delete` then never returns (`lost`). `ds_llist.c:134`:
  `llist_append_nb` signals nobody. `ds_llist.c:298`: both sides share a condition
  variable and one signal, which may wake the wrong one. `ImplementsList` is about
  results, not about who sleeps.
* `util_conn_tcp.c:329`: `conn_tcp_recvv_nb` drops what it has received when the list
  was full from the start, or there is no memory for a node (`spilt`).
* echo `mod.c:217`, `259`: a peer that has closed its side and does not read what is owed to
  it: `EPOLLRDHUP` wakes the imp in `ST_SEND` at once, it finds the socket full and blocks
  again, over and over, and the room sets no timer. `HangUpEnds` excepts exactly this
  (`Unheard`).
* fake httpd `mod.c:257`: an event that comes late cancels the timer of the wait that
  follows (`imp_cancel_timer`), which then has no time-out; and where two workers overlap
  the imp may be left asleep on that timer alone, which `AnswersOrEnds` excepts (`overlap`).
* `ds_hasht.c:325`: `hasht_fetch_item` clears a slot and counts it out with the lock of
  the bucket held for reading. Two that do so at once may store the same count, or
  clear one slot twice; `OneFetcher` of the proofs and the calls of the run leave that
  out.
* `ds_hasht.c:224`: an add that cannot allocate keeps the lock of its bucket
  (`LeftLocked`, excepted in `CallsReturn`).
* `ds_queue.c`: the indices are read one after the other, so that an empty queue may
  refuse a pointer and a full one may have none (`Refused`). A thread that is passed by
  whole laps between its read of an index and its swap takes the old value for the
  present one (`aba`), and pointers are lost or repeated, or two producers hold one slot
  and one of them spins on. `ds_queue.h:2` calls the queue
  lock-free; a producer that stops between its reservation and its publication holds
  up all those behind it, which `CallsReturn` needs fairness to exclude.

## 7. What comes next

The plan of the modules is done: each component whose order of steps matters has its
module, and what section 5 leaves out has no such order. Every safety property of the
runs that are to pass is a theorem, some under the assumptions that section 4 names;
what TLC alone checks is liveness. `raced`, `aba`, `lost`, `spilt` and `overlap` mark
where the code would have to change for the properties to hold without exception: mark
an imp as waiting once, after its descriptors are armed, and count its references; give
the indices of the ring a count of laps; look for room before receiving.
