# TLA+ models of the programs of this repository

The repository is a collection of systems-programming studies in C and C++. Its own
core logic is in a few multi-threaded programs: a layered chat server on boost::asio, an
epoll server with a worker pool and an asynchronous logger. Around them are containers,
allocators, small servers, queues, an event loop and two programs that keep records. This
directory holds TLA+ models of them, TLC configurations that check the models on small
instances, and proofs that TLAPS checks. `PROJECT.json` lists components, runs, mutants,
the map from definitions to source lines, findings, hazards and theorems.

## Inventory

| Part | State it keeps | Operations | What is hard | Status |
|---|---|---|---|---|
| `LogicSystem` (`net_program/code/cpp_net/base_logic_layer/test`) | queue, mutex, condition variable, `_stop` | `post_message`, `run`, `stop`, `dispatch` | wakeups, stop without the mutex, order of messages | modelled, proved |
| `NetworkServer`, `Session`, `SessionManager` (same directory) | acceptor, sockets, descriptors, registry and its mutex | accept, read header, read body, post, send, close, shutdown | two threads use one socket without a lock; descriptor reuse; shutdown | modelled, proved |
| `LoginMgr`, `ChatMgr` (same directory) | user/session maps | login, logout, chat | two maps that must agree | not modelled: unreachable |
| `framework_server.cpp` (`concurrent/code/base_server_application_framework`) | connections with a four-state machine, job queue, completion queue, eventfd, stop flag | epoll loop, `dispatch_line`, workers, signal, shutdown | results that return to closed connections, half-close, wakeups, signal race | modelled, proved |
| `logger.h` (`basement/.../asynchronous_log_sys_demo`) | line queue, sinks, files, index, running size | `log`, `add_sink`, destructor, rotation | drain on destruction, restart on existing files | modelled (text of lines left out), proved |
| asio session (`base_asio/session.cpp`) | send queue, pending flags, operations under way | `write2socket`, `write_all_to_socket`, reads, their handlers | short and failing transfers; a handler used for the wrong operation | modelled, proved |
| asio servers (`base_asio_plus`, `base_byteorder`, `base_protobuf`) | send queue, session map | `send`, `handle_read`, `handle_write` | | not modelled |
| containers (`basement/.../base_stl`) | nodes, buckets, ring | insert, erase, push, pop, resize, iterate | relinking, rotations, rehash, wrap-around | modelled |
| allocators (`csapp/chapter9/malloc`, `base_memory`) | tagged blocks, block list, regions | malloc, free, realloc | boundary cases of splitting and merging | modelled |
| `SimpleSharedPtr` (`base_memory`) | pointer, control block | copy, move, reset, destruction | decrement and test are two operations | modelled, proved |
| queues (`concurrent/code/c_tasks_queue.c`, `csapp/chapter12/threads/p_and_c_demo.c`) | list and ring, condition, semaphores | enqueue, worker, stop, produce, consume | lost wakeups, deadlock | modelled, proved |
| select echo server (`csapp/chapter12/echoservers.c`, `csapp_lib`) | pool of clients, line buffer | `add_client`, `check_clients`, `rio_readlineb` | buffered bytes, count of ready descriptors | modelled, proved |
| chat servers (`base_io_multiplexing`) | client table, poll events | accept, broadcast, remove | removal while iterating | modelled, proved |
| coroutine loop (`base_coroutines`) | registrations, the kernel's list, coroutines | `watch`, `cancel`, `run` | stale events of a batch, coroutines destroyed while they wait | modelled, proved |
| task manager (`task/task_management_sys`) | tasks in memory and in a file | add, remove, update, save, load | text format, ids and interrupted saves over restarts | modelled, proved |
| order program (`design_patterns/finial/order`) | order state, money, command | checkout, ship, cancel, undo | partial failure of checkout and its retry | modelled, proved |
| audit program, language demonstrations, notes, build trees | none that steps change | | | not modelled |

How the parts of the chat server interact: the io thread (`main`) runs every completion
handler. `Session::on_message` posts to `LogicSystem` under its mutex. The logic thread
pops, looks the session up in `SessionManager` and calls `Session::send` on its own
thread; a failed write closes the session there. `NetworkServer::stop` (signal handler,
then destructor) closes the acceptor, calls `close_all`, stops the logic layer and the
io_context; `run` joins the logic thread.

## Modules

| Module | Models |
|---|---|
| `Mailbox` | abstract: what a hand-off queue promises |
| `LogicSystem` | the logic layer alone, under any producers and callers of `stop` |
| `LogicServer` | extends `LogicSystem` with the io thread, sessions, registry, dispatch and shutdown |
| `FrameworkServer` | the epoll thread, the workers, the peers |
| `AsyncLogger` | `log_queue`, the worker of `logger`, the list of sinks, the destructor |
| `RotatingFileSink` | one file sink over several processes |
| `LogicSystemProofs`, `LogicServerProofs`, `FrameworkServerProofs`, `AsyncLoggerProofs`, `RotatingFileSinkProofs`, `ServicesProofs` (queues, coroutine loop, shared pointers), `NetworkProofs` (small servers), `RecordsProofs` | theorems |
| `BstMap`, `AvlMap`, `HashMap`, `RingDeque`, `LinkedList` | the containers |
| `MmHeap`, `RegionHeap`, `SharedPtr` | the memory managers |
| `SendQueue`, `SelectEcho`, `ChatServer`, `PollChat` | the small servers |
| `TaskQueue`, `BoundedBuffer`, `EventLoop` | the queues and the coroutine loop |
| `TaskManager`, `Orders` | the programs that keep records |
| `MCLogicSystem`, `MCLogicServer`, `MCFrameworkServer` | instances for TLC |
| `MCStructures` | the containers and the two heaps side by side, one per behaviour |
| `MCServices` | the small servers, queues, coroutine loop, shared pointers and record keepers side by side, one per behaviour |

### LogicSystem
`queue`, `mutex`, `stop` are the data members; `lpc` is the place in `run()`, `current`
its local `msg`, `stopper` the place in `stop()`. `post_message` holds the mutex for its
whole body, so it is one step that needs the mutex free. `run()` is cut where the other
thread can act: `CheckStop` (the loop condition), `Acquire` (lock, evaluate the
predicate), `Block` (release and sleep), `Leave`, `Pop`, `FinishDispatch`. `SetStop` and
`NotifyAll` are the two statements of `stop()`, neither of which takes the mutex.
`posted` and `taken` are history.

### LogicServer
`sock` is the native handle inside each session's socket object, `owner` the kernel's table:
the connection a descriptor refers to. `accept` returns the lowest free descriptor. Neither
thread locks a socket, so `close` reads the handle in one step (`BeginClose`, `WriteError`)
and closes it in another (`IoCloseFd`, `LogicCloseFd`), and `send` reads it in `BeginSend`
and writes in `WriteOk`; these are the outcomes the data race can have in an asio build,
where the handle is an `int` read once per operation. `rd` is the asynchronous read in
flight; a header is a valid or an invalid length. `on_message` always posts message type 0,
for which nothing is registered, so `dispatch` takes its echo branch. The write of `send` is
synchronous: it ends in `WriteOk` or `WriteError`, or never, when the peer does not read.
The second lock of `SessionManager::_mutex` by its owner is modelled as what glibc's default
mutex does: it waits.

### FrameworkServer
A connection's lines are numbered; `recvd`, `disp`, `out`, `pos`, `replied` count them
through `input`, the job, `output` and the socket. The handler of one epoll event is one
step (`ConnectionEvent`): it is composed of `AfterRecv`, `AfterSend` and `AfterHup`, in
the order of the code, and calls `dispatch_line` wherever the code does. A batch of
`epoll_wait` is a snapshot of what was ready; its events are handled in any order.
`ReadNotify` and `SwapDone` are separate because a worker may act between them.
`on_signal` interrupts an `epoll_wait` that blocks and nothing else; the kernel prefers
the main thread for a process-directed signal, which is what the model assumes.
Failures of `epoll_ctl`, which end the program through the exception handler of `main`,
and an incomplete last line, which changes nothing, are left out.

### AsyncLogger and RotatingFileSink
`push` and `shutdown` notify after the mutex is released and are two steps each. A sink
that throws terminates the process (`SinkThrows`). In `RotatingFileSink` a file is its
date, its index and its size; `Construct`, `write` and `Stop` are the life of a sink in
one process, and the files stay for the next. A failed `tellp` on a file that was just
opened (the branch that sets `_curr_size` to 0) does not happen for a regular file and
is left out, and so is a write to the stream that fails: the code does not look at the
stream's state after it and counts the line all the same.

### Containers
Each container has a variable `abs`, the map or the sequence that its calls describe, and
its invariant `Correct` compares what the linked structure answers with it. `BstMap` has
addresses for nodes and parent links, because the iterator climbs them; `AvlMap` has trees
as values, because its functions return new subtrees; `HashMap` has each chain in the
order of the links; `RingDeque` has the buffer with its two indices; `LinkedList` has
sentinels and the links of both directions. Two parts of `Correct` are conditional, and
each condition is a fact about the code. `AvlMap` is balanced as long as nothing was removed
(the run `avl_balance` shows why). `RingDeque` stays inside its buffer as long as no caller
has asked `resize` for a capacity of at most the size (`fitted`): such a call leaves
`_back_index` one past the end, or copies too much, or leaves a capacity of zero, and a
later push then ends in `undefined`, after which nothing is said. `Shown` is what a loop
over the deque's iterators shows. `operator*` takes the value of `front()` for the index
of the first element, so the loop shows the ring rotated by the difference of the two, and
`Correct` says that and no more; `operator->` does not compile when it is used and is left
out.

### Memory managers
`MmHeap` is `mm.c` with its macros over a memory of words: a word is a tag or a client's
mark, so that a block placed over another one destroys data that the invariant looks at.
`RegionHeap` has the list of blocks of `my_realloc.cpp` with their addresses, and regions
that `mmap` places anywhere. `coalesce` and the growth in place take the next block of the
list for the next one in memory: with two regions a block can grow out of its own
(TLC reaches `~InRegion` in the module's behaviours). `RegionCorrect` therefore says that
the blocks stay apart until this happens, and that it never happens in one region.
`SharedPtr` cuts `release` between the decrement and the second load of `_ref_cnt`; an
object is deleted twice only where two threads were between the two at once (`raced`). A
copy of another thread's pointer is one step, although the code reads `_control`
(`simple_shared_ptr.h:100`) before it increments the count: the model assumes that the two
threads synchronise such a copy, as `std::shared_ptr` demands of its users too.

### Small servers
`SendQueue` has bytes with the identity of their message, and the operations under way
with the handler that each will run; `ends` is history, the place at which each message ends
in what was accepted, and `Correct` uses it to say which of those bytes each queued node has
still to send. Two paths break the discipline of one write at a time
(`strayed`): a short read is continued with `write_callback`, and `write_all_callback` pops
the front after a short `async_send`. `SelectEcho` has the pool, the walk and the line
reader; the bytes that the copied `rio_t` has read past a line are `dropped`. A read from
a peer that has reset its connection ends the process, and so may a write to a peer that
has left, which `Rio_writen` turns into an exit. `ChatServer`
and `PollChat` are the two chat servers, one step for each turn of the walk and of the
broadcast. In `chat_demo.cpp` a removal below the sender moves the sender down while `i` of
`run()` stays (`shifted`): the rest of that walk may look at a client twice, block in `recv`,
remove the wrong client or index past the end. `ChatCorrect` states what holds without
it, and everything unconditionally for `chat_poll.c`, whose slots do not move.

### Queues and the coroutine loop
`TaskQueue` has the list with its nodes, which are freed after they ran. `BoundedBuffer` has
one step per semaphore operation; its deadlock clause says that both threads stand still, at
whichever semaphore each of them waits, only when everything was taken. With the two waits
of a thread swapped TLC finds it violated. In `EventLoop` the coroutines wait on any
descriptor, end, or destroy one another while events of the same batch are still to be
handled; `stale` records an event that resumed a wait registered after the event was
reported.

### Records
`TaskManager` has a text as words with or without surrounding blanks, which is what tells
`add` (trims), `update` (does not) and `load` (trims the description, reads one word of the
deadline) apart; a text may be blank. `damaged` records a save that was lost or cut short.
`Orders` counts how often the gateway took the money. Nothing gives it back: `cancel` of a
paid order prints that the payment will be returned, and the gateway has no call for it.
`Correct` therefore says that the money is taken at most once, and exactly if the order was
announced as paid, whatever happens to it later. A second checkout of the same command
finds its strategy moved away: the program then uses a null pointer (`crashed`).

## Runs

Passing runs:

| Run | Bounds | Shows |
|---|---|---|
| `logic_system` | 2 messages, 4 posts | types; `NoMissedMessage`; `FifoExactlyOnce`; every post is served unless stopped; refinement of `Mailbox`, liveness included |
| `server` | 2 sessions, 2 messages each, 2 descriptors | `CloseBeforeUnregister`, `NoZombieSession`, `EchoInOrder`, refinement of `LogicSystem`; dead sessions leave the registry, and messages are dispatched unless a write never returns |
| `framework` | 2 connections, 2 workers, 1 line, 2 pieces per response | `NoLostCompletion`, `PoolDrained` |
| `framework_live` | 1 connection, 2 workers, 3 lines, 2 pieces per response | `OneRequestInFlight`, `ResponsesInOrder`, `SubmittedIsAnswered` |
| `logger` | 2 clients, 3 lines, 2 sinks | `WakeupPending`, `SinkRuns`, `DestroyedIsComplete`, the destructor returns, every line is written |
| `structures` | one container or allocator per behaviour; keys 1..4 (binary tree), 1..8 (AVL), 5 keys in 2 to 8 buckets, rings of 0 to 6, lists of up to 4, a heap of 20 words with 2 blocks held, 2 pages with requests 1 and 5 | `BstCorrect`, `AvlCorrect`, `HashCorrect`, `SequencesCorrect`, `MmCorrect`, `RegionCorrect` |
| `services` | one program per behaviour; 3 messages of 1 or 2 bytes, 3 peers, tables of 2 and 3 clients, 4 tasks, a ring of 3 with 7 items, 3 coroutines on 3 descriptors with 5 waits, 2 threads with 2 pointers each and 2 objects, 3 task ids, 2 checkouts | `StreamsCorrect`, `ChatCorrect`, `QueuesCorrect`, `LoopCorrect`, `SharedCorrect`, `RecordsCorrect` |
| `sink` | limit 3, lines of 1 and 2, 2 dates, 3 indices, 2 processes | `SizeTracked`, `FirstLifeBounded`, `OpenFileNeverOverflows` |

Runs whose property TLC violates, each a disagreement between the code and a comment or
a document of the repository (quoted in `PROJECT.json`):

| Run | What the trace shows |
|---|---|
| `server_reply` | the descriptor is closed and reused between its read and the write: the reply goes to another client |
| `server_shutdown` | `close_all` waits for the mutex it holds |
| `framework_eof` | a half-close seen during processing drops complete lines not yet received |
| `avl_balance` | an erase whose rotation meets a balanced right child rotates that child first and leaves a subtree two levels deeper than its sibling |

More disagreements are visible in the modules and have no run of their own:
* `post_message` has no bound although `config.h:17` names `MSG_QUEUE_MAX` as the maximum
  length of the queue;
* `Leave` ends `run()` with messages still queued although `base_logic_layer.md:1451` says
  that the remaining messages are handled;
* `stop()` can set the flag and notify between the predicate and the block of `run()`,
  which then never ends (`stop ~> lpc = "exited"` is false in `LogicSystem`);
* a signal between the test of `stopping` and `epoll_wait` is not noticed before the next
  event (`stopping ~> mpc = "exited"` is false in `FrameworkServer`);
* after a restart on the same day the rotation appends to a file that is already nearly
  full (the bound of `FirstLifeBounded` is false for a second process);
* two threads in `close()` of one session can close a descriptor that already belongs to
  another session, the same reuse as in `server_reply`;
* a peer that does not read keeps the only logic thread in `asio::write` for ever, and with
  it the answers to all sessions (`EveryMessageDispatched` without `WritesReturn` is false
  in `LogicServer`);
* `finial.md:293` promises a refund when a paid order is cancelled, and the code makes none
  (`charged = 1` in state `cancelled` is reached in `Orders`);
* a loop over the deque's iterators does not show the deque: `deque_demo.cpp:14-17` prints a
  value that was popped (`Shown = abs` is false in `RingDeque`);
* after `resize(size())` and a `pop_front`, `push_back` of the deque writes one place past
  its buffer (`~undefined` is false in `RingDeque`).

Why the bounds are enough to meet the cases: two sessions and two descriptors are the least
in which a descriptor is reused for another session while the first is still in use; two
messages per session are the least in which order matters; two workers are the least in
which completions race; three pipelined lines leave one in `input` while one is processed
and one is in the socket, and are what `OneRequestInFlight` needs to be at risk, which is
why it is checked there (with two connections of two lines each the states take TLC too
long; the theorem `OneInFlight` covers any number of both); two processes on one date are
the least that meet old files. Eight keys are the least in which an AVL erase can go wrong
as it does; three peers are the least in which a broadcast removes a client on either side
of the sender; three coroutines are the least in which one destroys another and a third
takes over its descriptor. `MmHeap`'s requests reach all four cases of `coalesce`, an
extension of the heap that merges with a free tail, and a failing `mem_sbrk`; with sizes
that are multiples of the smallest block, a rest too small to split off is not reached. A
ring of 2 can be doubled once and resized to any capacity up to 6, zero and the size itself
included. Counters are bounded in the guards by `MaxPosts`, `MaxSessions`, `MaxMsgs`,
`MaxLines`, `MaxLogs`, `MaxSinks`, `MaxDay`, `MaxIdx`, `MaxLives`, `MaxLen`, `MaxCapacity`,
`MaxHeap`, `MaxLive`, `MaxPages`, `MaxMsg`, `MaxBytes`, `MaxSent`, `MaxToken`, `MaxId`.
Workers are interchangeable, which is the symmetry of the `framework` run (invariants only).
Deadlock is not checked, because every one of these programs may stop: after a shutdown, or
when the peers do nothing more.

Fairness: threads that can run do run (weak fairness of the logic thread, of the steps of
`dispatch` other than the write, of the io thread inside a handler, of the epoll thread, of
each worker, of the logger's worker and of calls that have begun). The write of
`Session::send` waits for a peer and gets no fairness; `EveryMessageDispatched` names
what it needs instead (`WritesReturn`: the thread is outside the write again and again),
and `DeadSessionsLeave` does not need it. In `logic_system`, the queue alone, a dispatch is
assumed to return. io_context serves ready completions from a queue,
so a completion that stays ready, or is ready again and again while other handlers run,
is served: strong fairness of `IoReady`, because the io thread is between handlers only
now and then. In `framework_live` a peer with a full buffer reads eventually. Nothing is
assumed of peers' requests, of signals or of spurious wakeups.

Some hazards are described rather than caught: a history variable marks the behaviours in
which the code goes wrong, and the property speaks of the others. These are a block that
grows out of its region (`InRegion`), the double delete of overlapping releases (`raced`),
the misled handlers of the send queue (`strayed`), the bytes read past a line (`dropped`),
the walk of `chat_demo.cpp` after a removal below the sender (`shifted`), a lost or
interrupted save (`damaged`) with what the text format does not keep (`Described`), and the
deque fitted to its size (`fitted`). The entries under hazards in `PROJECT.json` say for each
what its property still catches.

Every property of a passing run has a mutant: a variant of one mapped definition with a
plausible bug (a dropped lock, a missing notification, an early exit), defined next to
the original, under which TLC finds the property violated.

## Proofs

All theorems hold for every value of the constants that satisfies the named assumptions:
`LogicAssumption`, `ServerAssumption`, `SinkAssumption`, `LoggerAssumption`,
`FrameworkAssumption`, and those of `MCServices`: `StreamAssumption`, `ChatAssumption`,
`ServicesAssumption` and `PtrAssumption`. The bounds are natural numbers, descriptors
are positive, a message is a session and a number, lines are not empty, a response has at
least one piece, the pool has at least one worker (`framework_server.cpp` refuses fewer),
the ring and the line buffer have at least one place, a message to send has at least one
byte, a text is a sequence of words, the threads that share pointers are finitely many, and
no connection or object is the value that stands for none. Nothing limits the
number of clients, sinks, connections, workers, coroutines, threads or tasks.

* `LogicSystemProofs`. `LogicInv` joins the types, `NoMissedMessage` and
  `FifoExactlyOnce` with `MutexInv`: the logic thread holds the mutex exactly between
  `Acquire` and `Block`, `Leave` or `Pop`, at `block` the queue is empty, and at `test`
  it is not, unless `stop` is set. Without that part neither property is inductive: a
  post at `block` would break the first, a pop of an empty queue the second. From it
  follow `LogicTypeCorrect`, `NeverSleepsOnBacklog`, `HandOffIsFifo`, and
  `LogicImplementsMailbox` (each step is a mailbox step or leaves the mailbox alone).
* `LogicServerProofs`. `ServerInv` adds: sessions not yet accepted are untouched
  (`FreshInv`), the message numbers stay within their budget (`BudgetInv`), what the io
  thread has in hand at each place (`IoInv`) and what `dispatch` has (`DispatchInv`).
  `ServerTypeCorrect`, `UnregisteredAreClosed` and `RegisteredAreServed` are its
  consequences; `ServerUsesLogicSystem` shows that the server refines the logic layer,
  so the theorems about the queue hold in it. `RepliesInOrder` (`EchoInOrder`) needs one
  more invariant, `EchoInv`: the numbers posted for a session rise (`PostOrder`), and what
  was echoed to it is below every message of it that is queued or in dispatch
  (`EchoedBefore`); `EchoInOrder` alone says nothing of what is still queued.
* `FrameworkServerProofs`. `ServerInv` adds to the types: a worker holds a job exactly while
  it works (`HeldInv`), what is left of a batch belongs to registered connections and a
  readable one is still reading (`BatchInv`), the registered connections are those accepted
  and not closed (`ClientInv`), workers leave only a stopped pool with an empty queue
  (`PoolInv`), the counters agree with the four states (`OrderInv`), and three parts about
  jobs: while the loop runs each is the one its connection waits for (`FlightInv`), no two
  are of one connection (`UniqueInv`), and the job that a connection waits for exists
  (`SomewhereInv`). `OneRequestInFlight` counts jobs in three places and is not inductive:
  only with all three parts does a step move a job without adding one. The long handler of
  an event is treated once, by lemmas on `AfterRecv`, `AfterSend`, `AfterHup`
  (`HandledFollows`: it submits at most one line, and none while one is processed). Results:
  `TypeCorrect`, `CompletionsAnnounced`, `Ordered`, `OneInFlight`, `Drained`.
* `AsyncLoggerProofs`. `LoggerInv` has the shape of `LogicInv` (`MutexInv`, `WakeupPending`)
  and adds which lines the queue holds (`QueueInv`), that the worker leaves only after
  `shutdown` and with nothing queued (`ShutdownInv`), and up to which line each sink was
  served while the loop over the sinks is under way (`ServedInv`). Results: `TypeCorrect`,
  `NoLostWakeup`, `RunsUnbroken`, `NothingLost`.
* `RotatingFileSinkProofs`. `SinkInv` adds `AheadIsNew`: in the first process the files
  with a higher index on the open date, and those of later dates, are empty. It is what
  makes a rotation of the first process land on a new file; a second process does not
  have it, and there the bound is false.
* `ServicesProofs`, about the composed `MCServices`; each program gets an invariant over its
  own variables. `BufferInv` ties the two semaphores to the ring: slots plus items plus what
  the two sides hold is the size, and the ring contains the items between the two indices in
  order. `QueueInv` gives the list as the tasks between the one at work and the last one
  enqueued, linked to the tail, and what the worker's wait has tested. `LoopInv` relates the
  registrations to the kernel's list and to the waiting coroutines (`Registered`), and says
  that every token handed out is new (`Fresh`), without which a stale event could resume
  another wait. `SharedInv` is about the pointers that `_ref_cnt` counts, which are those
  that have the object without the ones whose `release` has decremented already
  (`CountInv`): the promised equality, when no release is under way, says nothing in
  between. An assignment under way reads a pointer of its own thread that is not being
  assigned to (`JobInv`); without two releases of an object at once the one there is finds
  it alive (`RaceInv`); and an object that no pointer has is deleted, or some thread has
  still to delete it or to take it (`LifeInv`), which is why none is leaked. Results:
  `QueuesHold`, `LoopHolds`, `SharedHolds`.
* `NetworkProofs`, about the small servers of `MCServices`.
  - `ChatInv` (`chat_demo.cpp`): the two tables are in step (`TableInv`); the messages of a
    peer are numbered, and what a transcript or a broadcast has is no longer in a socket
    (`NumberInv`), so a message that is read is new to everyone; a broadcast has reached
    exactly the clients before its index without its sender (`BroadcastInv`), which is what a
    removal on either side of the sender must preserve; and the walk's index denotes its client
    with what `poll` reported of the rest still true (`WalkInv`), unless something below the sender
    was removed. `PollInv` has the same parts for the slots of `chat_poll.c`, where the last
    holds without a condition. Result: `ChatHolds`.
  - `SendInv` (`base_asio/session.cpp`): the socket has taken a first part of what was accepted
    (`SendWire`), each queued node has still to send the bytes between two cuts, and the
    cuts meet (`SendNodes`), and exactly one write is outstanding while the session is pending
    and has not failed, with the rest of the front (`SendWrites`). The nodes have to be in
    the invariant one by one: after a short write or a pop the next write starts at the front's
    cut, and only then does it send the bytes that follow on the wire.
  - `EchoInv` (`echoservers.c`): a client is in one slot and not closed (`EchoPool`); `nready`
    counts the ready clients ahead, and nothing is in hand between lines (`EchoWalk`); what
    was sent back, is in hand and waits in the socket are in order together (`EchoOrder`), since
    the order of what was sent back alone does not survive the next line. That the free
    slot `add_client` finds is the lowest uses a least-number lemma (`Least`). Result of the
    two: `StreamsHold`.
* `RecordsProofs`. `OrderInv` follows the money of an order through payment, retry, undo and
  cancellation: a strategy can be moved out of the command once, so there is one payment at
  most (`MoneyInv`), the last notice is the state (`NoticeInv`), and the money was taken
  exactly if some notice says paid (`PaidInv`), which a cancellation does not undo;
  `ManagerInv` says that ids rise in memory and in the file and `_next_id` is above them
  (`IdInv`), and that the tasks are those described by the commands as far as no save was
  damaged (`KeptInv`). Result: `RecordsHold`.

Only model-checked:
* all liveness and the liveness of the refinements (fairness and ENABLED are beyond the
  prover);
* everything in `MCStructures`: `BstCorrect`, `AvlCorrect`, `HashCorrect`, `SequencesCorrect`,
  `MmCorrect`, `RegionCorrect`. `AvlMap` needs recursive operators, which the prover does
  not support in any module that reaches them, so no theorem can be stated over the composed
  module; and what the linked structures answer is itself computed along links and
  chains of unbounded length, about which facts need induction over data.

Every other invariant and action property of the passing runs is stated by a theorem.

## Not modelled

* `LoginMgr` and `ChatMgr` are registered for message types that `on_message` never posts.
* `base_asio_plus`: `handle_read` starts two writes for each read and both completions pop
  the queue, so the first echo already pops it empty, which is undefined; `tlv_session`
  dereferences a node that is never created. There is no behaviour to check past that.
* `base_byteorder` and `base_protobuf`: the framing loop of the logic server with another
  payload; `chat.pb.cc` and `chat.pb.h` are generated. `endpoints.cpp`: blocking calls, one
  after the other.
* `flsp.c`: stores 8-byte list pointers in a payload of two 4-byte words.
* In `base_asio/session.cpp`, `write2socket_err` and `write_callback_err` (kept to show the
  wrong way) and `read_all_callback` (never called).
* `csapp.c` beyond the line reader: wrappers that call the system and exit on an error.
* The audit program, the clients of the chat servers, the single-file demonstrations of the
  language (the larger part of the lines), notes and generated build trees: no state that a
  sequence of steps could spoil.

## Plan

The order in which the parts were taken: the chat server's logic layer and network layer,
the framework server and the logger, because threads meet there; then the containers,
allocators and small programs; then the proofs, component by component. What is left:
* the tree, the hash map, the ring, the list and the heaps as modules of their own, apart from
  `AvlMap`, with theorems for the parts of their invariants that speak of neighbours (the links
  of `LinkedList`, the indices of `RingDeque`, the tags of `MmHeap`);
* the same for `AvlMap` with trees as recursive functions;
* the liveness properties, when the prover supports fairness.
