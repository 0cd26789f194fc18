-------------------------- MODULE FrameworkServer --------------------------
(***************************************************************************)
(* framework_server.cpp: one epoll thread owns the connections, a pool of  *)
(* workers computes the responses, an eventfd brings them back.            *)
(*                                                                         *)
(* The lines of a connection are numbered; input, jobs and responses are   *)
(* counters and numbers.  An incomplete line at the end of the input       *)
(* changes nothing until it is completed, so it is left out.  A connection *)
(* object owns its descriptor until it dies, so the map from descriptors   *)
(* to connections is the set of registered connections.  The handler of    *)
(* one epoll event runs on the epoll thread alone and hands the workers at *)
(* most one job: it is one step.  The pool's condition variable is         *)
(* notified after every change of its predicate, which is only changed     *)
(* under the pool's mutex, so waiting on it is a guard.                    *)
(***************************************************************************)
EXTENDS Naturals, Sequences

CONSTANTS
    Conn,           \* the connections that may be accepted
    Worker,         \* the threads of the pool
    MaxLines,       \* bound on the complete lines a peer sends
    ResponseSize    \* the pieces in which a response can be sent

\* main accepts no fewer than one worker.
ASSUME FrameworkAssumption ==
    /\ Worker # {}
    /\ MaxLines \in Nat
    /\ ResponseSize \in Nat \ {0}

VARIABLES
    net,        \* the peer's side of each connection, and the kernel buffers
    clients,    \* the connections in the map clients
    con,        \* the Connection objects
    flags,      \* the epoll events of the current batch not yet handled, per connection
    batch,      \* the others: "listener" and "notify"
    mpc,        \* where the epoll thread is
    stopping,   \* the flag set by on_signal
    jobs,       \* ThreadPool::jobs_
    poolStop,   \* ThreadPool::stopping_
    wpc,        \* where each worker is
    held,       \* the job a worker holds
    done,       \* the completion queue
    notified    \* the eventfd is readable

mainVars == <<clients, con, flags, batch, mpc>>
poolVars == <<wpc, held>>
vars == <<net, mainVars, stopping, jobs, poolStop, poolVars, done, notified>>

State == {"reading", "processing", "writing", "closed"}
Flag == {"in", "out", "hup"}
MainPc == {"check", "enter", "wait", "batch", "swap", "join", "exited"}
Job == [c : Conn, line : 1..MaxLines]

NetType ==
    [up : {"no", "pending", "accepted"},    \* connected, accepted
     sent : 0..MaxLines,    \* complete lines the peer has sent
     long : BOOLEAN,        \* then it sent a line of more than 4096 bytes
     fin : BOOLEAN,         \* it has shut down its sending side
     rst : BOOLEAN,         \* it has reset the connection
     full : BOOLEAN]        \* the server's send buffer is full

Connection ==
    [state : State,
     recvd : 0..MaxLines,   \* complete lines received into input
     long : BOOLEAN,        \* an over-long line follows them in input
     disp : 0..MaxLines,    \* lines taken out of input and submitted
     out : 0..MaxLines,     \* the line whose response is in output
     pos : 0..ResponseSize, \* how much of output was sent
     replied : 0..MaxLines, \* history: responses completely sent
     peer_eof : BOOLEAN]

NewConnection ==
    [state |-> "reading", recvd |-> 0, long |-> FALSE, disp |-> 0, out |-> 0,
     pos |-> 0, replied |-> 0, peer_eof |-> FALSE]

Init ==
    /\ net = [c \in Conn |-> [up |-> "no", sent |-> 0, long |-> FALSE, fin |-> FALSE,
                              rst |-> FALSE, full |-> FALSE]]
    /\ clients = {}
    /\ con = [c \in Conn |-> NewConnection]
    /\ flags = [c \in Conn |-> {}]
    /\ batch = {}
    /\ mpc = "check"
    /\ stopping = FALSE
    /\ jobs = <<>>
    /\ poolStop = FALSE
    /\ wpc = [w \in Worker |-> "wait"]
    /\ held = [w \in Worker |-> <<>>]
    /\ done = {}
    /\ notified = FALSE

-----------------------------------------------------------------------------
(* The peers, and the signal. *)

Peer(c, n) ==
    /\ net' = [net EXCEPT ![c] = n]
    /\ UNCHANGED <<mainVars, stopping, jobs, poolStop, poolVars, done, notified>>

Open(c) == net[c].up # "no" /\ ~net[c].fin /\ ~net[c].rst

Connect(c) == net[c].up = "no" /\ Peer(c, [net[c] EXCEPT !.up = "pending"])

SendLine(c) ==
    /\ Open(c) /\ ~net[c].long /\ net[c].sent < MaxLines
    /\ Peer(c, [net[c] EXCEPT !.sent = @ + 1])

SendLong(c) == Open(c) /\ ~net[c].long /\ Peer(c, [net[c] EXCEPT !.long = TRUE])

HalfClose(c) == Open(c) /\ Peer(c, [net[c] EXCEPT !.fin = TRUE])

Reset(c) ==
    /\ net[c].up # "no" /\ ~net[c].rst
    /\ Peer(c, [net[c] EXCEPT !.rst = TRUE])

PeerReads(c) == net[c].full /\ Peer(c, [net[c] EXCEPT !.full = FALSE])

\* on_signal interrupts the epoll thread: EINTR ends an epoll_wait that blocks, and
\* nothing happens when epoll_wait has not been entered yet.
Signal ==
    /\ ~stopping
    /\ stopping' = TRUE
    /\ mpc' = IF mpc = "wait" THEN "check" ELSE mpc
    /\ UNCHANGED <<net, clients, con, flags, batch, jobs, poolStop, poolVars, done,
                   notified>>

-----------------------------------------------------------------------------
(* The handler of a connection's event, on a copy k of its Connection.  An   *)
(* event's connection is registered: only its own event can close it.        *)

\* Mutant: the whole input is erased, and only its last line is submitted.
dispatch_line_skip(k) ==
    IF k.state # "reading" THEN k
    ELSE IF k.disp < k.recvd
         THEN [k EXCEPT !.state = "processing", !.disp = k.recvd]
    ELSE IF k.long THEN [k EXCEPT !.state = "closed"]
    ELSE k

\* The next complete line becomes a job; an over-long one closes the connection.
dispatch_line(k) ==
    IF k.state # "reading" THEN k
    ELSE IF k.disp < k.recvd
         THEN [k EXCEPT !.state = "processing", !.disp = @ + 1]
    ELSE IF k.long THEN [k EXCEPT !.state = "closed"]
    ELSE k

\* EPOLLIN: recv until EAGAIN, EOF or an error; then the next line.
AfterRecv(k, c) ==
    IF "in" \notin flags[c] THEN k
    ELSE IF net[c].rst THEN [k EXCEPT !.state = "closed"]
    ELSE dispatch_line([k EXCEPT !.recvd = net[c].sent, !.long = net[c].long,
                                 !.peer_eof = @ \/ net[c].fin])

\* Mutant: the offset runs past the end of the response.
AfterSend_overrun(k, c) ==
    IF "out" \notin flags[c] \/ k.state # "writing" THEN {k}
    ELSE IF net[c].rst THEN {[k EXCEPT !.state = "closed"]}
    ELSE {[k EXCEPT !.pos = p] : p \in (k.pos + 1)..(ResponseSize + 1)} \union
         {dispatch_line([k EXCEPT !.state = "reading", !.out = 0, !.pos = 0,
                                  !.replied = @ + 1])}

\* EPOLLOUT: send until the response is out, the buffer is full or an error.  The
\* outcomes are the connection after each; a complete response frees it for the
\* next line.
AfterSend(k, c) ==
    IF "out" \notin flags[c] \/ k.state # "writing" THEN {k}
    ELSE IF net[c].rst THEN {[k EXCEPT !.state = "closed"]}
    ELSE {[k EXCEPT !.pos = p] : p \in (k.pos + 1)..(ResponseSize - 1)} \union
         {dispatch_line([k EXCEPT !.state = "reading", !.out = 0, !.pos = 0,
                                  !.replied = @ + 1])}

\* Mutant: the connection of a peer that closed is closed at once.
AfterHup_eager(k, c) ==
    LET h == [k EXCEPT !.peer_eof = @ \/ "hup" \in flags[c]]
    IN  IF h.peer_eof THEN [h EXCEPT !.state = "closed"] ELSE h

\* The end of the handler: a connection whose peer is gone closes when it is reading
\* and input holds no complete line.
AfterHup(k, c) ==
    LET h == [k EXCEPT !.peer_eof = @ \/ "hup" \in flags[c]]
        d == dispatch_line(h)
    IN  IF ~h.peer_eof \/ h.state # "reading" THEN h
        ELSE IF d.state = "reading" THEN [d EXCEPT !.state = "closed"]
        ELSE d

\* What the handler leaves behind, for each outcome of the send.
Handled(c) == {AfterHup(k, c) : k \in AfterSend(AfterRecv(con[c], c), c)}

-----------------------------------------------------------------------------
(* The epoll thread. *)

\* while (!stopping), and the shutdown: close every connection, leave, and let the
\* destructor of the pool stop the workers.
CheckStopping ==
    /\ mpc = "check"
    /\ IF stopping
       THEN /\ con' = [c \in Conn |->
                        IF c \in clients THEN [con[c] EXCEPT !.state = "closed"]
                        ELSE con[c]]
            /\ clients' = {}
            /\ poolStop' = TRUE
            /\ mpc' = "join"
       ELSE /\ mpc' = "enter"
            /\ UNCHANGED <<con, clients, poolStop>>
    /\ UNCHANGED <<net, flags, batch, stopping, jobs, poolVars, done, notified>>

\* epoll_wait is entered, and blocks.
Enter ==
    /\ mpc = "enter"
    /\ mpc' = "wait"
    /\ UNCHANGED <<net, clients, con, flags, batch, stopping, jobs, poolStop, poolVars,
                   done, notified>>

\* The events that the interest set of a registered connection reports.
Ready(c) ==
    IF c \notin clients THEN {}
    ELSE {f \in Flag :
            \/ /\ f = "in"
               /\ con[c].state = "reading" /\ ~con[c].peer_eof
               /\ \/ net[c].sent > con[c].recvd
                  \/ net[c].long /\ ~con[c].long
                  \/ net[c].fin \/ net[c].rst
            \/ f = "out" /\ con[c].state = "writing" /\ ~net[c].full
            \/ f = "hup" /\ (net[c].fin \/ net[c].rst)}

ReadyFds ==
    (IF \E c \in Conn : net[c].up = "pending" THEN {"listener"} ELSE {}) \union
    (IF notified THEN {"notify"} ELSE {})

\* epoll_wait returns every event that is ready.
EpollWait ==
    /\ mpc = "wait"
    /\ ReadyFds # {} \/ \E c \in Conn : Ready(c) # {}
    /\ flags' = [c \in Conn |-> Ready(c)]
    /\ batch' = ReadyFds
    /\ mpc' = "batch"
    /\ UNCHANGED <<net, clients, con, stopping, jobs, poolStop, poolVars, done, notified>>

\* accept4 until EAGAIN.
Accept ==
    /\ mpc = "batch"
    /\ "listener" \in batch
    /\ LET new == {c \in Conn : net[c].up = "pending"}
       IN  /\ net' = [c \in Conn |-> IF c \in new THEN [net[c] EXCEPT !.up = "accepted"]
                                     ELSE net[c]]
           /\ clients' = clients \union new
    /\ batch' = batch \ {"listener"}
    /\ UNCHANGED <<con, flags, mpc, stopping, jobs, poolStop, poolVars, done, notified>>

\* The eventfd is read until it is empty.
ReadNotify ==
    /\ mpc = "batch"
    /\ "notify" \in batch
    /\ notified' = FALSE
    /\ batch' = batch \ {"notify"}
    /\ mpc' = "swap"
    /\ UNCHANGED <<net, clients, con, flags, stopping, jobs, poolStop, poolVars, done>>

\* Then the completion queue is swapped out, and every result whose connection is
\* still registered and not closed is put into its output.
SwapDone ==
    /\ mpc = "swap"
    /\ con' = [c \in Conn |->
                IF c \in clients /\ con[c].state # "closed" /\ \E j \in done : j.c = c
                THEN [con[c] EXCEPT !.out = (CHOOSE j \in done : j.c = c).line,
                                    !.pos = 0, !.state = "writing"]
                ELSE con[c]]
    /\ done' = {}
    /\ mpc' = "batch"
    /\ UNCHANGED <<net, clients, flags, batch, stopping, jobs, poolStop, poolVars,
                   notified>>

\* Mutant: a job is submitted for every complete line, not only for the next one.
ConnectionEvent_all(c) ==
    /\ mpc = "batch"
    /\ flags[c] # {}
    /\ flags' = [flags EXCEPT ![c] = {}]
    /\ \E k \in Handled(c) :
        /\ con' = [con EXCEPT ![c] = k]
        /\ clients' = IF k.state = "closed" THEN clients \ {c} ELSE clients
        /\ jobs' = IF k.disp > con[c].disp
                   THEN jobs \o [n \in 1..(k.recvd - con[c].disp) |->
                                   [c |-> c, line |-> con[c].disp + n]]
                   ELSE jobs
        /\ net' = IF k.state = "writing" /\ k.pos > con[c].pos
                  THEN [net EXCEPT ![c].full = TRUE] ELSE net
    /\ UNCHANGED <<batch, mpc, stopping, poolStop, poolVars, done, notified>>

\* A connection's event: receive, send, look at EOF, and close the connection or
\* renew its interest set.
ConnectionEvent(c) ==
    /\ mpc = "batch"
    /\ flags[c] # {}
    /\ flags' = [flags EXCEPT ![c] = {}]
    /\ \E k \in Handled(c) :
        /\ con' = [con EXCEPT ![c] = k]
        /\ clients' = IF k.state = "closed" THEN clients \ {c} ELSE clients
        /\ jobs' = IF k.disp > con[c].disp
                   THEN Append(jobs, [c |-> c, line |-> k.disp]) ELSE jobs
        /\ net' = IF k.state = "writing" /\ k.pos > con[c].pos
                  THEN [net EXCEPT ![c].full = TRUE] ELSE net
    /\ UNCHANGED <<batch, mpc, stopping, poolStop, poolVars, done, notified>>

\* The batch is handled: back to the test of stopping.
EndBatch ==
    /\ mpc = "batch"
    /\ batch = {}
    /\ \A c \in Conn : flags[c] = {}
    /\ mpc' = "check"
    /\ UNCHANGED <<net, clients, con, flags, batch, stopping, jobs, poolStop, poolVars,
                   done, notified>>

\* The destructor of the pool has joined every worker.
Join ==
    /\ mpc = "join"
    /\ \A w \in Worker : wpc[w] = "exited"
    /\ mpc' = "exited"
    /\ UNCHANGED <<net, clients, con, flags, batch, stopping, jobs, poolStop, poolVars,
                   done, notified>>

-----------------------------------------------------------------------------
(* ThreadPool::worker *)

TakeJob(w) ==
    /\ wpc[w] = "wait"
    /\ jobs # <<>>
    /\ held' = [held EXCEPT ![w] = <<Head(jobs)>>]
    /\ jobs' = Tail(jobs)
    /\ wpc' = [wpc EXCEPT ![w] = "work"]
    /\ UNCHANGED <<net, mainVars, stopping, poolStop, done, notified>>

\* Mutant: a stopped worker leaves without looking at the queue.
Quit_at_once(w) ==
    /\ wpc[w] = "wait"
    /\ poolStop
    /\ wpc' = [wpc EXCEPT ![w] = "exited"]
    /\ UNCHANGED <<net, mainVars, stopping, jobs, poolStop, held, done, notified>>

Quit(w) ==
    /\ wpc[w] = "wait"
    /\ poolStop /\ jobs = <<>>
    /\ wpc' = [wpc EXCEPT ![w] = "exited"]
    /\ UNCHANGED <<net, mainVars, stopping, jobs, poolStop, held, done, notified>>

\* The response is computed and pushed to the completion queue.
PushDone(w) ==
    /\ wpc[w] = "work"
    /\ done' = done \union {held[w][1]}
    /\ held' = [held EXCEPT ![w] = <<>>]
    /\ wpc' = [wpc EXCEPT ![w] = "notify"]
    /\ UNCHANGED <<net, mainVars, stopping, jobs, poolStop, notified>>

\* Mutant: the eventfd is not written.
WriteNotify_lost(w) ==
    /\ wpc[w] = "notify"
    /\ wpc' = [wpc EXCEPT ![w] = "wait"]
    /\ UNCHANGED <<net, mainVars, stopping, jobs, poolStop, held, done, notified>>

WriteNotify(w) ==
    /\ wpc[w] = "notify"
    /\ notified' = TRUE
    /\ wpc' = [wpc EXCEPT ![w] = "wait"]
    /\ UNCHANGED <<net, mainVars, stopping, jobs, poolStop, held, done>>

WorkerStep(w) == TakeJob(w) \/ Quit(w) \/ PushDone(w) \/ WriteNotify(w)

MainStep ==
    \/ CheckStopping \/ Enter \/ EpollWait \/ EndBatch \/ Join
    \/ Accept \/ ReadNotify \/ SwapDone
    \/ \E c \in Conn : ConnectionEvent(c)

Next ==
    \/ \E c \in Conn :
        Connect(c) \/ SendLine(c) \/ SendLong(c) \/ HalfClose(c) \/ Reset(c)
            \/ PeerReads(c)
    \/ Signal
    \/ CheckStopping \/ Enter \/ EpollWait \/ EndBatch \/ Join
    \/ Accept \/ ReadNotify \/ SwapDone
    \/ \E c \in Conn : ConnectionEvent(c)
    \/ \E w \in Worker : TakeJob(w) \/ Quit(w) \/ PushDone(w) \/ WriteNotify(w)

Spec == Init /\ [][Next]_vars

\* The threads keep running, and peers read what they are sent.
FairSpec ==
    /\ Spec
    /\ WF_vars(MainStep)
    /\ \A w \in Worker : WF_vars(WorkerStep(w))
    /\ \A c \in Conn : WF_vars(PeerReads(c))
-----------------------------------------------------------------------------
TypeOK ==
    /\ net \in [Conn -> NetType]
    /\ clients \subseteq Conn
    /\ con \in [Conn -> Connection]
    /\ flags \in [Conn -> SUBSET Flag]
    /\ batch \subseteq {"listener", "notify"}
    /\ mpc \in MainPc
    /\ stopping \in BOOLEAN
    /\ jobs \in Seq(Job)
    /\ poolStop \in BOOLEAN
    /\ wpc \in [Worker -> {"wait", "work", "notify", "exited"}]
    /\ held \in [Worker -> Seq(Job)]
    /\ done \subseteq Job
    /\ notified \in BOOLEAN

\* The places where a job of connection c can be.
InQueue(c) == {i \in 1..Len(jobs) : jobs[i].c = c}
AtWorkers(c) == {w \in Worker : wpc[w] = "work" /\ held[w][1].c = c}
InDone(c) == {j \in done : j.c = c}

\* A connection is in state processing exactly while one job of it is under way, in
\* one place, and that job is its latest line; so a connection has at most one
\* request in flight, it cannot be closed under a worker, and every result that comes
\* back finds its connection waiting for it.
OneRequestInFlight ==
    \A c \in Conn : mpc \notin {"join", "exited"} =>
        IF con[c].state = "processing"
        THEN /\ c \in clients
             /\ \A i \in InQueue(c) : jobs[i].line = con[c].disp
             /\ \A w \in AtWorkers(c) : held[w][1].line = con[c].disp
             /\ \A j \in InDone(c) : j.line = con[c].disp
             /\ \/ /\ \E i \in InQueue(c) : InQueue(c) = {i}
                   /\ AtWorkers(c) = {} /\ InDone(c) = {}
                \/ /\ \E w \in AtWorkers(c) : AtWorkers(c) = {w}
                   /\ InQueue(c) = {} /\ InDone(c) = {}
                \/ InQueue(c) = {} /\ AtWorkers(c) = {} /\ InDone(c) # {}
        ELSE InQueue(c) = {} /\ AtWorkers(c) = {} /\ InDone(c) = {}

\* The response in output answers the oldest line not yet answered: responses leave
\* in the order of the lines, none is skipped or sent twice.
ResponsesInOrder ==
    \A c \in Conn :
        /\ con[c].state = "writing" =>
            con[c].out = con[c].replied + 1 /\ con[c].disp = con[c].out
        /\ con[c].state = "reading" => con[c].replied = con[c].disp

\* A result in the completion queue is always announced: the eventfd is readable, its
\* worker is about to write it, or the epoll thread is about to take the queue.
NoLostCompletion ==
    done # {} => \/ notified
                 \/ \E w \in Worker : wpc[w] = "notify"
                 \/ mpc = "swap"
                 \/ "notify" \in batch

\* When the server has ended, every job that was submitted has been done.
PoolDrained ==
    mpc = "exited" => jobs = <<>> /\ \A w \in Worker : held[w] = <<>>

\* A submitted line is answered, unless the peer resets the connection or the server
\* stops: a request survives the half-close of its peer.
SubmittedIsAnswered ==
    \A c \in Conn : \A n \in 1..MaxLines :
        con[c].disp >= n ~> (con[c].replied >= n \/ net[c].rst \/ stopping)

\* At EOF only the unfinished line is dropped; the complete ones are processed.
CompleteLinesProcessed ==
    \A c \in Conn :
        /\ con[c].state = "closed" /\ net[c].fin
        /\ ~net[c].rst /\ ~net[c].long /\ ~stopping
        => con[c].disp = net[c].sent
=============================================================================
