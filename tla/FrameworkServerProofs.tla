----------------------- MODULE FrameworkServerProofs -----------------------
(***************************************************************************)
(* Proofs about FrameworkServer, for any number of connections, workers    *)
(* and lines.                                                              *)
(***************************************************************************)
EXTENDS FrameworkServer, SequenceTheorems, TLAPS

Running == mpc \notin {"join", "exited"}

\* A worker holds a job exactly while it works on it.
HeldInv ==
    \A w \in Worker : IF wpc[w] = "work" THEN Len(held[w]) = 1 ELSE held[w] = <<>>

\* Events are left only while a batch is handled; they are of registered connections, and
\* a readable one is still reading when its event comes up.
BatchInv ==
    /\ mpc \notin {"batch", "swap"} => batch = {} /\ \A c \in Conn : flags[c] = {}
    /\ \A c \in Conn : flags[c] # {} => c \in clients
    /\ \A c \in Conn : "in" \in flags[c] => con[c].state = "reading"

\* The registered connections are those accepted and not closed.
ClientInv ==
    /\ \A c \in clients : net[c].up = "accepted" /\ con[c].state # "closed"
    /\ \A c \in Conn : net[c].up # "accepted" => con[c] = NewConnection

\* The pool is stopped when the epoll thread leaves its loop; a worker leaves only then,
\* and only with an empty queue.
PoolInv ==
    /\ poolStop <=> ~Running
    /\ \A w \in Worker : wpc[w] = "exited" => poolStop /\ jobs = <<>>
    /\ mpc = "exited" => \A w \in Worker : wpc[w] = "exited"

\* The counters of a connection agree with its state.
InOrder(k) ==
    /\ k.state = "reading" => k.replied = k.disp
    /\ k.state = "processing" => k.disp = k.replied + 1
    /\ k.state = "writing" => k.out = k.replied + 1 /\ k.disp = k.out

OrderInv == \A c \in Conn : InOrder(con[c])

\* Connection c waits for the response to its line n.
Waits(c, n) == con[c].state = "processing" /\ con[c].disp = n

\* Every job, wherever it is, is the one its connection waits for.
FlightInv ==
    /\ \A c \in Conn : con[c].state = "processing" => c \in clients
    /\ \A i \in 1..Len(jobs) : Waits(jobs[i].c, jobs[i].line)
    /\ \A w \in Worker : wpc[w] = "work" => Waits(held[w][1].c, held[w][1].line)
    /\ \A j \in done : Waits(j.c, j.line)

\* No two jobs are of the same connection.
UniqueInv ==
    /\ \A i, l \in 1..Len(jobs) : jobs[i].c = jobs[l].c => i = l
    /\ \A v, w \in Worker :
        wpc[v] = "work" /\ wpc[w] = "work" /\ held[v][1].c = held[w][1].c => v = w
    /\ \A i \in 1..Len(jobs), w \in Worker : wpc[w] = "work" => jobs[i].c # held[w][1].c
    /\ \A j \in done, i \in 1..Len(jobs) : j.c # jobs[i].c
    /\ \A j \in done, w \in Worker : wpc[w] = "work" => j.c # held[w][1].c

\* The job that a connection waits for exists.
SomewhereInv ==
    \A c \in Conn : con[c].state = "processing" =>
        \/ \E i \in 1..Len(jobs) : jobs[i].c = c
        \/ \E w \in Worker : wpc[w] = "work" /\ held[w][1].c = c
        \/ \E j \in done : j.c = c

\* The inductive invariant of the server.
ServerInv ==
    /\ TypeOK
    /\ HeldInv
    /\ BatchInv
    /\ ClientInv
    /\ PoolInv
    /\ OrderInv
    /\ NoLostCompletion
    /\ Running => FlightInv
    /\ UniqueInv
    /\ SomewhereInv

-----------------------------------------------------------------------------
(* What the handler of an event does to the Connection. *)

\* From q to k the connection got at most one step further: one line was submitted, and
\* then k waits for it, or none was, and then a connection that waits still does.
Follows(q, k) ==
    /\ k \in Connection
    /\ InOrder(k)
    /\ \/ k.disp = q.disp /\ (q.state = "processing" <=> k.state = "processing")
       \/ k.disp = q.disp + 1 /\ q.state # "processing" /\ k.state = "processing"

\* Parts of a handler that run one after the other take one step together: once a line is
\* submitted the connection waits, and no part submits another.
LEMMA FollowsTransitive ==
    ASSUME NEW q \in Connection, NEW k, NEW r, Follows(q, k), Follows(k, r)
    PROVE  Follows(q, r)
  BY DEF Follows

\* dispatch_line submits at most one line, and only from state reading.
LEMMA DispatchFollows ==
    ASSUME NEW k \in Connection, InOrder(k)
    PROVE  Follows(k, dispatch_line(k))
  <1> USE FrameworkAssumption
  <1>1. CASE k.state # "reading" \/ (~(k.disp < k.recvd) /\ ~k.long)
    BY <1>1 DEF Follows, dispatch_line
  <1>2. CASE k.state = "reading" /\ k.disp < k.recvd
    <2> DEFINE d == [k EXCEPT !.state = "processing", !.disp = @ + 1]
    <2>1. dispatch_line(k) = d
      BY <1>2 DEF dispatch_line
    <2>2. k.disp + 1 \in 0..MaxLines
      BY <1>2 DEF Connection
    <2>3. /\ d \in Connection /\ d.state = "processing"
          /\ d.disp = k.disp + 1 /\ d.replied = k.replied
      BY <2>2 DEF Connection, State
    <2>4. QED
      BY <1>2, <2>1, <2>3 DEF Follows, InOrder
  <1>3. CASE k.state = "reading" /\ ~(k.disp < k.recvd) /\ k.long
    <2> DEFINE d == [k EXCEPT !.state = "closed"]
    <2>1. dispatch_line(k) = d
      BY <1>3 DEF dispatch_line
    <2>2. d \in Connection /\ d.state = "closed" /\ d.disp = k.disp
      BY DEF Connection, State
    <2>3. QED
      BY <1>3, <2>1, <2>2 DEF Follows, InOrder
  <1>4. QED
    BY <1>1, <1>2, <1>3

\* A connection that does not wait for a response may be closed.
LEMMA CloseFollows ==
    ASSUME NEW k \in Connection, k.state # "processing"
    PROVE  Follows(k, [k EXCEPT !.state = "closed"])
  <1> DEFINE d == [k EXCEPT !.state = "closed"]
  <1>1. d \in Connection /\ d.state = "closed" /\ d.disp = k.disp
    BY DEF Connection, State
  <1>2. QED
    BY <1>1 DEF Follows, InOrder

\* A change of fields that no response depends on.
LEMMA SameFollows ==
    ASSUME NEW q \in Connection, InOrder(q), NEW k \in Connection,
           k.state = q.state, k.disp = q.disp, k.replied = q.replied, k.out = q.out
    PROVE  Follows(q, k)
  BY DEF Follows, InOrder

\* The part of the handler that receives and dispatches.
LEMMA RecvFollows ==
    ASSUME NEW c \in Conn, NEW k \in Connection, InOrder(k), net \in [Conn -> NetType],
           "in" \in flags[c] => k.state = "reading"
    PROVE  Follows(k, AfterRecv(k, c))
  <1>1. CASE "in" \notin flags[c]
    BY <1>1, SameFollows DEF AfterRecv
  <1>2. CASE "in" \in flags[c] /\ net[c].rst
    BY <1>2, CloseFollows DEF AfterRecv
  <1>3. CASE "in" \in flags[c] /\ ~net[c].rst
    <2> DEFINE r == [k EXCEPT !.recvd = net[c].sent, !.long = net[c].long,
                              !.peer_eof = @ \/ net[c].fin]
    <2>1. AfterRecv(k, c) = dispatch_line(r)
      BY <1>3 DEF AfterRecv
    <2>2. /\ r \in Connection
          /\ r.state = k.state /\ r.disp = k.disp /\ r.replied = k.replied /\ r.out = k.out
      BY DEF Connection, NetType
    <2> HIDE DEF r
    <2>3. Follows(k, r)
      BY <2>2, SameFollows
    <2>4. Follows(r, dispatch_line(r))
      BY <2>2, <2>3, DispatchFollows DEF Follows
    <2>5. QED
      BY <2>1, <2>3, <2>4, FollowsTransitive
  <1>4. QED
    BY <1>1, <1>2, <1>3

\* The part that sends, and dispatches the next line when the response is out.
LEMMA SendFollows ==
    ASSUME NEW c \in Conn, NEW k \in Connection, InOrder(k), NEW r \in AfterSend(k, c)
    PROVE  Follows(k, r)
  <1> USE FrameworkAssumption
  <1>1. CASE "out" \notin flags[c] \/ k.state # "writing"
    BY <1>1, SameFollows DEF AfterSend
  <1>2. CASE ~("out" \notin flags[c] \/ k.state # "writing") /\ net[c].rst
    BY <1>2, CloseFollows DEF AfterSend
  <1>3. CASE ~("out" \notin flags[c] \/ k.state # "writing") /\ ~net[c].rst
    <2> DEFINE s == [k EXCEPT !.state = "reading", !.out = 0, !.pos = 0, !.replied = @ + 1]
    <2>1. \/ \E p \in (k.pos + 1)..(ResponseSize - 1) : r = [k EXCEPT !.pos = p]
          \/ r = dispatch_line(s)
      BY <1>3 DEF AfterSend
    <2>2. ASSUME NEW p \in (k.pos + 1)..(ResponseSize - 1), r = [k EXCEPT !.pos = p]
          PROVE  Follows(k, r)
      <3>1. p \in 0..ResponseSize
        BY DEF Connection
      <3>2. /\ r \in Connection
            /\ r.state = k.state /\ r.disp = k.disp /\ r.replied = k.replied /\ r.out = k.out
        BY <2>2, <3>1 DEF Connection
      <3>3. QED
        BY <3>2, SameFollows
    <2>3. ASSUME r = dispatch_line(s) PROVE Follows(k, r)
      <3>1. k.out = k.replied + 1 /\ k.disp = k.out
        BY <1>3 DEF InOrder
      <3>0. k.replied + 1 \in 0..MaxLines /\ 0 \in 0..MaxLines /\ 0 \in 0..ResponseSize
        BY <3>1 DEF Connection
      <3>2. /\ s \in Connection /\ s.state = "reading"
            /\ s.disp = k.disp /\ s.replied = k.replied + 1
        BY <3>0 DEF Connection, State
      <3> HIDE DEF s
      <3>3. Follows(k, s)
        BY <1>3, <3>1, <3>2 DEF Follows, InOrder
      <3>4. Follows(s, dispatch_line(s))
        BY <3>3, DispatchFollows DEF Follows
      <3>5. QED
        BY <2>3, <3>3, <3>4, FollowsTransitive
    <2>4. QED
      BY <2>1, <2>2, <2>3
  <1>4. QED
    BY <1>1, <1>2, <1>3

\* The part that takes up a half-close or a hang-up.
LEMMA HupFollows ==
    ASSUME NEW c \in Conn, NEW k \in Connection, InOrder(k)
    PROVE  Follows(k, AfterHup(k, c))
  <1> DEFINE h == [k EXCEPT !.peer_eof = @ \/ "hup" \in flags[c]]
             d == dispatch_line(h)
  <1>1. /\ h \in Connection
        /\ h.state = k.state /\ h.disp = k.disp /\ h.replied = k.replied /\ h.out = k.out
    BY DEF Connection
  <1>2. AfterHup(k, c) = IF ~h.peer_eof \/ h.state # "reading" THEN h
                         ELSE IF d.state = "reading" THEN [d EXCEPT !.state = "closed"]
                         ELSE d
    BY DEF AfterHup
  <1> HIDE DEF h
  <1>3. Follows(k, h)
    BY <1>1, SameFollows
  <1>4. Follows(h, d)
    BY <1>1, <1>3, DispatchFollows DEF Follows
  <1> HIDE DEF d
  <1>5. Follows(k, d)
    BY <1>3, <1>4, FollowsTransitive
  <1>6. ASSUME d.state = "reading" PROVE Follows(k, [d EXCEPT !.state = "closed"])
    <2>1. d \in Connection
      BY <1>4 DEF Follows
    <2>2. Follows(d, [d EXCEPT !.state = "closed"])
      BY <1>6, <2>1, CloseFollows
    <2>3. QED
      BY <1>5, <2>2, FollowsTransitive
  <1>7. QED
    BY <1>2, <1>3, <1>5, <1>6

\* The handler as a whole: an event of a connection that waits for a response leaves it
\* waiting, and one of any other submits at most one line.
LEMMA HandledFollows ==
    ASSUME NEW c \in Conn, con[c] \in Connection, InOrder(con[c]),
           net \in [Conn -> NetType], "in" \in flags[c] => con[c].state = "reading",
           NEW k \in Handled(c)
    PROVE  Follows(con[c], k)
  <1> DEFINE a == AfterRecv(con[c], c)
  <1>1. PICK r \in AfterSend(a, c) : k = AfterHup(r, c)
    BY DEF Handled
  <1>2. Follows(con[c], a)
    BY RecvFollows
  <1>3. a \in Connection /\ InOrder(a)
    BY <1>2 DEF Follows
  <1> HIDE DEF a
  <1>4. Follows(a, r)
    BY <1>3, SendFollows
  <1>5. Follows(r, k)
    BY <1>1, <1>4, HupFollows DEF Follows
  <1>6. r \in Connection /\ Follows(con[c], r)
    BY <1>2, <1>3, <1>4, FollowsTransitive DEF Follows
  <1>7. QED
    BY <1>5, <1>6, FollowsTransitive

-----------------------------------------------------------------------------
(* The invariant. *)

\* The server starts with no connection, an empty pool and nothing announced.
LEMMA InitInv == Init => ServerInv
  <1> SUFFICES ASSUME Init PROVE ServerInv
    OBVIOUS
  <1> USE FrameworkAssumption
  <1>1. TypeOK
    <2>1. NewConnection \in Connection
      BY DEF NewConnection, Connection, State
    <2>2. con \in [Conn -> Connection]
      BY <2>1 DEF Init
    <2>3. net \in [Conn -> NetType]
      BY DEF Init, NetType
    <2>4. <<>> \in Seq(Job)
      OBVIOUS
    <2>5. jobs \in Seq(Job) /\ held \in [Worker -> Seq(Job)] /\ done \subseteq Job
      BY <2>4 DEF Init
    <2>6. QED
      BY <2>2, <2>3, <2>5 DEF Init, TypeOK, MainPc
  <1>2. HeldInv /\ BatchInv /\ ClientInv /\ PoolInv /\ NoLostCompletion
    BY DEF Init, HeldInv, BatchInv, ClientInv, PoolInv, NoLostCompletion, Running
  <1>3. OrderInv
    BY DEF Init, OrderInv, InOrder, NewConnection
  <1>4. FlightInv /\ UniqueInv /\ SomewhereInv
    BY DEF Init, FlightInv, UniqueInv, SomewhereInv, NewConnection
  <1>5. QED
    BY <1>1, <1>2, <1>3, <1>4 DEF ServerInv

\* The jobs are where they were when no job moves and no connection starts or stops
\* waiting.
LEMMA JobsStable ==
    ASSUME ServerInv,
           Running' => Running,
           UNCHANGED <<jobs, wpc, held, done>>,
           \A c \in Conn : /\ con'[c].state = "processing" <=> con[c].state = "processing"
                           /\ con'[c].disp = con[c].disp,
           \A c \in clients : con[c].state = "processing" => c \in clients'
    PROVE  HeldInv' /\ (Running => FlightInv)' /\ UniqueInv' /\ SomewhereInv'
  <1>1. /\ \A i \in 1..Len(jobs) : jobs[i].c \in Conn
        /\ \A w \in Worker : wpc[w] = "work" => held[w][1].c \in Conn
        /\ \A j \in done : j.c \in Conn
    <2>1. jobs \in Seq(Job) /\ held \in [Worker -> Seq(Job)] /\ done \subseteq Job /\ HeldInv
      BY DEF ServerInv, TypeOK
    <2>2. \A j \in Job : j.c \in Conn
      BY DEF Job
    <2>3. \A i \in 1..Len(jobs) : jobs[i] \in Job
      BY <2>1
    <2>4. \A w \in Worker : wpc[w] = "work" => held[w][1] \in Job
      BY <2>1 DEF HeldInv
    <2>5. QED
      BY <2>1, <2>2, <2>3, <2>4
  <1>2. HeldInv' /\ UniqueInv'
    BY DEF ServerInv, HeldInv, UniqueInv
  <1>3. (Running => FlightInv)'
    <2> SUFFICES ASSUME Running, FlightInv PROVE FlightInv'
      BY DEF ServerInv
    <2>1. \A c \in Conn : con'[c].state = "processing" => c \in clients'
      BY DEF FlightInv
    <2>2. \A i \in 1..Len(jobs) : Waits(jobs[i].c, jobs[i].line)'
      BY <1>1 DEF FlightInv, Waits
    <2>3. \A w \in Worker : wpc[w] = "work" => Waits(held[w][1].c, held[w][1].line)'
      BY <1>1 DEF FlightInv, Waits
    <2>4. \A j \in done : con'[j.c].state = "processing" /\ con'[j.c].disp = j.line
      BY <1>1 DEF FlightInv, Waits
    <2>5. QED
      BY <2>1, <2>2, <2>3, <2>4 DEF FlightInv, Waits
  <1>4. SomewhereInv'
    BY DEF ServerInv, SomewhereInv
  <1>5. QED
    BY <1>2, <1>3, <1>4

\* A step of a peer changes its side of the connection only.
LEMMA PeerStep ==
    ASSUME ServerInv, NEW c \in Conn, NEW n \in NetType, Peer(c, n),
           n.up = "accepted" <=> net[c].up = "accepted"
    PROVE  ServerInv'
  <1> USE DEF Peer, mainVars, poolVars
  <1>1. net' \in [Conn -> NetType]
    BY DEF ServerInv, TypeOK
  <1>2. TypeOK'
    BY <1>1 DEF ServerInv, TypeOK
  <1>3. \A d \in Conn : net'[d].up = "accepted" <=> net[d].up = "accepted"
    BY DEF ServerInv, TypeOK
  <1>4. ClientInv'
    BY <1>3 DEF ServerInv, TypeOK, ClientInv
  <1>5. BatchInv' /\ PoolInv' /\ OrderInv' /\ NoLostCompletion'
    BY DEF ServerInv, BatchInv, PoolInv, OrderInv, NoLostCompletion, Running, InOrder
  <1>6. HeldInv' /\ (Running => FlightInv)' /\ UniqueInv' /\ SomewhereInv'
    BY JobsStable DEF Running
  <1>7. QED
    BY <1>2, <1>4, <1>5, <1>6 DEF ServerInv

\* A step that moves the epoll thread and leaves the connections and the pool alone.
LEMMA MainStepInv ==
    ASSUME ServerInv,
           UNCHANGED <<net, clients, con, jobs, poolStop, poolVars, done>>,
           TypeOK', BatchInv', NoLostCompletion',
           Running' <=> Running,
           mpc' = "exited" => \A w \in Worker : wpc[w] = "exited"
    PROVE  ServerInv'
  <1> USE DEF poolVars
  <1>1. ClientInv' /\ OrderInv'
    BY DEF ServerInv, ClientInv, OrderInv, InOrder
  <1>2. PoolInv'
    BY DEF ServerInv, PoolInv
  <1>3. HeldInv' /\ (Running => FlightInv)' /\ UniqueInv' /\ SomewhereInv'
    BY JobsStable
  <1>4. QED
    BY <1>1, <1>2, <1>3 DEF ServerInv

\* The jobs have their type, wherever they are.
LEMMA JobTypes ==
    ASSUME ServerInv
    PROVE  /\ jobs \in Seq(Job) /\ Len(jobs) \in Nat
           /\ \A i \in 1..Len(jobs) : jobs[i] \in Job
           /\ \A w \in Worker : wpc[w] = "work" => held[w][1] \in Job
           /\ \A j \in done : j \in Job
           /\ \A j \in Job : j.c \in Conn
  <1>1. jobs \in Seq(Job) /\ held \in [Worker -> Seq(Job)] /\ done \subseteq Job /\ HeldInv
    BY DEF ServerInv, TypeOK
  <1>2. \A w \in Worker : wpc[w] = "work" => held[w][1] \in Job
    BY <1>1 DEF HeldInv
  <1>3. \A j \in Job : j.c \in Conn
    BY DEF Job
  <1>4. QED
    BY <1>1, <1>2, <1>3

\* The loop condition: go on, or leave the loop, close everything and stop the pool.
LEMMA CheckStoppingInv ==
    ASSUME ServerInv, CheckStopping
    PROVE  ServerInv'
  <1> USE DEF poolVars
  <1>1. CASE ~stopping
    <2>1. TypeOK'
      BY <1>1 DEF ServerInv, TypeOK, CheckStopping, MainPc
    <2>2. BatchInv' /\ NoLostCompletion'
      BY <1>1 DEF ServerInv, BatchInv, NoLostCompletion, CheckStopping
    <2>3. QED
      BY <1>1, <2>1, <2>2, MainStepInv DEF CheckStopping, Running
  <1>2. CASE stopping
    <2>1. \A c \in Conn : con'[c] = IF c \in clients THEN [con[c] EXCEPT !.state = "closed"]
                                    ELSE con[c]
      BY <1>2 DEF CheckStopping
    <2>2. /\ clients' = {} /\ poolStop' = TRUE /\ mpc = "check" /\ mpc' = "join"
          /\ UNCHANGED <<net, flags, batch, stopping, jobs, wpc, held, done, notified>>
          /\ con' = [c \in Conn |-> con'[c]]
      BY <1>2 DEF CheckStopping
    <2>3. ASSUME NEW c \in Conn
          PROVE  con'[c] \in Connection /\ (con'[c] = con[c] \/ con'[c].state = "closed")
      <3>1. con[c] \in Connection
        BY DEF ServerInv, TypeOK
      <3>2. [con[c] EXCEPT !.state = "closed"] \in Connection
        BY <3>1 DEF Connection, State
      <3>3. [con[c] EXCEPT !.state = "closed"].state = "closed"
        BY <3>1 DEF Connection
      <3>4. QED
        BY <2>1, <3>1, <3>2, <3>3
    <2>4. TypeOK'
      <3>1. con' \in [Conn -> Connection]
        BY <2>2, <2>3
      <3>2. QED
        BY <2>2, <3>1 DEF ServerInv, TypeOK, MainPc
    <2>5. BatchInv' /\ ClientInv' /\ PoolInv'
      <3>1. \A c \in Conn : flags[c] = {}
        BY <2>2 DEF ServerInv, BatchInv
      <3>2. \A c \in Conn : net[c].up # "accepted" => con'[c] = con[c]
        BY <2>1 DEF ServerInv, ClientInv
      <3>3. \A w \in Worker : wpc[w] # "exited"
        BY <2>2 DEF ServerInv, PoolInv, Running
      <3>4. QED
        BY <2>2, <3>1, <3>2, <3>3 DEF ServerInv, BatchInv, ClientInv, PoolInv, Running
    <2>6. OrderInv'
      BY <2>3 DEF ServerInv, OrderInv, InOrder
    <2>7. NoLostCompletion' /\ HeldInv' /\ UniqueInv' /\ ~Running'
      BY <2>2 DEF ServerInv, NoLostCompletion, HeldInv, UniqueInv, Running
    <2>8. SomewhereInv'
      BY <2>2, <2>3 DEF ServerInv, SomewhereInv
    <2>9. QED
      BY <2>4, <2>5, <2>6, <2>7, <2>8 DEF ServerInv
  <1>3. QED
    BY <1>1, <1>2

\* epoll_wait takes a batch of what is ready.
LEMMA EpollWaitInv ==
    ASSUME ServerInv, EpollWait
    PROVE  ServerInv'
  <1>1. \A c \in Conn : /\ Ready(c) \subseteq Flag
                        /\ Ready(c) # {} => c \in clients
                        /\ "in" \in Ready(c) => con[c].state = "reading"
    BY DEF Ready
  <1>2. ReadyFds \subseteq {"listener", "notify"} /\ (notified => "notify" \in ReadyFds)
    BY DEF ReadyFds
  <1>3. TypeOK'
    BY <1>1, <1>2 DEF ServerInv, TypeOK, EpollWait, MainPc, poolVars
  <1>4. BatchInv'
    BY <1>1 DEF EpollWait, BatchInv
  <1>5. NoLostCompletion'
    BY <1>2 DEF ServerInv, BatchInv, NoLostCompletion, EpollWait, poolVars
  <1>6. QED
    BY <1>3, <1>4, <1>5, MainStepInv DEF EpollWait, Running

\* accept4 registers the new connections.
LEMMA AcceptInv ==
    ASSUME ServerInv, Accept
    PROVE  ServerInv'
  <1> USE DEF poolVars
  <1> DEFINE new == {c \in Conn : net[c].up = "pending"}
  <1>1. /\ net' = [c \in Conn |-> IF c \in new THEN [net[c] EXCEPT !.up = "accepted"]
                                  ELSE net[c]]
        /\ clients' = clients \union new
        /\ batch' = batch \ {"listener"}
        /\ UNCHANGED <<con, flags, mpc, stopping, jobs, poolStop, wpc, held, done, notified>>
        /\ mpc = "batch"
    BY DEF Accept
  <1>2. ASSUME NEW c \in Conn
        PROVE  /\ net'[c] \in NetType
               /\ net'[c].up = IF c \in new THEN "accepted" ELSE net[c].up
    <2>1. net[c] \in NetType
      BY DEF ServerInv, TypeOK
    <2>2. [net[c] EXCEPT !.up = "accepted"] \in NetType
      BY <2>1 DEF NetType
    <2>3. [net[c] EXCEPT !.up = "accepted"].up = "accepted"
      BY <2>1 DEF NetType
    <2>4. QED
      BY <1>1, <2>1, <2>2, <2>3
  <1>3. TypeOK'
    <2>1. net' \in [Conn -> NetType]
      BY <1>1, <1>2
    <2>2. QED
      BY <1>1, <2>1 DEF ServerInv, TypeOK
  <1>4. ClientInv'
    <2>1. NewConnection.state = "reading"
      BY DEF NewConnection
    <2>2. \A c \in new : con[c].state # "closed"
      BY <2>1 DEF ServerInv, ClientInv
    <2>3. QED
      BY <1>1, <1>2, <2>2 DEF ServerInv, TypeOK, ClientInv
  <1>5. BatchInv' /\ PoolInv' /\ OrderInv' /\ NoLostCompletion'
    BY <1>1 DEF ServerInv, BatchInv, PoolInv, OrderInv, NoLostCompletion, Running, InOrder
  <1>6. HeldInv' /\ (Running => FlightInv)' /\ UniqueInv' /\ SomewhereInv'
    <2>1. Running' => Running
      BY <1>1 DEF Running
    <2>2. QED
      BY <1>1, <2>1, JobsStable
  <1>7. QED
    BY <1>3, <1>4, <1>5, <1>6 DEF ServerInv

\* Every result in the completion queue finds its connection waiting for it.
LEMMA SwapDoneInv ==
    ASSUME ServerInv, SwapDone
    PROVE  ServerInv'
  <1> USE DEF poolVars
  <1> DEFINE Back(c) == \E j \in done : j.c = c
             n(c) == (CHOOSE j \in done : j.c = c).line
             r(c) == [con[c] EXCEPT !.out = n(c), !.pos = 0, !.state = "writing"]
  <1>1. /\ mpc = "swap" /\ mpc' = "batch" /\ done' = {}
        /\ UNCHANGED <<net, clients, flags, batch, stopping, jobs, poolStop, wpc, held, notified>>
        /\ con' = [c \in Conn |-> con'[c]]
    BY DEF SwapDone
  <1>2. FlightInv /\ Running /\ Running'
    BY <1>1 DEF ServerInv, Running
  <1>3. ASSUME NEW c \in Conn, Back(c)
        PROVE  /\ con[c].state = "processing" /\ c \in clients
               /\ con[c].disp = n(c) /\ con[c].disp \in 0..MaxLines /\ n(c) \in 0..MaxLines
    <2>1. PICK j \in done : j = CHOOSE i \in done : i.c = c
      BY <1>3
    <2>2. j.c = c /\ j.line = n(c)
      BY <1>3, <2>1
    <2>3. con[c] \in Connection
      BY DEF ServerInv, TypeOK
    <2>4. QED
      BY <1>2, <2>2, <2>3 DEF FlightInv, Waits, Connection
  <1>4. ASSUME NEW c \in Conn
        PROVE  con'[c] = IF Back(c) THEN r(c) ELSE con[c]
    <2>1. con'[c] = IF c \in clients /\ con[c].state # "closed" /\ Back(c) THEN r(c)
                    ELSE con[c]
      BY DEF SwapDone
    <2>2. QED
      BY <1>3, <2>1
  <1>5. ASSUME NEW c \in Conn, Back(c)
        PROVE  /\ con'[c] \in Connection /\ con'[c].state = "writing"
               /\ con'[c].out = con[c].disp /\ con'[c].disp = con[c].disp
               /\ con'[c].replied = con[c].replied
    <2>1. con[c] \in Connection /\ 0 \in 0..ResponseSize
      BY FrameworkAssumption DEF ServerInv, TypeOK
    <2>2. con[c].disp = n(c) /\ n(c) \in 0..MaxLines
      BY <1>3, <1>5
    <2>3. con'[c] = r(c)
      BY <1>4, <1>5
    <2> HIDE DEF n
    <2>4. r(c) \in Connection
      BY <2>1, <2>2 DEF Connection, State
    <2>5. /\ r(c).state = "writing" /\ r(c).out = n(c) /\ r(c).disp = con[c].disp
          /\ r(c).replied = con[c].replied
      BY <2>1 DEF Connection
    <2>6. QED
      BY <2>2, <2>3, <2>4, <2>5
  <1> HIDE DEF Back, r, n
  <1>6. TypeOK'
    <2>1. con' \in [Conn -> Connection]
      BY <1>1, <1>4, <1>5 DEF ServerInv, TypeOK
    <2>2. QED
      BY <1>1, <2>1 DEF ServerInv, TypeOK, MainPc
  <1>7. BatchInv'
    <2>1. \A c \in Conn : con[c].state = "reading" => con'[c].state = "reading"
      BY <1>3, <1>4
    <2>2. QED
      BY <1>1, <2>1 DEF ServerInv, BatchInv
  <1>8. ClientInv'
    <2>1. \A c \in clients : con'[c].state # "closed"
      BY <1>4, <1>5 DEF ServerInv, TypeOK, ClientInv
    <2>2. \A c \in Conn : net[c].up # "accepted" => con'[c] = con[c]
      BY <1>3, <1>4 DEF ServerInv, ClientInv
    <2>3. QED
      BY <1>1, <2>1, <2>2 DEF ServerInv, ClientInv
  <1>9. PoolInv' /\ NoLostCompletion' /\ HeldInv'
    BY <1>1 DEF ServerInv, PoolInv, NoLostCompletion, HeldInv, Running
  <1>10. OrderInv'
    <2> SUFFICES ASSUME NEW c \in Conn PROVE InOrder(con'[c])
      BY DEF OrderInv, InOrder
    <2>1. InOrder(con[c])
      BY DEF ServerInv, OrderInv
    <2>2. CASE Back(c)
      BY <1>3, <1>5, <2>1, <2>2 DEF InOrder
    <2>3. QED
      BY <1>4, <2>1, <2>2
  <1>11. UniqueInv'
    BY <1>1 DEF ServerInv, UniqueInv
  <1>12. FlightInv'
    <2>1. \A c \in Conn : ~Back(c) => con'[c] = con[c]
      BY <1>4
    <2>2. /\ \A i \in 1..Len(jobs) : jobs[i].c \in Conn /\ ~Back(jobs[i].c)
          /\ \A w \in Worker : wpc[w] = "work" => held[w][1].c \in Conn /\ ~Back(held[w][1].c)
      BY JobTypes DEF ServerInv, UniqueInv, Back
    <2>3. \A c \in Conn : con'[c].state = "processing" => c \in clients
      BY <1>2, <1>5, <2>1 DEF FlightInv
    <2>4. \A i \in 1..Len(jobs) :
            con'[jobs[i].c].state = "processing" /\ con'[jobs[i].c].disp = jobs[i].line
      BY <1>2, <2>1, <2>2 DEF FlightInv, Waits
    <2>5. \A w \in Worker : wpc[w] = "work" =>
            /\ con'[held[w][1].c].state = "processing"
            /\ con'[held[w][1].c].disp = held[w][1].line
      BY <1>2, <2>1, <2>2 DEF FlightInv, Waits
    <2>6. QED
      BY <1>1, <2>3, <2>4, <2>5 DEF FlightInv, Waits
  <1>13. SomewhereInv'
    <2> SUFFICES ASSUME NEW c \in Conn, con'[c].state = "processing"
                 PROVE  \/ \E i \in 1..Len(jobs) : jobs[i].c = c
                        \/ \E w \in Worker : wpc[w] = "work" /\ held[w][1].c = c
      BY <1>1 DEF SomewhereInv
    <2>1. ~Back(c) /\ con[c].state = "processing"
      BY <1>4, <1>5
    <2>2. QED
      BY <2>1 DEF ServerInv, SomewhereInv, Back
  <1>14. QED
    BY <1>6, <1>7, <1>8, <1>9, <1>10, <1>11, <1>12, <1>13 DEF ServerInv

\* An event of a connection: no job, or one of a connection that had none.
LEMMA ConnectionEventInv ==
    ASSUME ServerInv, NEW c \in Conn, ConnectionEvent(c)
    PROVE  ServerInv'
  <1> USE DEF poolVars
  <1>1. PICK k \in Handled(c) :
            /\ con' = [con EXCEPT ![c] = k]
            /\ clients' = IF k.state = "closed" THEN clients \ {c} ELSE clients
            /\ jobs' = IF k.disp > con[c].disp
                       THEN Append(jobs, [c |-> c, line |-> k.disp]) ELSE jobs
            /\ net' = IF k.state = "writing" /\ k.pos > con[c].pos
                      THEN [net EXCEPT ![c].full = TRUE] ELSE net
    BY DEF ConnectionEvent
  <1>2. /\ mpc = "batch" /\ flags[c] # {} /\ flags' = [flags EXCEPT ![c] = {}]
        /\ UNCHANGED <<batch, mpc, stopping, poolStop, wpc, held, done, notified>>
    BY DEF ConnectionEvent
  <1>3. /\ net \in [Conn -> NetType] /\ con \in [Conn -> Connection] /\ clients \subseteq Conn
        /\ flags \in [Conn -> SUBSET Flag]
    BY DEF ServerInv, TypeOK
  <1>4. Follows(con[c], k)
    <2>1. con[c] \in Connection /\ InOrder(con[c])
      BY <1>3 DEF ServerInv, OrderInv
    <2>2. "in" \in flags[c] => con[c].state = "reading"
      BY DEF ServerInv, BatchInv
    <2>3. QED
      BY <1>3, <2>1, <2>2, HandledFollows
  <1>5. /\ k \in Connection /\ InOrder(k) /\ con'[c] = k
        /\ \A d \in Conn : d # c => con'[d] = con[d]
        /\ k.disp \in 0..MaxLines /\ con[c].disp \in 0..MaxLines
    BY <1>1, <1>3, <1>4 DEF Follows, Connection
  <1>6. /\ net' \in [Conn -> NetType]
        /\ \A d \in Conn : net'[d].up = net[d].up
    <2>1. CASE net' = net
      BY <1>3, <2>1
    <2>2. CASE net' = [net EXCEPT ![c].full = TRUE]
      <3>1. [net[c] EXCEPT !.full = TRUE] \in NetType
            /\ [net[c] EXCEPT !.full = TRUE].up = net[c].up
        BY <1>3 DEF NetType
      <3>2. QED
        BY <1>3, <2>2, <3>1
    <2>3. QED
      BY <1>1, <2>1, <2>2
  <1>7. c \in clients /\ net[c].up = "accepted"
    BY <1>2 DEF ServerInv, BatchInv, ClientInv
  <1>8. FlightInv /\ Running /\ Running'
    BY <1>2 DEF ServerInv, Running
  <1>9. BatchInv'
    <2>1. \A d \in Conn : flags'[d] = IF d = c THEN {} ELSE flags[d]
      BY <1>2, <1>3
    <2>2. \A d \in clients : d # c => d \in clients'
      BY <1>1
    <2>3. QED
      BY <1>2, <1>5, <2>1, <2>2 DEF ServerInv, BatchInv
  <1>10. ClientInv'
    <2>1. \A d \in clients' : d \in clients /\ con'[d].state # "closed"
      BY <1>1, <1>3, <1>5 DEF ServerInv, ClientInv
    <2>2. \A d \in Conn : net[d].up # "accepted" => con'[d] = con[d]
      BY <1>5, <1>7
    <2>3. QED
      BY <1>3, <1>6, <2>1, <2>2 DEF ServerInv, ClientInv
  <1>11. OrderInv'
    BY <1>5 DEF ServerInv, OrderInv, InOrder
  <1>12. NoLostCompletion' /\ HeldInv'
    BY <1>2 DEF ServerInv, NoLostCompletion, HeldInv
  <1>13. PoolInv'
    <2>1. ~poolStop
      BY <1>8 DEF ServerInv, PoolInv
    <2>2. QED
      BY <1>2, <1>8, <2>1 DEF ServerInv, PoolInv
  <1>14. ASSUME jobs' \in Seq(Job) PROVE TypeOK'
    <2>1. con' \in [Conn -> Connection] /\ clients' \subseteq Conn
          /\ flags' \in [Conn -> SUBSET Flag]
      BY <1>1, <1>2, <1>3, <1>5
    <2>2. QED
      BY <1>2, <1>6, <1>14, <2>1 DEF ServerInv, TypeOK
  <1>15. CASE k.disp = con[c].disp /\ (con[c].state = "processing" <=> k.state = "processing")
    <2>1. jobs' = jobs
      BY <1>1, <1>5, <1>15
    <2>2. \A d \in Conn : /\ con'[d].state = "processing" <=> con[d].state = "processing"
                          /\ con'[d].disp = con[d].disp
      BY <1>5, <1>15
    <2>3. \A d \in clients : con[d].state = "processing" => d \in clients'
      BY <1>1, <1>15
    <2>4. (Running => FlightInv)' /\ UniqueInv' /\ SomewhereInv'
      BY <1>2, <1>8, <2>1, <2>2, <2>3, JobsStable
    <2>5. TypeOK'
      BY <1>14, <2>1, JobTypes
    <2>6. QED
      BY <1>9, <1>10, <1>11, <1>12, <1>13, <2>4, <2>5 DEF ServerInv
  <1>16. CASE /\ k.disp = con[c].disp + 1
              /\ con[c].state # "processing" /\ k.state = "processing"
    <2> DEFINE j == [c |-> c, line |-> k.disp]
    <2>1. /\ j \in Job /\ j.c = c /\ j.line = k.disp
          /\ jobs' = Append(jobs, j) /\ clients' = clients
      BY <1>1, <1>5, <1>16 DEF Job
    <2> HIDE DEF j
    <2>2. /\ jobs' \in Seq(Job) /\ Len(jobs') = Len(jobs) + 1 /\ Len(jobs) \in Nat
          /\ \A i \in 1..Len(jobs) : jobs'[i] = jobs[i]
          /\ jobs'[Len(jobs) + 1] = j
      BY <2>1, JobTypes, AppendProperties
    <2>3. \A i \in 1..Len(jobs') : i \in 1..Len(jobs) \/ i = Len(jobs) + 1
      BY <2>2
    <2>4. /\ \A i \in 1..Len(jobs) : jobs[i].c \in Conn /\ jobs[i].c # c
          /\ \A w \in Worker : wpc[w] = "work" => held[w][1].c \in Conn /\ held[w][1].c # c
          /\ \A d \in done : d.c \in Conn /\ d.c # c
      BY <1>8, <1>16, JobTypes DEF FlightInv, Waits
    <2>5. FlightInv'
      <3>1. \A d \in Conn : con'[d].state = "processing" => d \in clients'
        BY <1>5, <1>7, <1>8, <2>1 DEF FlightInv
      <3>2. \A i \in 1..Len(jobs') :
              con'[jobs'[i].c].state = "processing" /\ con'[jobs'[i].c].disp = jobs'[i].line
        BY <1>5, <1>8, <1>16, <2>1, <2>2, <2>3, <2>4 DEF FlightInv, Waits
      <3>3. \A w \in Worker : wpc[w] = "work" =>
              /\ con'[held[w][1].c].state = "processing"
              /\ con'[held[w][1].c].disp = held[w][1].line
        BY <1>5, <1>8, <2>4 DEF FlightInv, Waits
      <3>4. \A d \in done : con'[d.c].state = "processing" /\ con'[d.c].disp = d.line
        BY <1>5, <1>8, <2>4 DEF FlightInv, Waits
      <3>5. QED
        BY <1>2, <3>1, <3>2, <3>3, <3>4 DEF FlightInv, Waits
    <2>6. UniqueInv'
      <3>1. \A i, l \in 1..Len(jobs') : jobs'[i].c = jobs'[l].c => i = l
        BY <2>1, <2>2, <2>3, <2>4 DEF ServerInv, UniqueInv
      <3>2. \A i \in 1..Len(jobs'), w \in Worker :
              wpc[w] = "work" => jobs'[i].c # held[w][1].c
        BY <2>1, <2>2, <2>3, <2>4 DEF ServerInv, UniqueInv
      <3>3. \A d \in done, i \in 1..Len(jobs') : d.c # jobs'[i].c
        BY <2>1, <2>2, <2>3, <2>4 DEF ServerInv, UniqueInv
      <3>4. QED
        BY <1>2, <3>1, <3>2, <3>3 DEF ServerInv, UniqueInv
    <2>7. SomewhereInv'
      <3> SUFFICES ASSUME NEW d \in Conn, con'[d].state = "processing"
                   PROVE  \/ \E i \in 1..Len(jobs') : jobs'[i].c = d
                          \/ \E w \in Worker : wpc[w] = "work" /\ held[w][1].c = d
                          \/ \E e \in done : e.c = d
        BY <1>2 DEF SomewhereInv
      <3>1. CASE d = c
        <4>1. Len(jobs) + 1 \in 1..Len(jobs')
          BY <2>2
        <4>2. QED
          BY <2>1, <2>2, <3>1, <4>1
      <3>2. CASE d # c
        <4>1. 1..Len(jobs) \subseteq 1..Len(jobs')
          BY <2>2
        <4>2. con[d].state = "processing"
          BY <1>5, <3>2
        <4>3. QED
          BY <2>2, <4>1, <4>2 DEF ServerInv, SomewhereInv
      <3>3. QED
        BY <3>1, <3>2
    <2>8. TypeOK'
      BY <1>14, <2>2, JobTypes
    <2>9. QED
      BY <1>9, <1>10, <1>11, <1>12, <1>13, <2>5, <2>6, <2>7, <2>8 DEF ServerInv
  <1>17. QED
    BY <1>4, <1>15, <1>16 DEF Follows

\* The oldest job moves from the queue to a worker.
LEMMA TakeJobInv ==
    ASSUME ServerInv, NEW w \in Worker, TakeJob(w)
    PROVE  ServerInv'
  <1> USE DEF mainVars
  <1> DEFINE h == Head(jobs)
  <1>1. /\ wpc[w] = "wait" /\ jobs # <<>> /\ jobs' = Tail(jobs)
        /\ held' = [held EXCEPT ![w] = <<h>>]
        /\ wpc' = [wpc EXCEPT ![w] = "work"]
        /\ UNCHANGED <<net, clients, con, flags, batch, mpc, stopping, poolStop, done, notified>>
    BY DEF TakeJob
  <1>2. /\ held \in [Worker -> Seq(Job)] /\ HeldInv
        /\ wpc \in [Worker -> {"wait", "work", "notify", "exited"}]
    BY DEF ServerInv, TypeOK
  <1>3. /\ h \in Job /\ h = jobs[1] /\ jobs' \in Seq(Job)
        /\ Len(jobs) \in Nat \ {0} /\ Len(jobs') = Len(jobs) - 1
        /\ \A i \in 1..Len(jobs') : jobs'[i] = jobs[i + 1]
    BY <1>1, JobTypes, HeadTailProperties
  <1> HIDE DEF h
  <1>4. 1 \in 1..Len(jobs) /\ \A i \in 1..Len(jobs') : i + 1 \in 1..Len(jobs) /\ i + 1 # 1
    BY <1>3
  <1>5. /\ wpc'[w] = "work" /\ held'[w] = <<h>> /\ held'[w][1] = h
        /\ \A v \in Worker : v # w => wpc'[v] = wpc[v] /\ held'[v] = held[v]
    BY <1>1, <1>2
  <1>6. TypeOK'
    <2>1. held' \in [Worker -> Seq(Job)]
      BY <1>1, <1>2, <1>3
    <2>2. wpc' \in [Worker -> {"wait", "work", "notify", "exited"}]
      BY <1>1, <1>2
    <2>3. QED
      BY <1>1, <1>3, <2>1, <2>2 DEF ServerInv, TypeOK
  <1>7. HeldInv'
    <2>1. Len(held'[w]) = 1
      BY <1>5
    <2>2. QED
      BY <1>2, <1>5, <2>1 DEF HeldInv
  <1>8. BatchInv' /\ ClientInv' /\ OrderInv'
    BY <1>1 DEF ServerInv, BatchInv, ClientInv, OrderInv, InOrder
  <1>9. PoolInv'
    BY <1>1, <1>5 DEF ServerInv, PoolInv, Running
  <1>10. NoLostCompletion'
    BY <1>1, <1>5 DEF ServerInv, NoLostCompletion
  <1>11. (Running => FlightInv)'
    <2> SUFFICES ASSUME Running, FlightInv PROVE FlightInv'
      BY <1>1 DEF ServerInv, Running
    <2>1. Waits(h.c, h.line)
      BY <1>3, <1>4 DEF FlightInv
    <2>2. \A i \in 1..Len(jobs') : Waits(jobs'[i].c, jobs'[i].line)
      BY <1>3, <1>4 DEF FlightInv
    <2>3. \A v \in Worker : wpc'[v] = "work" => Waits(held'[v][1].c, held'[v][1].line)
      BY <1>5, <2>1 DEF FlightInv
    <2>4. QED
      BY <1>1, <2>2, <2>3 DEF FlightInv, Waits
  <1>12. UniqueInv'
    <2>1. \A i \in 1..Len(jobs) : jobs[i].c = h.c => i = 1
      BY <1>3, <1>4 DEF ServerInv, UniqueInv
    <2>2. \A i, l \in 1..Len(jobs') : jobs'[i].c = jobs'[l].c => i = l
      <3> TAKE i, l \in 1..Len(jobs')
      <3> HAVE jobs'[i].c = jobs'[l].c
      <3>1. i + 1 = l + 1
        BY <1>3, <1>4 DEF ServerInv, UniqueInv
      <3>2. QED
        BY <3>1, <1>3
    <2>3. \A v \in Worker : wpc[v] = "work" => held[v][1].c # h.c
      BY <1>3, <1>4 DEF ServerInv, UniqueInv
    <2>4. \A v, u \in Worker :
            wpc'[v] = "work" /\ wpc'[u] = "work" /\ held'[v][1].c = held'[u][1].c => v = u
      BY <1>5, <2>3 DEF ServerInv, UniqueInv
    <2>5. \A i \in 1..Len(jobs'), v \in Worker :
            wpc'[v] = "work" => jobs'[i].c # held'[v][1].c
      BY <1>3, <1>4, <1>5, <2>1 DEF ServerInv, UniqueInv
    <2>6. \A j \in done, i \in 1..Len(jobs') : j.c # jobs'[i].c
      BY <1>3, <1>4 DEF ServerInv, UniqueInv
    <2>7. \A j \in done, v \in Worker : wpc'[v] = "work" => j.c # held'[v][1].c
      BY <1>3, <1>4, <1>5 DEF ServerInv, UniqueInv
    <2>8. QED
      BY <1>1, <2>2, <2>4, <2>5, <2>6, <2>7 DEF UniqueInv
  <1>13. SomewhereInv'
    <2> SUFFICES ASSUME NEW c \in Conn, con[c].state = "processing"
                 PROVE  \/ \E i \in 1..Len(jobs') : jobs'[i].c = c
                        \/ \E v \in Worker : wpc'[v] = "work" /\ held'[v][1].c = c
                        \/ \E j \in done : j.c = c
      BY <1>1 DEF SomewhereInv
    <2>1. CASE \E i \in 1..Len(jobs) : jobs[i].c = c
      <3>1. PICK i \in 1..Len(jobs) : jobs[i].c = c
        BY <2>1
      <3>2. CASE i = 1
        BY <1>3, <1>5, <3>1, <3>2
      <3>3. CASE i # 1
        <4>1. i - 1 \in 1..Len(jobs') /\ (i - 1) + 1 = i
          BY <1>3, <3>3
        <4>2. jobs'[i - 1].c = c
          BY <1>3, <3>1, <4>1
        <4>3. QED
          BY <4>1, <4>2
      <3>4. QED
        BY <3>2, <3>3
    <2>2. CASE \E v \in Worker : wpc[v] = "work" /\ held[v][1].c = c
      BY <1>1, <1>5, <2>2
    <2>3. QED
      BY <2>1, <2>2 DEF ServerInv, SomewhereInv
  <1>14. QED
    BY <1>6, <1>7, <1>8, <1>9, <1>10, <1>11, <1>12, <1>13 DEF ServerInv

\* A job moves from its worker to the completion queue.
LEMMA PushDoneInv ==
    ASSUME ServerInv, NEW w \in Worker, PushDone(w)
    PROVE  ServerInv'
  <1> USE DEF mainVars
  <1> DEFINE h == held[w][1]
  <1>1. /\ wpc[w] = "work" /\ done' = done \union {h}
        /\ held' = [held EXCEPT ![w] = <<>>]
        /\ wpc' = [wpc EXCEPT ![w] = "notify"]
        /\ UNCHANGED <<net, clients, con, flags, batch, mpc, stopping, jobs, poolStop, notified>>
    BY DEF PushDone
  <1>2. /\ held \in [Worker -> Seq(Job)] /\ HeldInv /\ done \subseteq Job
        /\ wpc \in [Worker -> {"wait", "work", "notify", "exited"}]
    BY DEF ServerInv, TypeOK
  <1>3. h \in Job
    BY <1>1, JobTypes
  <1>4. /\ wpc'[w] = "notify" /\ held'[w] = <<>>
        /\ \A v \in Worker : v # w => wpc'[v] = wpc[v] /\ held'[v] = held[v]
    BY <1>1, <1>2
  <1> HIDE DEF h
  <1>5. TypeOK'
    <2>1. held' \in [Worker -> Seq(Job)]
      BY <1>1, <1>2
    <2>2. wpc' \in [Worker -> {"wait", "work", "notify", "exited"}] /\ done' \subseteq Job
      BY <1>1, <1>2, <1>3
    <2>3. QED
      BY <1>1, <2>1, <2>2 DEF ServerInv, TypeOK
  <1>6. HeldInv'
    BY <1>2, <1>4 DEF HeldInv
  <1>7. BatchInv' /\ ClientInv' /\ OrderInv'
    BY <1>1 DEF ServerInv, BatchInv, ClientInv, OrderInv, InOrder
  <1>8. PoolInv' /\ NoLostCompletion'
    BY <1>1, <1>4 DEF ServerInv, PoolInv, NoLostCompletion, Running
  <1>9. (Running => FlightInv)'
    <2> SUFFICES ASSUME Running, FlightInv PROVE FlightInv'
      BY <1>1 DEF ServerInv, Running
    <2>1. Waits(h.c, h.line)
      BY <1>1 DEF FlightInv, h
    <2>2. \A j \in done' : Waits(j.c, j.line)
      BY <1>1, <2>1 DEF FlightInv
    <2>3. \A v \in Worker : wpc'[v] = "work" => Waits(held'[v][1].c, held'[v][1].line)
      BY <1>4 DEF FlightInv
    <2>4. QED
      BY <1>1, <2>2, <2>3 DEF FlightInv, Waits
  <1>10. UniqueInv'
    <2>1. /\ \A v \in Worker : wpc[v] = "work" /\ v # w => held[v][1].c # h.c
          /\ \A i \in 1..Len(jobs) : jobs[i].c # h.c
      BY <1>1 DEF ServerInv, UniqueInv, h
    <2>2. \A v \in Worker : wpc'[v] = "work" => v # w /\ wpc[v] = "work" /\ held'[v] = held[v]
      BY <1>4
    <2>3. \A v, u \in Worker :
            wpc'[v] = "work" /\ wpc'[u] = "work" /\ held'[v][1].c = held'[u][1].c => v = u
      BY <2>2 DEF ServerInv, UniqueInv
    <2>4. \A i \in 1..Len(jobs), v \in Worker : wpc'[v] = "work" => jobs[i].c # held'[v][1].c
      BY <2>2 DEF ServerInv, UniqueInv
    <2>5. \A j \in done', i \in 1..Len(jobs) : j.c # jobs[i].c
      BY <1>1, <2>1 DEF ServerInv, UniqueInv
    <2>6. \A j \in done', v \in Worker : wpc'[v] = "work" => j.c # held'[v][1].c
      BY <1>1, <2>1, <2>2 DEF ServerInv, UniqueInv
    <2>7. QED
      BY <1>1, <2>3, <2>4, <2>5, <2>6 DEF ServerInv, UniqueInv
  <1>11. SomewhereInv'
    <2> SUFFICES ASSUME NEW c \in Conn, con[c].state = "processing"
                 PROVE  \/ \E i \in 1..Len(jobs) : jobs[i].c = c
                        \/ \E v \in Worker : wpc'[v] = "work" /\ held'[v][1].c = c
                        \/ \E j \in done' : j.c = c
      BY <1>1 DEF SomewhereInv
    <2>1. CASE \E v \in Worker : wpc[v] = "work" /\ held[v][1].c = c
      <3>1. PICK v \in Worker : wpc[v] = "work" /\ held[v][1].c = c
        BY <2>1
      <3>2. CASE v = w
        BY <1>1, <3>1, <3>2 DEF h
      <3>3. CASE v # w
        BY <1>4, <3>1, <3>3
      <3>4. QED
        BY <3>2, <3>3
    <2>2. QED
      BY <1>1, <2>1 DEF ServerInv, SomewhereInv
  <1>12. QED
    BY <1>5, <1>6, <1>7, <1>8, <1>9, <1>10, <1>11 DEF ServerInv

\* A worker that holds no job leaves, or goes back to wait.
LEMMA IdleWorkerInv ==
    ASSUME ServerInv, NEW w \in Worker, Quit(w) \/ WriteNotify(w)
    PROVE  ServerInv'
  <1> USE DEF mainVars
  <1>1. /\ wpc[w] \in {"wait", "notify"}
        /\ UNCHANGED <<net, clients, con, flags, batch, mpc, stopping, jobs, poolStop, held, done>>
        /\ \/ wpc' = [wpc EXCEPT ![w] = "exited"] /\ notified' = notified
              /\ wpc[w] = "wait" /\ poolStop /\ jobs = <<>>
           \/ wpc' = [wpc EXCEPT ![w] = "wait"] /\ notified' = TRUE
    BY DEF Quit, WriteNotify
  <1>2. wpc \in [Worker -> {"wait", "work", "notify", "exited"}]
    BY DEF ServerInv, TypeOK
  <1>3. /\ \A v \in Worker : v # w => wpc'[v] = wpc[v]
        /\ wpc'[w] # "work" /\ wpc[w] # "work"
    BY <1>1, <1>2
  <1>4. TypeOK'
    <2>1. wpc' \in [Worker -> {"wait", "work", "notify", "exited"}] /\ notified' \in BOOLEAN
      BY <1>1, <1>2 DEF ServerInv, TypeOK
    <2>2. QED
      BY <1>1, <2>1 DEF ServerInv, TypeOK
  <1>5. BatchInv' /\ ClientInv' /\ OrderInv'
    BY <1>1 DEF ServerInv, BatchInv, ClientInv, OrderInv, InOrder
  <1>6. PoolInv'
    BY <1>1, <1>2 DEF ServerInv, PoolInv, Running
  <1>7. NoLostCompletion'
    BY <1>1, <1>2 DEF ServerInv, NoLostCompletion
  <1>8. HeldInv' /\ UniqueInv' /\ SomewhereInv'
    BY <1>1, <1>3 DEF ServerInv, HeldInv, UniqueInv, SomewhereInv
  <1>9. (Running => FlightInv)'
    BY <1>1, <1>3 DEF ServerInv, FlightInv, Waits, Running
  <1>10. QED
    BY <1>4, <1>5, <1>6, <1>7, <1>8, <1>9 DEF ServerInv

\* Every step of the peers, of the epoll thread and of the workers preserves the invariant.
LEMMA StepInv == ServerInv /\ [Next]_vars => ServerInv'
  <1> SUFFICES ASSUME ServerInv, [Next]_vars PROVE ServerInv'
    OBVIOUS
  <1>1. ASSUME NEW c \in Conn,
               Connect(c) \/ SendLine(c) \/ SendLong(c) \/ HalfClose(c) \/ Reset(c)
                 \/ PeerReads(c)
        PROVE  ServerInv'
    <2>1. PICK n \in NetType : Peer(c, n) /\ (n.up = "accepted" <=> net[c].up = "accepted")
      <3>1. net[c] \in NetType
        BY DEF ServerInv, TypeOK
      <3>2. CASE Connect(c)
        <4>1. /\ [net[c] EXCEPT !.up = "pending"] \in NetType
              /\ [net[c] EXCEPT !.up = "pending"].up = "pending"
          BY <3>1 DEF NetType
        <4>2. QED
          BY <3>2, <4>1 DEF Connect
      <3>3. CASE SendLine(c)
        <4>1. net[c].sent + 1 \in 0..MaxLines
          BY <3>1, <3>3, FrameworkAssumption DEF SendLine, NetType
        <4>2. [net[c] EXCEPT !.sent = @ + 1] \in NetType
          BY <3>1, <4>1 DEF NetType
        <4>3. [net[c] EXCEPT !.sent = @ + 1].up = net[c].up
          BY <3>1 DEF NetType
        <4>4. QED
          BY <3>3, <4>2, <4>3 DEF SendLine
      <3>4. CASE SendLong(c)
        <4>1. /\ [net[c] EXCEPT !.long = TRUE] \in NetType
              /\ [net[c] EXCEPT !.long = TRUE].up = net[c].up
          BY <3>1 DEF NetType
        <4>2. QED
          BY <3>4, <4>1 DEF SendLong
      <3>5. CASE HalfClose(c)
        <4>1. /\ [net[c] EXCEPT !.fin = TRUE] \in NetType
              /\ [net[c] EXCEPT !.fin = TRUE].up = net[c].up
          BY <3>1 DEF NetType
        <4>2. QED
          BY <3>5, <4>1 DEF HalfClose
      <3>6. CASE Reset(c)
        <4>1. /\ [net[c] EXCEPT !.rst = TRUE] \in NetType
              /\ [net[c] EXCEPT !.rst = TRUE].up = net[c].up
          BY <3>1 DEF NetType
        <4>2. QED
          BY <3>6, <4>1 DEF Reset
      <3>7. CASE PeerReads(c)
        <4>1. /\ [net[c] EXCEPT !.full = FALSE] \in NetType
              /\ [net[c] EXCEPT !.full = FALSE].up = net[c].up
          BY <3>1 DEF NetType
        <4>2. QED
          BY <3>7, <4>1 DEF PeerReads
      <3>8. QED
        BY <1>1, <3>2, <3>3, <3>4, <3>5, <3>6, <3>7
    <2>2. QED
      BY <2>1, PeerStep
  <1>2. CASE Signal
    <2>1. TypeOK'
      BY <1>2 DEF ServerInv, TypeOK, Signal, MainPc, poolVars
    <2>2. BatchInv' /\ NoLostCompletion'
      BY <1>2 DEF ServerInv, BatchInv, NoLostCompletion, Signal, poolVars
    <2>3. (mpc' = "exited" => \A w \in Worker : wpc[w] = "exited") /\ (Running' <=> Running)
      BY <1>2 DEF ServerInv, PoolInv, Signal, Running
    <2>4. QED
      BY <1>2, <2>1, <2>2, <2>3, MainStepInv DEF Signal
  <1>3. CASE CheckStopping
    BY <1>3, CheckStoppingInv
  <1>4. CASE Enter
    <2>1. TypeOK'
      BY <1>4 DEF ServerInv, TypeOK, Enter, MainPc, poolVars
    <2>2. BatchInv' /\ NoLostCompletion'
      BY <1>4 DEF ServerInv, BatchInv, NoLostCompletion, Enter, poolVars
    <2>3. QED
      BY <1>4, <2>1, <2>2, MainStepInv DEF Enter, Running
  <1>5. CASE EpollWait
    BY <1>5, EpollWaitInv
  <1>6. CASE EndBatch
    <2>1. TypeOK'
      BY <1>6 DEF ServerInv, TypeOK, EndBatch, MainPc, poolVars
    <2>2. BatchInv' /\ NoLostCompletion'
      BY <1>6 DEF ServerInv, BatchInv, NoLostCompletion, EndBatch, poolVars
    <2>3. QED
      BY <1>6, <2>1, <2>2, MainStepInv DEF EndBatch, Running
  <1>7. CASE Join
    <2>1. TypeOK'
      BY <1>7 DEF ServerInv, TypeOK, Join, MainPc, poolVars
    <2>2. BatchInv' /\ NoLostCompletion'
      BY <1>7 DEF ServerInv, BatchInv, NoLostCompletion, Join, poolVars
    <2>3. QED
      BY <1>7, <2>1, <2>2, MainStepInv DEF Join, Running
  <1>8. CASE Accept
    BY <1>8, AcceptInv
  <1>9. CASE ReadNotify
    <2>1. TypeOK'
      BY <1>9 DEF ServerInv, TypeOK, ReadNotify, MainPc, poolVars
    <2>2. BatchInv' /\ NoLostCompletion'
      BY <1>9 DEF ServerInv, BatchInv, NoLostCompletion, ReadNotify, poolVars
    <2>3. QED
      BY <1>9, <2>1, <2>2, MainStepInv DEF ReadNotify, Running
  <1>10. CASE SwapDone
    BY <1>10, SwapDoneInv
  <1>11. ASSUME NEW c \in Conn, ConnectionEvent(c) PROVE ServerInv'
    BY <1>11, ConnectionEventInv
  <1>12. ASSUME NEW w \in Worker, TakeJob(w) PROVE ServerInv'
    BY <1>12, TakeJobInv
  <1>13. ASSUME NEW w \in Worker, PushDone(w) PROVE ServerInv'
    BY <1>13, PushDoneInv
  <1>14. ASSUME NEW w \in Worker, Quit(w) \/ WriteNotify(w) PROVE ServerInv'
    BY <1>14, IdleWorkerInv
  <1>15. CASE UNCHANGED vars
    <2>1. TypeOK'
      BY <1>15 DEF ServerInv, TypeOK, vars, mainVars, poolVars
    <2>2. BatchInv' /\ NoLostCompletion'
      BY <1>15 DEF ServerInv, BatchInv, NoLostCompletion, vars, mainVars, poolVars
    <2>3. (mpc' = "exited" => \A w \in Worker : wpc[w] = "exited") /\ (Running' <=> Running)
      BY <1>15 DEF ServerInv, PoolInv, Running, vars, mainVars
    <2>4. QED
      BY <1>15, <2>1, <2>2, <2>3, MainStepInv DEF vars, mainVars
  <1>16. QED
    BY <1>1, <1>2, <1>3, <1>4, <1>5, <1>6, <1>7, <1>8, <1>9, <1>10, <1>11, <1>12, <1>13,
       <1>14, <1>15 DEF Next

-----------------------------------------------------------------------------
\* The invariant holds in every behaviour of the server.
LEMMA SpecInv == Spec => []ServerInv
  BY InitInv, StepInv, PTL DEF Spec

\* The state has its types: no counter of a connection leaves its range, and the offset of
\* a response never runs past its end.
THEOREM TypeCorrect == Spec => []TypeOK
  BY SpecInv, PTL DEF ServerInv

\* A completion is always announced by the eventfd, or about to be.
THEOREM CompletionsAnnounced == Spec => []NoLostCompletion
  BY SpecInv, PTL DEF ServerInv

\* The responses of a connection leave in the order of its lines.
THEOREM Ordered == Spec => []ResponsesInOrder
  <1>1. ServerInv => ResponsesInOrder
    BY DEF ServerInv, OrderInv, InOrder, ResponsesInOrder
  <1>2. QED
    BY <1>1, SpecInv, PTL

\* A connection waits exactly while one job of it is under way, in one place.
THEOREM OneInFlight == Spec => []OneRequestInFlight
  <1>1. ServerInv => OneRequestInFlight
    <2> SUFFICES ASSUME ServerInv, NEW c \in Conn, Running
                 PROVE  IF con[c].state = "processing"
                        THEN /\ c \in clients
                             /\ \A i \in InQueue(c) : jobs[i].line = con[c].disp
                             /\ \A w \in AtWorkers(c) : held[w][1].line = con[c].disp
                             /\ \A j \in InDone(c) : j.line = con[c].disp
                             /\ \/ /\ \E i \in InQueue(c) : InQueue(c) = {i}
                                   /\ AtWorkers(c) = {} /\ InDone(c) = {}
                                \/ /\ \E w \in AtWorkers(c) : AtWorkers(c) = {w}
                                   /\ InQueue(c) = {} /\ InDone(c) = {}
                                \/ InQueue(c) = {} /\ AtWorkers(c) = {} /\ InDone(c) # {}
                        ELSE InQueue(c) = {} /\ AtWorkers(c) = {} /\ InDone(c) = {}
      BY DEF OneRequestInFlight, Running
    <2> USE DEF InQueue, AtWorkers, InDone
    <2>1. FlightInv /\ UniqueInv /\ SomewhereInv
      BY DEF ServerInv
    <2>2. CASE con[c].state # "processing"
      BY <2>1, <2>2 DEF FlightInv, Waits
    <2>3. CASE con[c].state = "processing"
      <3>1. /\ c \in clients
            /\ \A i \in InQueue(c) : jobs[i].line = con[c].disp
            /\ \A w \in AtWorkers(c) : held[w][1].line = con[c].disp
            /\ \A j \in InDone(c) : j.line = con[c].disp
        BY <2>1, <2>3 DEF FlightInv, Waits
      <3>2. ASSUME NEW i \in InQueue(c)
            PROVE  InQueue(c) = {i} /\ AtWorkers(c) = {} /\ InDone(c) = {}
        BY <2>1 DEF UniqueInv
      <3>3. ASSUME NEW w \in AtWorkers(c)
            PROVE  AtWorkers(c) = {w} /\ InQueue(c) = {} /\ InDone(c) = {}
        BY <2>1 DEF UniqueInv
      <3>4. ASSUME NEW j \in InDone(c)
            PROVE  InQueue(c) = {} /\ AtWorkers(c) = {} /\ InDone(c) # {}
        BY <2>1 DEF UniqueInv
      <3>5. InQueue(c) # {} \/ AtWorkers(c) # {} \/ InDone(c) # {}
        BY <2>1, <2>3 DEF SomewhereInv
      <3>6. QED
        BY <2>3, <3>1, <3>2, <3>3, <3>4, <3>5
    <2>4. QED
      BY <2>2, <2>3
  <1>2. QED
    BY <1>1, SpecInv, PTL

\* When the server has ended, every job that was submitted has been done: a worker leaves
\* only with an empty queue, and there is at least one.
THEOREM Drained == Spec => []PoolDrained
  <1>1. ServerInv => PoolDrained
    BY FrameworkAssumption DEF ServerInv, HeldInv, PoolInv, PoolDrained
  <1>2. QED
    BY <1>1, SpecInv, PTL
=============================================================================
