---------------------------- MODULE LogicServer ----------------------------
(***************************************************************************)
(* The layered chat server: NetworkServer and its io thread, the Sessions, *)
(* the SessionManager registry, and the logic layer (LogicSystem) with the *)
(* echo that dispatch performs.                                            *)
(*                                                                         *)
(* Two threads run: the io thread (main), which runs every completion      *)
(* handler and the shutdown, and the logic thread, which answers.  Both    *)
(* use a Session's socket and neither locks it.  A close therefore reads   *)
(* the descriptor in one step and closes it in another, and a send reads   *)
(* the descriptor in one step and writes to it in another: between the two *)
(* the other thread may close the descriptor and accept may reuse it.      *)
(*                                                                         *)
(* on_message posts every message with msg_type 0, for which no handler is *)
(* registered, so dispatch always takes its echo branch.  A message is its *)
(* session and its number in that session; a header is a valid or an       *)
(* invalid length.  Accept errors, which change nothing, are left out.     *)
(***************************************************************************)
EXTENDS LogicSystem

CONSTANTS
    MaxSessions,    \* bound on the connections accepted (_next_id)
    MaxMsgs,        \* bound on the messages one peer sends
    Fds             \* the descriptors the kernel can hand out

SessionId == 1..MaxSessions

ASSUME ServerAssumption ==
    /\ MaxSessions \in Nat
    /\ MaxMsgs \in Nat
    /\ Fds \subseteq Nat \ {0}
    /\ LogicMessage = [session_id : SessionId, body : 1..MaxMsgs]

NoFd == 0       \* the native handle of a closed socket
NoConn == 0     \* a descriptor that is not open

VARIABLES
    acceptor,   \* NetworkServer::_acceptor is open
    nextId,     \* NetworkServer::_next_id
    sock,       \* Session::_sock: the native handle of each session's socket
    owner,      \* kernel: the connection each descriptor refers to
    sent,       \* history: how many messages each session has posted
    rd,         \* the read operation in flight of each session, and its result
    registry,   \* SessionManager::_sessions
    mgr,        \* SessionManager::_mutex: "free", or held by close_all ("io")
    ipc,        \* where the io thread is
    iid,        \* the session whose handler or close() the io thread runs
    ifd,        \* the descriptor that close() on the io thread has read
    joined,     \* run() has returned: the destructor's stop() is next
    dpc,        \* where the logic thread is in dispatch()
    dfd,        \* the descriptor that send() or close() has read there
    echoed      \* history: what was written to each connection, oldest first

nvars == <<acceptor, nextId, sock, owner, sent, rd, registry, mgr, ipc, iid, ifd,
           joined>>
dvars == <<dpc, dfd, echoed>>
vars == <<lvars, nvars, dvars>>

IoPc == {"loop", "add", "close", "remove", "stop", "iterate", "stoplogic",
         "notify", "stopio", "join", "exited"}
DispatchPc == {"lookup", "send", "write", "close", "remove"}
ReadState == {"none", "header", "headerOk", "headerBad", "body", "bodyOk"}

Init ==
    /\ LogicInit
    /\ acceptor = TRUE
    /\ nextId = 1
    /\ sock = [id \in SessionId |-> NoFd]
    /\ owner = [f \in Fds |-> NoConn]
    /\ sent = [id \in SessionId |-> 0]
    /\ rd = [id \in SessionId |-> "none"]
    /\ registry = {}
    /\ mgr = "free"
    /\ ipc = "loop"
    /\ iid = 0
    /\ ifd = NoFd
    /\ joined = FALSE
    /\ dpc = "lookup"
    /\ dfd = NoFd
    /\ echoed = [id \in SessionId |-> <<>>]

-----------------------------------------------------------------------------
(* The kernel and the peers. *)

FreeFds == {f \in Fds : owner[f] = NoConn}

\* accept returns the lowest descriptor that is not open.
LowestFree(f) == f \in FreeFds /\ \A g \in FreeFds : f <= g

\* The socket object of id still refers to the connection of id.
Connected(id) == sock[id] # NoFd /\ owner[sock[id]] = id

\* A whole header arrives; its length is valid or not.
HeaderArrives(id) ==
    /\ rd[id] = "header"
    /\ Connected(id)
    /\ sent[id] < MaxMsgs
    /\ rd' \in {[rd EXCEPT ![id] = r] : r \in {"headerOk", "headerBad"}}
    /\ UNCHANGED <<lvars, acceptor, nextId, sent, sock, owner, registry, mgr, ipc, iid,
                   ifd, joined, dvars>>

BodyArrives(id) ==
    /\ rd[id] = "body"
    /\ Connected(id)
    /\ rd' = [rd EXCEPT ![id] = "bodyOk"]
    /\ UNCHANGED <<lvars, acceptor, nextId, sent, sock, owner, registry, mgr, ipc, iid,
                   ifd, joined, dvars>>

-----------------------------------------------------------------------------
(* Session::close, shared by the two threads: it has read descriptor f, and  *)
(* now closes f, whichever connection f refers to by now.                    *)

\* Mutant: close() returns early and leaves the descriptor open.
CloseFd_skipped(f, id) ==
    UNCHANGED <<owner, sock>>

CloseFd(f, id) ==
    /\ owner' = [g \in Fds |-> IF g = f THEN NoConn ELSE owner[g]]
    /\ sock' = [sock EXCEPT ![id] = NoFd]

-----------------------------------------------------------------------------
(* The io thread: one completion handler at a time. *)

\* do_accept's handler: number the connection and construct its Session.
HandleAccept ==
    /\ ipc = "loop"
    /\ acceptor
    /\ nextId <= MaxSessions
    /\ \E f \in Fds :
        /\ LowestFree(f)
        /\ sock' = [sock EXCEPT ![nextId] = f]
        /\ owner' = [owner EXCEPT ![f] = nextId]
    /\ nextId' = nextId + 1
    /\ iid' = nextId
    /\ ipc' = "add"
    /\ UNCHANGED <<lvars, acceptor, sent, rd, registry, mgr, ifd, joined, dvars>>

\* Mutant: the session is registered before it has its number.
add_session_unnumbered ==
    /\ ipc = "add"
    /\ mgr = "free"
    /\ registry' = registry \union {0}
    /\ rd' = [rd EXCEPT ![iid] = "header"]
    /\ ipc' = "loop"
    /\ UNCHANGED <<lvars, acceptor, nextId, sent, sock, owner, mgr, iid, ifd, joined,
                   dvars>>

\* Session::start: add_session, then read_header.
add_session ==
    /\ ipc = "add"
    /\ mgr = "free"
    /\ registry' = registry \union {iid}
    /\ rd' = [rd EXCEPT ![iid] = "header"]
    /\ ipc' = "loop"
    /\ UNCHANGED <<lvars, acceptor, nextId, sent, sock, owner, mgr, iid, ifd, joined,
                   dvars>>

\* The io thread enters close() of session id.
BeginClose(id) ==
    /\ ipc' = "close"
    /\ iid' = id
    /\ ifd' = sock[id]

\* Mutant: an invalid length ends the read loop without closing the session.
HandleHeader_leak(id) ==
    /\ ipc = "loop"
    /\ \/ /\ rd[id] = "headerOk"
          /\ rd' = [rd EXCEPT ![id] = "body"]
       \/ /\ rd[id] = "headerBad"
          /\ rd' = [rd EXCEPT ![id] = "none"]
    /\ UNCHANGED <<lvars, acceptor, nextId, sent, sock, owner, registry, mgr, ipc,
                   iid, ifd, joined, dvars>>

\* The handler of read_header: a valid length starts read_body, an invalid one
\* closes the session.
HandleHeader(id) ==
    /\ ipc = "loop"
    /\ \/ /\ rd[id] = "headerOk"
          /\ rd' = [rd EXCEPT ![id] = "body"]
          /\ UNCHANGED <<ipc, iid, ifd>>
       \/ /\ rd[id] = "headerBad"
          /\ rd' = [rd EXCEPT ![id] = "none"]
          /\ BeginClose(id)
    /\ UNCHANGED <<lvars, acceptor, nextId, sent, sock, owner, registry, mgr, joined, dvars>>

\* The handler of read_body: on_message posts the message and reads the next
\* header.
HandleBody(id) ==
    /\ ipc = "loop"
    /\ rd[id] = "bodyOk"
    /\ post_message([session_id |-> id, body |-> sent[id] + 1])
    /\ sent' = [sent EXCEPT ![id] = @ + 1]
    /\ rd' = [rd EXCEPT ![id] = "header"]
    /\ UNCHANGED <<acceptor, nextId, sock, owner, registry, mgr, ipc, iid, ifd,
                   joined, dvars>>

\* A read fails and its handler runs handle_error, that is close(): the peer
\* closed or reset the connection, or the socket was closed under the read.
HandleReadError(id) ==
    /\ ipc = "loop"
    /\ rd[id] \in {"header", "body"}
    /\ sock[id] = NoFd \/ Connected(id)
    /\ rd' = [rd EXCEPT ![id] = "none"]
    /\ BeginClose(id)
    /\ UNCHANGED <<lvars, acceptor, nextId, sent, sock, owner, registry, mgr, joined, dvars>>

\* Mutant: close() forgets remove_session.
IoCloseFd_keep ==
    /\ ipc = "close"
    /\ CloseFd(ifd, iid)
    /\ ifd' = NoFd
    /\ ipc' = "loop"
    /\ UNCHANGED <<lvars, acceptor, nextId, sent, rd, registry, mgr, iid, joined, dvars>>

IoCloseFd ==
    /\ ipc = "close"
    /\ CloseFd(ifd, iid)
    /\ ifd' = NoFd
    /\ ipc' = "remove"
    /\ UNCHANGED <<lvars, acceptor, nextId, sent, rd, registry, mgr, iid, joined, dvars>>

\* close()'s remove_session on the io thread.  It takes SessionManager::_mutex,
\* so it cannot return to close_all, which holds that mutex.
IoRemove ==
    /\ ipc = "remove"
    /\ mgr = "free"
    /\ registry' = registry \ {iid}
    /\ ipc' = "loop"
    /\ UNCHANGED <<lvars, acceptor, nextId, sent, sock, owner, rd, mgr, iid, ifd, joined,
                   dvars>>

-----------------------------------------------------------------------------
(* NetworkServer::stop, run by the signal handler and by the destructor. *)

\* The signal handler: acceptor.close(), then close_all is called.
HandleSignal ==
    /\ ipc = "loop"
    /\ acceptor' = FALSE
    /\ ipc' = "stop"
    /\ UNCHANGED <<lvars, nextId, sent, sock, owner, rd, registry, mgr, iid, ifd, joined,
                   dvars>>

\* close_all locks the registry's mutex.
LockAll ==
    /\ ipc = "stop"
    /\ mgr = "free"
    /\ mgr' = "io"
    /\ ipc' = "iterate"
    /\ UNCHANGED <<lvars, acceptor, nextId, sent, sock, owner, rd, registry, iid, ifd,
                   joined, dvars>>

\* The body of close_all's loop: close() of a registered session.
CloseEach(id) ==
    /\ ipc = "iterate"
    /\ id \in registry
    /\ BeginClose(id)
    /\ UNCHANGED <<lvars, acceptor, nextId, sent, sock, owner, rd, registry, mgr, joined,
                   dvars>>

\* The loop is over: clear() and unlock.
AllClosed ==
    /\ ipc = "iterate"
    /\ registry = {}
    /\ mgr' = "free"
    /\ ipc' = "stoplogic"
    /\ UNCHANGED <<lvars, acceptor, nextId, sent, sock, owner, rd, registry, iid, ifd,
                   joined, dvars>>

StopLogic ==
    /\ ipc = "stoplogic"
    /\ SetStop
    /\ ipc' = "notify"
    /\ UNCHANGED <<acceptor, nextId, sent, sock, owner, rd, registry, mgr, iid, ifd,
                   joined, dvars>>

NotifyLogic ==
    /\ ipc = "notify"
    /\ NotifyAll
    /\ ipc' = "stopio"
    /\ UNCHANGED <<acceptor, nextId, sent, sock, owner, rd, registry, mgr, iid, ifd,
                   joined, dvars>>

\* io_context::stop makes run() leave its loop; in the destructor it is the end.
StopIo ==
    /\ ipc = "stopio"
    /\ ipc' = IF joined THEN "exited" ELSE "join"
    /\ UNCHANGED <<lvars, acceptor, nextId, sent, sock, owner, rd, registry, mgr, iid, ifd,
                   joined, dvars>>

\* _logic_thread.join() returns, and main destroys the server, which calls stop().
Join ==
    /\ ipc = "join"
    /\ lpc = "exited"
    /\ joined' = TRUE
    /\ ipc' = "stop"
    /\ UNCHANGED <<lvars, acceptor, nextId, sent, sock, owner, rd, registry, mgr, iid, ifd,
                   dvars>>

-----------------------------------------------------------------------------
(* dispatch() on the logic thread: get_session, then send. *)

Requester == current[1].session_id

\* The step ends dispatch(); the next one starts from its first statement.
Return ==
    /\ FinishDispatch
    /\ dpc' = "lookup"
    /\ dfd' = NoFd

\* Every other step of dispatch() leaves the logic layer alone.
Continue(pc) ==
    /\ dpc' = pc
    /\ UNCHANGED lvars

get_session ==
    /\ lpc = "dispatch"
    /\ dpc = "lookup"
    /\ mgr = "free"
    /\ \/ Requester \in registry /\ Continue("send") /\ UNCHANGED dfd
       \/ Requester \notin registry /\ Return
    /\ UNCHANGED <<nvars, echoed>>

\* send reads the descriptor of the session's socket.
BeginSend ==
    /\ dpc = "send"
    /\ dfd' = sock[Requester]
    /\ Continue("write")
    /\ UNCHANGED <<nvars, echoed>>

\* The bytes go to the connection that the descriptor refers to now.
WriteOk ==
    /\ dpc = "write"
    /\ dfd # NoFd
    /\ owner[dfd] # NoConn
    /\ echoed' = [echoed EXCEPT ![owner[dfd]] = Append(@, current[1])]
    /\ Return
    /\ UNCHANGED nvars

\* Mutant: the message of a failed send is queued again.
WriteError_requeue ==
    /\ dpc = "write"
    /\ dfd' = sock[Requester]
    /\ dpc' = "close"
    /\ queue' = Append(queue, current[1])
    /\ UNCHANGED <<mutex, stop, stopper, lpc, current, posted, taken, nvars, echoed>>

\* The write fails, because the descriptor is closed or the peer is gone:
\* handle_error, that is close(), on the logic thread.
WriteError ==
    /\ dpc = "write"
    /\ dfd' = sock[Requester]
    /\ Continue("close")
    /\ UNCHANGED <<nvars, echoed>>

LogicCloseFd ==
    /\ dpc = "close"
    /\ CloseFd(dfd, Requester)
    /\ Continue("remove")
    /\ UNCHANGED <<acceptor, nextId, sent, rd, registry, mgr, ipc, iid, ifd, joined, dfd,
                   echoed>>

LogicRemove ==
    /\ dpc = "remove"
    /\ mgr = "free"
    /\ registry' = registry \ {Requester}
    /\ Return
    /\ UNCHANGED <<acceptor, nextId, sent, sock, owner, rd, mgr, ipc, iid, ifd, joined,
                   echoed>>

Dispatch ==
    get_session \/ BeginSend \/ WriteOk \/ WriteError \/ LogicCloseFd \/ LogicRemove

\* The steps of dispatch() that do not wait for a peer: all but the write.
DispatchRuns == get_session \/ BeginSend \/ LogicCloseFd \/ LogicRemove

-----------------------------------------------------------------------------
\* The logic thread outside dispatch().
RunLoop ==
    /\ CheckStop \/ Acquire \/ Block \/ Leave \/ Pop
    /\ UNCHANGED <<nvars, dvars>>

Spurious == SpuriousWake /\ UNCHANGED <<nvars, dvars>>

\* The io thread between the start of a handler and its end, and the shutdown.
IoBusy ==
    \/ add_session \/ IoCloseFd \/ IoRemove
    \/ LockAll \/ (\E id \in SessionId : CloseEach(id)) \/ AllClosed
    \/ StopLogic \/ NotifyLogic \/ StopIo \/ Join

\* A completion that is ready to be handled.
IoReady(id) ==
    \/ HandleHeader(id)
    \/ HandleBody(id)
    \/ sock[id] = NoFd /\ HandleReadError(id)

Next ==
    \/ \E id \in SessionId :
        HeaderArrives(id) \/ BodyArrives(id) \/ HandleHeader(id) \/ HandleBody(id)
            \/ HandleReadError(id) \/ CloseEach(id)
    \/ HandleAccept \/ add_session \/ IoCloseFd \/ IoRemove
    \/ HandleSignal \/ LockAll \/ AllClosed
    \/ StopLogic \/ NotifyLogic \/ StopIo \/ Join
    \/ RunLoop \/ Spurious \/ Dispatch

\* Both threads keep running, and io_context handles ready completions in turn.
\* Nothing is assumed of the peers or of the signal; so nothing is assumed of the
\* write of send() either, which waits while the peer does not read.
Fairness ==
    /\ WF_vars(IoBusy)
    /\ \A id \in SessionId : SF_vars(IoReady(id))
    /\ WF_vars(RunLoop)
    /\ WF_vars(DispatchRuns)

Spec == Init /\ [][Next]_vars
FairSpec == Spec /\ Fairness
-----------------------------------------------------------------------------
TypeOK ==
    /\ LogicTypeOK
    /\ acceptor \in BOOLEAN
    /\ nextId \in 1..(MaxSessions + 1)
    /\ sock \in [SessionId -> Fds \union {NoFd}]
    /\ owner \in [Fds -> SessionId \union {NoConn}]
    /\ sent \in [SessionId -> 0..MaxMsgs]
    /\ rd \in [SessionId -> ReadState]
    /\ registry \subseteq SessionId
    /\ mgr \in {"free", "io"}
    /\ ipc \in IoPc
    /\ iid \in SessionId \union {0}
    /\ ifd \in Fds \union {NoFd}
    /\ joined \in BOOLEAN
    /\ dpc \in DispatchPc
    /\ dfd \in Fds \union {NoFd}
    /\ echoed \in [SessionId -> Seq(LogicMessage)]

\* Session::start has registered the session.
Started(id) == id < nextId /\ ~(ipc = "add" /\ iid = id)

IoClosing(id) == ipc \in {"close", "remove"} /\ iid = id

\* A session leaves the registry only after its socket object was closed, on
\* whichever thread and however often close() ran: a session that get_session can
\* no longer find holds no descriptor (session.cpp, close).
CloseBeforeUnregister ==
    \A id \in SessionId : Started(id) /\ id \notin registry => sock[id] = NoFd

\* A registered session is being read or being closed: no path through the
\* completion handlers ends the read loop and leaves the session registered
\* (session.cpp, read_header, read_body, on_message, handle_error).
NoZombieSession ==
    \A id \in registry : rd[id] # "none" \/ IoClosing(id)

\* The replies of one session that reach its own connection arrive in the order of
\* its requests, none twice, although network and logic run on different threads.
EchoInOrder ==
    \A id \in SessionId : \A i, j \in 1..Len(echoed[id]) :
        /\ i < j
        /\ echoed[id][i].session_id = id
        /\ echoed[id][j].session_id = id
        => echoed[id][i].body < echoed[id][j].body

\* The logic thread never stays in the write of send() for ever: no peer that the
\* server answers stops reading.
WritesReturn == []<>(dpc # "write")

\* A posted message is dispatched, unless the server is shutting down or a peer that
\* does not read keeps the only logic thread in its blocking write (session.cpp, send).
EveryMessageDispatched ==
    WritesReturn =>
        \A n \in 1..MaxPosts : Len(posted) >= n ~> (taken >= n \/ ~acceptor)

\* A session whose read loop has ended leaves the registry, unless the server is
\* shutting down.
DeadSessionsLeave ==
    \A id \in SessionId :
        (Started(id) /\ rd[id] = "none") ~> (id \notin registry \/ ~acceptor)

\* The reply goes to the session the request came from (message.hpp: session_id is
\* the source session, used for the reply).
ReplyReachesRequester ==
    \A id \in SessionId : \A i \in 1..Len(echoed[id]) : echoed[id][i].session_id = id

\* close_all, which the shutdown calls with sessions still registered, returns, so
\* that the shutdown goes on to stop the logic layer (base_logic_layer.md, 8.3).
CloseAllReturns == ipc = "iterate" ~> ipc = "stoplogic"
=============================================================================
