----------------------------- MODULE MCServices -----------------------------
(***************************************************************************)
(* The small programs side by side: the asio send queue, the select echo   *)
(* server, the two chat servers, the task queue and the bounded buffer,    *)
(* the coroutine loop, the shared pointers, the task manager and the order *)
(* program.  They share nothing, so a behaviour exercises one of them,     *)
(* chosen at the start; the vector chat server is run with two sizes of    *)
(* its table, room for every peer and one peer too many.                   *)
(***************************************************************************)
EXTENDS Naturals, Sequences, FiniteSets

CONSTANTS
    SendSize, SendMsgs, RecvSize,   \* sizes and number of messages, RECVSIZE
    ChatConn, ChatSent,             \* the peers of the chat servers, messages of each
    ChatRoom, ChatCrowd, PollSlots, \* MAX_CLIENTS, twice for the vector and for the array
    EchoConn, EchoSlots, EchoBuf,   \* the peers of the echo server, FD_SETSIZE, RIO_BUFSIZE
    EchoBytes,                      \* how many bytes each of them sends
    RingSize, RingItems,            \* BUF_SIZE and the items of the bounded buffer
    QueueTasks,                     \* the tasks main adds to the task queue
    LoopTask, LoopFd, LoopToken,    \* coroutines, descriptors and the bound on tokens
    PtrThread, PtrObject,           \* the threads and the objects of the shared pointers
    TaskText, TaskPriority, TaskId  \* texts, priorities and the bound on ids of the manager

\* A message has a byte; RIO_BUFSIZE is 8192; a connection is not the descriptor -1.
ASSUME StreamAssumption ==
    /\ SendSize \subseteq Nat \ {0} /\ SendMsgs \in Nat /\ RecvSize \in Nat
    /\ "-1" \notin EchoConn /\ EchoSlots \in Nat /\ EchoBuf \in Nat \ {0}
    /\ EchoBytes \in [EchoConn -> Nat]

\* Nor is it the text "joined" by which the model knows an announcement.
ASSUME ChatAssumption ==
    /\ "joined" \notin ChatConn /\ "-1" \notin ChatConn /\ ChatSent \in Nat
    /\ ChatRoom \in Nat /\ ChatCrowd \in Nat /\ PollSlots \in Nat

\* p_and_c_demo.c defines BUF_SIZE as 5: the ring has a slot.  A
\* text may be blank.
ASSUME ServicesAssumption ==
    /\ RingSize \in Nat \ {0} /\ RingItems \in Nat
    /\ QueueTasks \in Nat
    /\ LoopToken \in Nat
    /\ TaskText \subseteq [words : Seq(STRING), pad : BOOLEAN] /\ TaskId \in Nat

\* A process has finitely many threads; an object is not nullptr.
ASSUME PtrAssumption == IsFiniteSet(PtrThread) /\ "null" \notin PtrObject

VARIABLES which,
    w_queue, w_send, w_recv, w_cur, w_ops, w_wire, w_accepted, w_ids, w_ends, w_failed, w_strayed,
    w_undef,
    c_fds, c_clients, c_at, c_i, c_events, c_j, c_sender, c_msg, c_peer, c_inbox, c_sent, c_got,
    c_current, c_audience, c_shifted, c_undef,
    p_slot, p_at, p_i, p_j, p_from, p_msg, p_peer, p_inbox, p_sent, p_got, p_audience, p_closed,
    q_head, q_tail, q_next, q_alive, q_stop, q_worker, q_task, q_added, q_joined, q_done,
    b_buffer, b_front, b_rear, b_mutex, b_slots, b_items, b_p, b_c, b_made, b_taken,
    e_next, e_waiting, e_epoll, e_batch, e_state, e_token, e_at, e_seen, e_stale,
    t_tasks, t_next, t_file, t_up, t_wanted, t_fresh, t_damaged,
    s_clientfd, s_maxi, s_read, s_ready, s_nready, s_at, s_i, s_rio, s_buf, s_peer, s_sock, s_sent,
    s_echoed, s_dropped,
    r_ptr, r_cnt, r_created, r_deletes, r_pending, r_raced,
    o_valid, o_state, o_pricing, o_command, o_charged, o_notices, o_tries, o_crashed

send == <<w_queue, w_send, w_recv, w_cur, w_ops, w_wire, w_accepted, w_ids, w_ends,
          w_failed, w_strayed, w_undef>>
chat == <<c_fds, c_clients, c_at, c_i, c_events, c_j, c_sender, c_msg, c_peer, c_inbox, c_sent,
          c_got, c_current, c_audience, c_shifted, c_undef>>
poll == <<p_slot, p_at, p_i, p_j, p_from, p_msg, p_peer, p_inbox, p_sent, p_got, p_audience,
          p_closed>>
queue == <<q_head, q_tail, q_next, q_alive, q_stop, q_worker, q_task, q_added, q_joined, q_done>>
buffer == <<b_buffer, b_front, b_rear, b_mutex, b_slots, b_items, b_p, b_c, b_made, b_taken>>
loop == <<e_next, e_waiting, e_epoll, e_batch, e_state, e_token, e_at, e_seen, e_stale>>
tasks == <<t_tasks, t_next, t_file, t_up, t_wanted, t_fresh, t_damaged>>
echo == <<s_clientfd, s_maxi, s_read, s_ready, s_nready, s_at, s_i, s_rio, s_buf, s_peer, s_sock,
          s_sent, s_echoed, s_dropped>>
shared == <<r_ptr, r_cnt, r_created, r_deletes, r_pending, r_raced>>
order == <<o_valid, o_state, o_pricing, o_command, o_charged, o_notices, o_tries, o_crashed>>

FewBytes == [a |-> 2, b |-> 1, c |-> 0]
PaddedTexts == {[words |-> <<"x", "y">>, pad |-> TRUE]}

Send == INSTANCE SendQueue WITH Size <- SendSize, MaxMsg <- SendMsgs, RECVSIZE <- RecvSize,
    queue <- w_queue, send_pending <- w_send, recv_pending <- w_recv, recv_cur <- w_cur,
    ops <- w_ops, wire <- w_wire, accepted <- w_accepted, ids <- w_ids, ends <- w_ends,
    failed <- w_failed, strayed <- w_strayed, undefined <- w_undef
Roomy == INSTANCE ChatServer WITH Conn <- ChatConn, MAX_CLIENTS <- ChatRoom, MaxSent <- ChatSent,
    fds <- c_fds, clients <- c_clients, at <- c_at, i <- c_i, events <- c_events, j <- c_j,
    sender <- c_sender, msg <- c_msg, peer <- c_peer, inbox <- c_inbox, sent <- c_sent,
    got <- c_got, current <- c_current, audience <- c_audience, shifted <- c_shifted,
    undefined <- c_undef
Full == INSTANCE ChatServer WITH Conn <- ChatConn, MAX_CLIENTS <- ChatCrowd, MaxSent <- ChatSent,
    fds <- c_fds, clients <- c_clients, at <- c_at, i <- c_i, events <- c_events, j <- c_j,
    sender <- c_sender, msg <- c_msg, peer <- c_peer, inbox <- c_inbox, sent <- c_sent,
    got <- c_got, current <- c_current, audience <- c_audience, shifted <- c_shifted,
    undefined <- c_undef
Slots == INSTANCE PollChat WITH Conn <- ChatConn, MAX_CLIENTS <- PollSlots, MaxSent <- ChatSent,
    slot <- p_slot, at <- p_at, i <- p_i, j <- p_j, from <- p_from, msg <- p_msg, peer <- p_peer,
    inbox <- p_inbox, sent <- p_sent, got <- p_got, audience <- p_audience, closed <- p_closed
Queue == INSTANCE TaskQueue WITH Tasks <- QueueTasks,
    head <- q_head, tail <- q_tail, next <- q_next, alive <- q_alive, stop <- q_stop,
    worker <- q_worker, task <- q_task, added <- q_added, joined <- q_joined, done <- q_done
Buffer == INSTANCE BoundedBuffer WITH BUF_SIZE <- RingSize, Items <- RingItems,
    buffer <- b_buffer, front <- b_front, rear <- b_rear, mutex <- b_mutex, slots <- b_slots,
    items <- b_items, p <- b_p, c <- b_c, made <- b_made, taken <- b_taken
Loop == INSTANCE EventLoop WITH Task <- LoopTask, Fd <- LoopFd, MaxToken <- LoopToken,
    next_token <- e_next, waiting <- e_waiting, epoll <- e_epoll, batch <- e_batch,
    state <- e_state, token <- e_token, at <- e_at, seen <- e_seen, stale <- e_stale
Tasks == INSTANCE TaskManager WITH Text <- TaskText, Priority <- TaskPriority, MaxId <- TaskId,
    tasks <- t_tasks, next_id <- t_next, file <- t_file, up <- t_up, wanted <- t_wanted,
    fresh <- t_fresh, damaged <- t_damaged
Echo == INSTANCE SelectEcho WITH Conn <- EchoConn, FD_SETSIZE <- EchoSlots, RIO_BUFSIZE <- EchoBuf,
    MaxBytes <- EchoBytes,
    clientfd <- s_clientfd, maxi <- s_maxi, read_set <- s_read, ready_set <- s_ready,
    nready <- s_nready, at <- s_at, i <- s_i, rio <- s_rio, buf <- s_buf, peer <- s_peer,
    sock <- s_sock, sent <- s_sent, echoed <- s_echoed, dropped <- s_dropped
Shared == INSTANCE SharedPtr WITH Thread <- PtrThread, Object <- PtrObject,
    ptr <- r_ptr, ref_cnt <- r_cnt, created <- r_created, deletes <- r_deletes,
    pending <- r_pending, raced <- r_raced
Order == INSTANCE Orders WITH
    valid <- o_valid, state <- o_state, pricing <- o_pricing, command <- o_command,
    charged <- o_charged, notices <- o_notices, tries <- o_tries, crashed <- o_crashed

Init ==
    /\ which \in {"send", "roomy", "full", "poll", "queue", "buffer", "loop", "tasks", "echo",
                 "shared", "order"}
    /\ Send!Init /\ Full!Init /\ Slots!Init /\ Queue!Init /\ Buffer!Init /\ Loop!Init
    /\ Tasks!Init /\ Echo!Init /\ Shared!Init /\ Order!Init
    /\ which # "order" => o_valid

Next ==
    /\ UNCHANGED which
    /\ \/ which = "send" /\ Send!Next
          /\ UNCHANGED <<chat, poll, queue, buffer, loop, tasks, echo, shared, order>>
       \/ which = "roomy" /\ Roomy!Next
          /\ UNCHANGED <<send, poll, queue, buffer, loop, tasks, echo, shared, order>>
       \/ which = "full" /\ Full!Next
          /\ UNCHANGED <<send, poll, queue, buffer, loop, tasks, echo, shared, order>>
       \/ which = "poll" /\ Slots!Next
          /\ UNCHANGED <<send, chat, queue, buffer, loop, tasks, echo, shared, order>>
       \/ which = "queue" /\ Queue!Next
          /\ UNCHANGED <<send, chat, poll, buffer, loop, tasks, echo, shared, order>>
       \/ which = "buffer" /\ Buffer!Next
          /\ UNCHANGED <<send, chat, poll, queue, loop, tasks, echo, shared, order>>
       \/ which = "loop" /\ Loop!Next
          /\ UNCHANGED <<send, chat, poll, queue, buffer, tasks, echo, shared, order>>
       \/ which = "tasks" /\ Tasks!Next
          /\ UNCHANGED <<send, chat, poll, queue, buffer, loop, echo, shared, order>>
       \/ which = "echo" /\ Echo!Next
          /\ UNCHANGED <<send, chat, poll, queue, buffer, loop, tasks, shared, order>>
       \/ which = "shared" /\ Shared!Next
          /\ UNCHANGED <<send, chat, poll, queue, buffer, loop, tasks, echo, order>>
       \/ which = "order" /\ Order!Next
          /\ UNCHANGED <<send, chat, poll, queue, buffer, loop, tasks, echo, shared>>

vars == <<which, send, chat, poll, queue, buffer, loop, tasks, echo, shared, order>>
Spec == Init /\ [][Next]_vars

-----------------------------------------------------------------------------
\* Byte streams.  session of base_asio: messages are sent whole, once and in
\* order, with one write outstanding, until a handler is misled about what was
\* sent (write2socket, write_callback, read_call_back).  echoservers.c: bytes
\* come back in order, none lost but those read past the end of a line, and the
\* walk over the pool skips no ready client (check_clients, rio_readlineb).
StreamsCorrect == Send!Correct /\ Echo!Correct

\* The chat servers: broadcasts reach everyone once although they remove
\* clients, and the walk stays on its client and never blocks; in chat_demo.cpp
\* as long as no removal moved the sender, in chat_poll.c always.
ChatCorrect == Full!Correct /\ Slots!Correct

\* c_tasks_queue.c and p_and_c_demo.c: no lost wakeup, no deadlock, no freed
\* node in the list, everything handed over in order (enqueue, dequeue,
\* producer, consumer).
QueuesCorrect == Queue!Correct /\ Buffer!Correct

\* EventLoop: one registration for each suspended coroutine and no event
\* resumes a wait it was not for (watch, cancel, run).
LoopCorrect == Loop!Correct

\* SimpleSharedPtr: nothing dangles or leaks, and a double delete needs two
\* releases that overlap.
SharedCorrect == Shared!Correct

\* Records.  task_manager: the file and every restart keep the tasks that the
\* commands describe, and ids stay unique (add, remove, update, save, load).
\* The order program: the money of an order is taken once at most, and exactly if
\* it is announced as paid (checkout, execute, undo).
RecordsCorrect == Tasks!Correct /\ Order!Correct
=============================================================================
