----------------------------- MODULE SendQueue -----------------------------
(***************************************************************************)
(* The asio session of base_asio/session.cpp: messages are queued and one  *)
(* asynchronous write at a time sends the front one, as often as short     *)
(* writes make it necessary.  A byte is <<message, offset>>.               *)
(*                                                                         *)
(* Two paths leave that discipline: a short read is continued with         *)
(* write_callback as its handler, and write_all_callback takes the front   *)
(* off the queue without looking at how much of it was sent.  The history  *)
(* variable strayed says that one of them was taken.                       *)
(***************************************************************************)
EXTENDS Naturals, Sequences, FiniteSets

CONSTANTS
    Size,           \* the sizes of messages
    MaxMsg,         \* bound on the messages of one behaviour
    RECVSIZE        \* the size of the receive buffer

VARIABLES
    queue,          \* _send_queue: nodes [id, cur, total]
    send_pending,   \* _send_pending
    recv_pending,   \* _recv_pending
    recv_cur,       \* _recv_node->_cur_len
    ops,            \* the outstanding operations, with their handlers
    wire,           \* the bytes the socket has taken, in order
    accepted,       \* history: the bytes of every message, in order of the calls
    ids,            \* history: the messages so far
    ends,           \* history: where each message ends in accepted
    failed,         \* history: a write has failed
    strayed,        \* history: see above
    undefined       \* front() or pop() of an empty queue: anything may follow

vars == <<queue, send_pending, recv_pending, recv_cur, ops, wire, accepted, ids, ends,
          failed, strayed, undefined>>

Init ==
    /\ queue = <<>> /\ send_pending = FALSE
    /\ recv_pending = FALSE /\ recv_cur = 0
    /\ ops = {}
    /\ wire = <<>> /\ accepted = <<>> /\ ids = 0 /\ ends = <<>>
    /\ failed = FALSE /\ strayed = FALSE /\ undefined = FALSE

Bytes(id, from, to) == [k \in 1..(to - from) |-> <<id, from + k>>]
Rest(node) == Bytes(node.id, node.cur, node.total)

\* An asynchronous write of the bytes that node still has to send; nr tells
\* apart the operations that are outstanding at the same time.
Write(handler, node, nr) ==
    [handler |-> handler, data |-> Rest(node), nr |-> nr]
Fresh(set) == CHOOSE n \in 0..Cardinality(set) : \A op \in set : op.nr # n

Enqueue(size) ==
    /\ ids < MaxMsg /\ ~undefined
    /\ ids' = ids + 1
    /\ accepted' = accepted \o Bytes(ids', 0, size)
    /\ ends' = Append(ends, Len(accepted'))
    /\ queue' = Append(queue, [id |-> ids', cur |-> 0, total |-> size])
    /\ send_pending' = TRUE
    /\ UNCHANGED <<recv_pending, recv_cur, wire, failed, strayed, undefined>>

write2socket_always(size) ==
    /\ Enqueue(size)
    /\ ops' = ops \cup {Write("write_callback", Head(queue'), Fresh(ops))}

write2socket(size) ==
    /\ Enqueue(size)
    /\ ops' = IF send_pending THEN ops
              ELSE ops \cup {Write("write_callback", Head(queue'), Fresh(ops))}

\* async_send is given the caller's string: the new message, not the front.
write_all_to_socket(size) ==
    /\ Enqueue(size)
    /\ ops' = IF send_pending THEN ops
              ELSE ops \cup {Write("write_all_callback", queue'[Len(queue')], Fresh(ops))}

\* The queue q, sent as far as it says: go on with its front, or be idle.
SendFront(q, others) ==
    /\ queue' = q
    /\ send_pending' = IF q = <<>> THEN FALSE ELSE send_pending
    /\ ops' = IF q = <<>> THEN others
              ELSE others \cup {Write("write_callback", q[1], Fresh(others))}

\* write_callback with no error and n bytes; others are the operations that
\* stay outstanding.
write_callback(n, others) ==
    IF queue = <<>>
    THEN undefined' = TRUE /\ ops' = others /\ UNCHANGED <<queue, send_pending>>
    ELSE LET cur == queue[1].cur + n
         IN  /\ SendFront(IF cur < queue[1].total THEN [queue EXCEPT ![1].cur = cur]
                          ELSE Tail(queue), others)
             /\ UNCHANGED undefined

write_all_callback(others) ==
    IF queue = <<>>
    THEN undefined' = TRUE /\ ops' = others /\ UNCHANGED <<queue, send_pending>>
    ELSE SendFront(Tail(queue), others) /\ UNCHANGED undefined

\* The socket takes n bytes of an outstanding write and runs its handler.
WriteCompletes(op, n) ==
    /\ op.handler \in {"write_callback", "write_all_callback"} /\ n \in 1..Len(op.data)
    /\ wire' = wire \o SubSeq(op.data, 1, n)
    /\ \/ op.handler = "write_callback" /\ write_callback(n, ops \ {op}) /\ UNCHANGED strayed
       \/ /\ op.handler = "write_all_callback"
          /\ write_all_callback(ops \ {op})
          /\ strayed' = (strayed \/ n < Len(op.data))
    /\ UNCHANGED <<recv_pending, recv_cur, accepted, ids, ends, failed>>

\* Both handlers return on an error: the queue stays and no write is started.
WriteFails(op) ==
    /\ op.handler \in {"write_callback", "write_all_callback"}
    /\ failed' = TRUE /\ ops' = ops \ {op}
    /\ UNCHANGED <<queue, send_pending, recv_pending, recv_cur, wire, accepted, ids, ends,
                   strayed, undefined>>

\* read_from_socket and read_all_from_socket differ in the name of the call.
read_from_socket ==
    /\ ~recv_pending /\ ~undefined
    /\ recv_pending' = TRUE /\ recv_cur' = 0
    /\ ops' = ops \cup {[handler |-> "read_call_back", data |-> <<>>, nr |-> Fresh(ops)]}
    /\ UNCHANGED <<queue, send_pending, wire, accepted, ids, ends, failed, strayed, undefined>>

\* n bytes arrive, or none because the read failed, which is not looked at.
read_call_back(op, n) ==
    /\ op.handler = "read_call_back" /\ n \in 0..(RECVSIZE - recv_cur)
    /\ recv_cur' = recv_cur + n
    /\ recv_pending' = (recv_cur' < RECVSIZE)
    /\ ops' = IF recv_cur' < RECVSIZE
              THEN (ops \ {op}) \cup {[op EXCEPT !.handler = "continued read"]}
              ELSE ops \ {op}
    /\ UNCHANGED <<queue, send_pending, wire, accepted, ids, ends, failed, strayed, undefined>>

\* The rest of the read ends in write_callback, with the bytes that were read.
ContinuedRead(op, n) ==
    /\ op.handler = "continued read" /\ n \in 1..(RECVSIZE - recv_cur)
    /\ strayed' = TRUE
    /\ write_callback(n, ops \ {op})
    /\ UNCHANGED <<recv_pending, recv_cur, wire, accepted, ids, ends, failed>>

ContinuedReadFails(op) ==
    /\ op.handler = "continued read"
    /\ ops' = ops \ {op}
    /\ UNCHANGED <<queue, send_pending, recv_pending, recv_cur, wire, accepted, ids, ends,
                   failed, strayed, undefined>>

Next ==
    \/ \E size \in Size : write2socket(size) \/ write_all_to_socket(size)
    \/ read_from_socket
    \/ /\ ~undefined
       /\ \E op \in ops :
            \/ \E n \in 1..Len(op.data) : WriteCompletes(op, n)
            \/ WriteFails(op)
            \/ \E n \in 0..RECVSIZE : read_call_back(op, n) \/ ContinuedRead(op, n)
            \/ ContinuedReadFails(op)

-----------------------------------------------------------------------------
Writes == {op \in ops : op.handler \in {"write_callback", "write_all_callback"}}

\* Where in accepted the bytes begin that the j-th node has still to send, and
\* those of the node before it end.
Cut(j) == IF j = 1 THEN Len(wire) ELSE ends[queue[j - 1].id]

\* Until a handler is misled about what was sent, nothing is lost, repeated or
\* overtaken: what was accepted is what the socket has taken and then the rest
\* of each queued message, in order.  One write is outstanding while messages
\* wait and the socket works, and it sends the front of the queue.  A failed
\* write leaves the session pending for good.
Correct ==
    \/ strayed
    \/ /\ Len(wire) <= Len(accepted) /\ wire = SubSeq(accepted, 1, Len(wire))
       /\ \A j \in 1..Len(queue) : Rest(queue[j]) = SubSeq(accepted, Cut(j) + 1, Cut(j + 1))
       /\ Cut(Len(queue) + 1) = Len(accepted)
       /\ send_pending <=> queue # <<>>
       /\ Cardinality(Writes) = IF send_pending /\ ~failed THEN 1 ELSE 0
       /\ \A op \in Writes : op.data = Rest(queue[1])
       /\ ~undefined
=============================================================================
