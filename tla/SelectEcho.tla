----------------------------- MODULE SelectEcho -----------------------------
(***************************************************************************)
(* echoservers.c: an echo server on select with a pool of clients, and the *)
(* buffered line reader of csapp.c that it uses.  check_clients reads with *)
(* a copy of the client's rio_t that it never stores back, so what the     *)
(* copy has read past the end of the line is gone: the history variable    *)
(* dropped.  A line is shorter than MAXLINE.                               *)
(***************************************************************************)
EXTENDS Integers, Sequences, FiniteSets

CONSTANTS
    Conn,           \* the connections, named by their descriptors
    FD_SETSIZE,     \* the number of slots
    RIO_BUFSIZE,    \* how much one read may return
    MaxBytes        \* bound on the bytes each peer sends

VARIABLES
    clientfd, maxi, read_set, ready_set, nready,    \* the pool
    at, i,          \* where the server is, and the index of check_clients
    rio,            \* the unread bytes of the local rio_t
    buf,            \* the line read so far
    peer,           \* each peer: "new", "connecting", "open", "gone", "reset", "closed"
    sock,           \* the bytes that wait in each socket
    sent,           \* history: the bytes each peer has sent, [nr, newline]
    echoed,         \* the bytes sent back to each peer
    dropped         \* history: see above

pool == <<clientfd, maxi, read_set, ready_set, nready>>
vars == <<pool, at, i, rio, buf, peer, sock, sent, echoed, dropped>>

Free == "-1"
Slot == 0..(FD_SETSIZE - 1)

\* init_pool; the listening socket is not listed in the sets.
Init ==
    /\ clientfd = [k \in Slot |-> Free] /\ maxi = -1
    /\ read_set = {} /\ ready_set = {} /\ nready = 0
    /\ at = "select" /\ i = 0 /\ rio = <<>> /\ buf = <<>>
    /\ peer = [c \in Conn |-> "new"]
    /\ sock = [c \in Conn |-> <<>>] /\ sent = [c \in Conn |-> <<>>]
    /\ echoed = [c \in Conn |-> <<>>] /\ dropped = [c \in Conn |-> <<>>]

Connect(c) ==
    /\ peer[c] = "new" /\ peer' = [peer EXCEPT ![c] = "connecting"]
    /\ UNCHANGED <<pool, at, i, rio, buf, sock, sent, echoed, dropped>>

Say(c, newline) ==
    /\ peer[c] = "open" /\ Len(sent[c]) < MaxBytes[c]
    /\ LET byte == [nr |-> Len(sent[c]) + 1, newline |-> newline]
       IN  /\ sent' = [sent EXCEPT ![c] = Append(@, byte)]
           /\ sock' = [sock EXCEPT ![c] = Append(@, byte)]
    /\ UNCHANGED <<pool, at, i, rio, buf, peer, echoed, dropped>>

Leave(c, how) ==
    /\ peer[c] = "open" /\ peer' = [peer EXCEPT ![c] = how]
    /\ UNCHANGED <<pool, at, i, rio, buf, sock, sent, echoed, dropped>>

Readable == {c \in read_set : sock[c] # <<>> \/ peer[c] \in {"gone", "reset"}}

\* add_client: the first free slot, or app_error, which ends the process.
add_client(c) ==
    LET free == {k \in Slot : clientfd[k] = Free}
        k == CHOOSE n \in free : \A l \in free : n <= l
    IN  IF free = {}
        THEN at' = "dead" /\ UNCHANGED <<clientfd, read_set, maxi, peer>>
        ELSE /\ clientfd' = [clientfd EXCEPT ![k] = c]
             /\ read_set' = read_set \cup {c}
             /\ maxi' = IF k > maxi THEN k ELSE maxi
             /\ peer' = [peer EXCEPT ![c] = "open"]
             /\ at' = "check"

\* Select, and Accept when a connection waits.
Select ==
    /\ at = "select"
    /\ ready_set' = Readable
    /\ i' = 0
    /\ \/ /\ \A c \in Conn : peer[c] # "connecting"
          /\ Readable # {} /\ nready' = Cardinality(Readable)
          /\ at' = "check" /\ UNCHANGED <<clientfd, maxi, read_set, peer>>
       \/ \E c \in Conn :
            /\ peer[c] = "connecting" /\ nready' = (Cardinality(Readable) + 1) - 1
            /\ add_client(c)
    /\ UNCHANGED <<rio, buf, sock, sent, echoed, dropped>>

\* The head of check_clients' loop.
check_clients ==
    /\ at = "check"
    /\ IF i > maxi \/ nready <= 0
       THEN at' = "select" /\ UNCHANGED <<i, nready>>
       ELSE IF clientfd[i] # Free /\ clientfd[i] \in ready_set
            THEN at' = "line" /\ nready' = nready - 1 /\ UNCHANGED i
            ELSE i' = i + 1 /\ UNCHANGED <<at, nready>>
    /\ rio' = <<>> /\ buf' = <<>>
    /\ UNCHANGED <<clientfd, maxi, read_set, ready_set, peer, sock, sent, echoed, dropped>>

Client == clientfd[i]

\* rio_read refills the empty buffer; while the line is not complete and the
\* peer is silent, the whole server waits here.
Refill ==
    /\ at = "line" /\ rio = <<>> /\ sock[Client] # <<>> /\ peer[Client] # "reset"
    /\ LET k == IF Len(sock[Client]) < RIO_BUFSIZE THEN Len(sock[Client]) ELSE RIO_BUFSIZE
       IN  /\ rio' = SubSeq(sock[Client], 1, k)
           /\ sock' = [sock EXCEPT ![Client] = SubSeq(@, k + 1, Len(@))]
    /\ UNCHANGED <<pool, at, i, buf, peer, sent, echoed, dropped>>

\* Rio_writen of the line, and on to the next slot without the rest of rio.  The
\* write to a peer that has left may fail, which ends the process.
Echo(line, rest) ==
    \/ /\ echoed' = [echoed EXCEPT ![Client] = @ \o line]
       /\ dropped' = [dropped EXCEPT ![Client] = @ \o rest]
       /\ at' = "check" /\ i' = i + 1 /\ rio' = <<>> /\ buf' = <<>>
    \/ /\ peer[Client] # "open"
       /\ at' = "dead" /\ UNCHANGED <<i, rio, buf, echoed, dropped>>

\* One turn of rio_readlineb's loop with a byte at hand.
rio_readlineb ==
    /\ at = "line" /\ rio # <<>>
    /\ IF Head(rio).newline
       THEN Echo(Append(buf, Head(rio)), Tail(rio))
       ELSE /\ buf' = Append(buf, Head(rio)) /\ rio' = Tail(rio)
            /\ UNCHANGED <<at, i, echoed, dropped>>
    /\ UNCHANGED <<pool, peer, sock, sent>>

\* read returns 0: what there is of a line is echoed, and without any the
\* client leaves the pool.
EndOfFile ==
    /\ at = "line" /\ rio = <<>> /\ sock[Client] = <<>> /\ peer[Client] = "gone"
    /\ IF buf # <<>>
       THEN Echo(buf, <<>>) /\ UNCHANGED <<clientfd, read_set, peer>>
       ELSE /\ clientfd' = [clientfd EXCEPT ![i] = Free]
            /\ read_set' = read_set \ {Client}
            /\ peer' = [peer EXCEPT ![Client] = "closed"]
            /\ at' = "check" /\ i' = i + 1 /\ UNCHANGED <<rio, buf, echoed, dropped>>
    /\ UNCHANGED <<maxi, ready_set, nready, sock, sent>>

\* The capitalised wrappers end the process on an error.
unix_error ==
    /\ at = "line" /\ rio = <<>> /\ peer[Client] = "reset"
    /\ at' = "dead"
    /\ UNCHANGED <<pool, i, rio, buf, peer, sock, sent, echoed, dropped>>

Next ==
    \/ \E c \in Conn : \/ Connect(c) \/ Leave(c, "gone") \/ Leave(c, "reset")
                       \/ \E newline \in BOOLEAN : Say(c, newline)
    \/ Select \/ check_clients \/ Refill \/ rio_readlineb \/ EndOfFile \/ unix_error

-----------------------------------------------------------------------------
Ahead(from) == {k \in from..maxi : clientfd[k] # Free /\ clientfd[k] \in ready_set}
InHand(c) == IF at \in {"line", "dead"} /\ i \in Slot /\ Client = c THEN buf \o rio ELSE <<>>

\* nready counts the ready clients that the walk has still to meet, so stopping
\* at zero skips none, and the slots, read_set and maxi agree.  A peer is sent
\* its own bytes in order, and all of them but those a read has taken along
\* past the end of a line.
Correct ==
    /\ at \in {"check", "line"} =>
         nready = Cardinality(Ahead(IF at = "line" THEN i + 1 ELSE i))
    /\ read_set = {clientfd[k] : k \in Slot} \ {Free}
    /\ \A k \in Slot : clientfd[k] # Free => k <= maxi
    /\ \A c \in Conn :
         /\ dropped[c] = <<>> => echoed[c] \o InHand(c) \o sock[c] = sent[c]
         /\ \A k, l \in 1..Len(echoed[c]) : k < l => echoed[c][k].nr < echoed[c][l].nr
=============================================================================
