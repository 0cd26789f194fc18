----------------------------- MODULE ChatServer -----------------------------
(***************************************************************************)
(* The poll server of chat_demo.cpp.  One thread polls, accepts, and walks *)
(* the table from the back; a message that it reads is sent to the other   *)
(* clients in a loop that removes those it cannot reach.  clients_ and     *)
(* fds_ are vectors kept in step; position k here is fds_[k] and           *)
(* clients_[k - 1], the listening socket being fds_[0].                    *)
(*                                                                         *)
(* A removal below the sender moves the sender down, and with it what the  *)
(* index of the walk stands for: the history variable shifted.             *)
(***************************************************************************)
EXTENDS Naturals, Sequences, SequencesExt

CONSTANTS
    Conn,           \* the connections
    MAX_CLIENTS,
    MaxSent         \* bound on the messages of a connection

VARIABLES
    fds,            \* fds_[1..]: [fd, revents]
    clients,        \* clients_
    at,             \* where run() is
    i,              \* the index of run()
    events,         \* events of run()
    j, sender, msg, \* broadcast's loop, its sender and its message
    peer,           \* each peer: "new", "connecting", "open", "gone", "refused"
    inbox,          \* the messages that wait in each socket
    sent,           \* how many messages each peer has sent
    got,            \* what each peer was sent
    current,        \* history: the client that this turn of the walk is about
    audience,       \* history: the clients a message is meant for
    shifted,        \* history: see above, in this round of the walk
    undefined       \* the walk has used an index past the end

server == <<fds, clients, at, i, events, j, sender, msg>>
history == <<current, audience, shifted, undefined>>
net == <<peer, inbox, sent, got>>
vars == <<server, net, history>>

Nobody == "nobody"

Init ==
    /\ fds = <<>> /\ clients = <<>>
    /\ at = "poll" /\ i = 0 /\ events = {}
    /\ j = 0 /\ sender = 0 /\ msg = <<>>
    /\ peer = [c \in Conn |-> "new"] /\ inbox = [c \in Conn |-> <<>>]
    /\ sent = [c \in Conn |-> 0] /\ got = [c \in Conn |-> <<>>]
    /\ current = Nobody /\ audience = {} /\ shifted = FALSE /\ undefined = FALSE

-----------------------------------------------------------------------------
(* The peers. *)

Connect(c) ==
    /\ peer[c] = "new"
    /\ peer' = [peer EXCEPT ![c] = "connecting"]
    /\ UNCHANGED <<server, history, inbox, sent, got>>

Say(c) ==
    /\ peer[c] = "open" /\ sent[c] < MaxSent
    /\ sent' = [sent EXCEPT ![c] = @ + 1]
    /\ inbox' = [inbox EXCEPT ![c] = Append(@, <<c, sent[c] + 1>>)]
    /\ UNCHANGED <<server, history, peer, got>>

Leave(c) ==
    /\ peer[c] = "open"
    /\ peer' = [peer EXCEPT ![c] = "gone"]
    /\ UNCHANGED <<server, history, inbox, sent, got>>

-----------------------------------------------------------------------------
(* The server. *)

\* What poll may report of a socket: a hangup only once its peer has gone.
Reports(c) ==
    LET in == IF inbox[c] # <<>> \/ peer[c] = "gone" THEN {"POLLIN"} ELSE {}
    IN  {in} \cup (IF peer[c] = "gone" THEN {in \cup {"POLLHUP"}} ELSE {})

\* accept_client, when a connection waits.
accept_client(table) ==
    \/ /\ \A c \in Conn : peer[c] # "connecting"
       /\ fds' = table /\ UNCHANGED <<clients, peer>>
    \/ \E c \in Conn :
         /\ peer[c] = "connecting"
         /\ IF Len(clients) >= MAX_CLIENTS
            THEN /\ peer' = [peer EXCEPT ![c] = "refused"]
                 /\ fds' = table /\ UNCHANGED clients
            ELSE /\ peer' = [peer EXCEPT ![c] = "open"]
                 /\ clients' = Append(clients, c)
                 /\ fds' = Append(table, [fd |-> c, revents |-> {}])

Poll ==
    /\ at = "poll"
    /\ \/ \E c \in Conn : peer[c] = "connecting"
       \/ \E k \in 1..Len(fds) : Reports(fds[k].fd) # {{}}
    /\ \E report \in [1..Len(fds) -> SUBSET {"POLLIN", "POLLHUP"}] :
         /\ \A k \in 1..Len(fds) : report[k] \in Reports(fds[k].fd)
         /\ accept_client([k \in 1..Len(fds) |-> [fds[k] EXCEPT !.revents = report[k]]])
    /\ at' = "walk" /\ i' = Len(fds') + 1
    /\ shifted' = FALSE
    /\ UNCHANGED <<events, j, sender, msg, inbox, sent, got, current, audience, undefined>>

\* The test of the walk, i-- > 1, and the load of revents.
Walk ==
    /\ at = "walk"
    /\ IF i > 1
       THEN /\ i' = i - 1
            /\ IF i' > Len(fds)
               THEN undefined' = TRUE /\ at' = "lost" /\ UNCHANGED <<events, current>>
               ELSE /\ at' = "turn" /\ events' = fds[i'].revents
                    /\ current' = fds[i'].fd /\ UNCHANGED undefined
       ELSE at' = "poll" /\ i' = 0 /\ events' = {} /\ current' = Nobody /\ UNCHANGED undefined
    /\ UNCHANGED <<net, fds, clients, j, sender, msg, audience, shifted>>

remove_client(k) ==
    /\ clients' = RemoveAt(clients, k)
    /\ fds' = RemoveAt(fds, k)

\* read_client: recv returns a message, the end of the stream, or EINTR; with
\* nothing to read and the peer still there it blocks.
read_client ==
    /\ at = "turn" /\ "POLLIN" \in events
    /\ LET c == fds[i].fd
       IN  \/ /\ inbox[c] # <<>>
              /\ inbox' = [inbox EXCEPT ![c] = Tail(@)]
              /\ at' = "broadcast" /\ j' = 1 /\ sender' = i /\ msg' = inbox[c][1]
              /\ audience' = {fds[k].fd : k \in (1..Len(fds)) \ {i}}
              /\ UNCHANGED <<fds, clients>>
           \/ /\ inbox[c] = <<>> /\ peer[c] = "gone"
              /\ remove_client(i) /\ at' = "walk"
              /\ UNCHANGED <<inbox, j, sender, msg, audience>>
           \/ /\ inbox[c] = <<>> /\ peer[c] = "open"      \* interrupted
              /\ at' = "hangup"
              /\ UNCHANGED <<fds, clients, inbox, j, sender, msg, audience>>
    /\ UNCHANGED <<i, events, peer, sent, got, current, shifted, undefined>>

NoRead ==
    /\ at = "turn" /\ "POLLIN" \notin events
    /\ at' = "hangup"
    /\ UNCHANGED <<fds, clients, i, events, j, sender, msg, net, history>>

Follow_not(k) == sender

\* Where the sender is once position k has been removed.
Follow(k) == IF k < sender THEN sender - 1 ELSE sender

\* One turn of broadcast's loop.
broadcast ==
    /\ at = "broadcast" /\ j <= Len(fds)
    /\ \/ j = sender /\ j' = j + 1 /\ UNCHANGED <<fds, clients, sender, got, shifted>>
       \/ /\ j # sender
          /\ got' = [got EXCEPT ![fds[j].fd] = Append(@, msg)]
          /\ j' = j + 1 /\ UNCHANGED <<fds, clients, sender, shifted>>
       \/ /\ j # sender /\ peer[fds[j].fd] = "gone"       \* send_all fails
          /\ remove_client(j)
          /\ sender' = Follow(j)
          /\ shifted' = (shifted \/ j < sender)
          /\ UNCHANGED <<j, got>>
    /\ UNCHANGED <<at, i, events, msg, peer, inbox, sent, current, audience, undefined>>

BroadcastEnds ==
    /\ at = "broadcast" /\ j > Len(fds)
    /\ at' = "hangup"
    /\ UNCHANGED <<fds, clients, i, events, j, sender, msg, net, history>>

\* The second test of a turn, with the events as they were and the index.
Hangup ==
    /\ at = "hangup"
    /\ IF "POLLHUP" \notin events
       THEN at' = "walk" /\ UNCHANGED <<fds, clients, undefined>>
       ELSE IF i > Len(fds)
            THEN undefined' = TRUE /\ at' = "lost" /\ UNCHANGED <<fds, clients>>
            ELSE remove_client(i) /\ at' = "walk" /\ UNCHANGED undefined
    /\ msg' = <<>> /\ audience' = {}
    /\ UNCHANGED <<i, events, j, sender, net, current, shifted>>

Next ==
    \/ \E c \in Conn : Connect(c) \/ Say(c) \/ Leave(c)
    \/ Poll \/ Walk \/ read_client \/ NoRead \/ broadcast \/ BroadcastEnds \/ Hangup

-----------------------------------------------------------------------------
Listed(table) == {table[k].fd : k \in 1..Len(table)}
Places(c, m) == {k \in 1..Len(got[c]) : got[c][k] = m}

\* clients_ and fds_ stay in step.  A message is sent once to every client that
\* is still there when its broadcast ends and never to its sender, whoever the
\* broadcast removed on its way.  As long as no broadcast of the round removed
\* a client below its sender, the index of the walk denotes the client it is
\* about, and recv is called only where poll has found something, so the walk
\* neither blocks nor leaves the table.
Correct ==
    /\ clients = [k \in 1..Len(fds) |-> fds[k].fd]
    /\ \A k, l \in 1..Len(fds) : fds[k].fd = fds[l].fd => k = l
    /\ msg # <<>> => /\ Places(msg[1], msg) = {}
                     /\ \A c \in Conn : \A k, l \in Places(c, msg) : k = l
                     /\ at = "hangup" => \A c \in audience \cap Listed(fds) : Places(c, msg) # {}
    /\ \/ shifted
       \/ /\ ~undefined
          /\ at \in {"turn", "broadcast", "hangup"} => i <= Len(fds) /\ fds[i].fd = current
          /\ at = "turn" /\ "POLLIN" \in events =>
               inbox[current] # <<>> \/ peer[current] = "gone"
=============================================================================
