------------------------------ MODULE PollChat ------------------------------
(***************************************************************************)
(* The server of chat_poll.c: a fixed array of slots, fd = -1 for a free   *)
(* one, so that nothing moves when a client goes.  Every turn reads the    *)
(* slot again, which is why a broadcast may close any of them.             *)
(***************************************************************************)
EXTENDS Naturals, Sequences

CONSTANTS
    Conn,           \* the connections
    MAX_CLIENTS,    \* the number of slots
    MaxSent         \* bound on the messages of a connection

VARIABLES
    slot,           \* fds[1..MAX_CLIENTS]: [fd, revents]
    at, i,          \* where server() is and its index
    j, from, msg,   \* broadcast's loop, the slot it leaves out and its message
    peer,           \* each peer: "new", "connecting", "open", "gone", "refused"
    inbox,          \* the messages that wait in each socket
    sent,           \* how many messages each peer has sent
    got,            \* what each peer was sent
    audience,       \* history: the clients a message is meant for
    closed          \* history: how often each connection was closed

server == <<slot, at, i, j, from, msg>>
vars == <<server, peer, inbox, sent, got, audience, closed>>

Free == "-1"
Slots == 1..MAX_CLIENTS

Init ==
    /\ slot = [k \in Slots |-> [fd |-> Free, revents |-> {}]]
    /\ at = "poll" /\ i = 0 /\ j = 0 /\ from = 0 /\ msg = <<>>
    /\ peer = [c \in Conn |-> "new"] /\ inbox = [c \in Conn |-> <<>>]
    /\ sent = [c \in Conn |-> 0] /\ got = [c \in Conn |-> <<>>]
    /\ audience = {} /\ closed = [c \in Conn |-> 0]

Connect(c) ==
    /\ peer[c] = "new"
    /\ peer' = [peer EXCEPT ![c] = "connecting"]
    /\ UNCHANGED <<server, inbox, sent, got, audience, closed>>

Say(c) ==
    /\ peer[c] = "open" /\ sent[c] < MaxSent
    /\ sent' = [sent EXCEPT ![c] = @ + 1]
    /\ inbox' = [inbox EXCEPT ![c] = Append(@, <<c, sent[c] + 1>>)]
    /\ UNCHANGED <<server, peer, got, audience, closed>>

Leave(c) ==
    /\ peer[c] = "open"
    /\ peer' = [peer EXCEPT ![c] = "gone"]
    /\ UNCHANGED <<server, inbox, sent, got, audience, closed>>

Used(table) == {k \in Slots : table[k].fd # Free}
Clients(table) == {table[k].fd : k \in Used(table)}

Reports(c) ==
    LET in == IF inbox[c] # <<>> \/ peer[c] = "gone" THEN {"POLLIN"} ELSE {}
    IN  {in} \cup (IF peer[c] = "gone" THEN {in \cup {"POLLHUP"}} ELSE {})

\* poll sets every revents, to nothing where the slot is free.
Polled(table) ==
    /\ \A k \in Slots : table[k].fd = slot[k].fd
    /\ \A k \in Used(slot) : table[k].revents \in Reports(slot[k].fd)
    /\ \A k \in Slots \ Used(slot) : table[k].revents = {}

begin_broadcast(leftOut, m, table) ==
    /\ at' = "broadcast" /\ j' = 1 /\ from' = leftOut /\ msg' = m
    /\ audience' = {table[k].fd : k \in Used(table) \ {leftOut}}

\* poll, and accept when a connection waits: the first free slot, or a refusal
\* that goes straight back to poll.
Poll ==
    /\ at = "poll"
    /\ \E table \in [Slots -> [fd : Conn \cup {Free}, revents : SUBSET {"POLLIN", "POLLHUP"}]] :
         /\ Polled(table)
         /\ \/ /\ \A c \in Conn : peer[c] # "connecting"
               /\ \E k \in Slots : table[k].revents # {}
               /\ slot' = table /\ at' = "walk" /\ i' = 1
               /\ UNCHANGED <<peer, j, from, msg, audience, closed>>
            \/ \E c \in Conn, k \in Slots :
                 /\ peer[c] = "connecting"
                 /\ k \notin Used(slot) /\ \A l \in 1..(k - 1) : l \in Used(slot)
                 /\ slot' = [table EXCEPT ![k] = [fd |-> c, revents |-> {}]]
                 /\ peer' = [peer EXCEPT ![c] = "open"]
                 /\ begin_broadcast(0, <<"joined", c>>, slot') /\ i' = 0
                 /\ UNCHANGED closed
            \/ \E c \in Conn :
                 /\ peer[c] = "connecting" /\ Used(slot) = Slots
                 /\ slot' = table
                 /\ peer' = [peer EXCEPT ![c] = "refused"]
                 /\ closed' = [closed EXCEPT ![c] = @ + 1]
                 /\ UNCHANGED <<at, i, j, from, msg, audience>>
    /\ UNCHANGED <<inbox, sent, got>>

Close(k) ==
    /\ closed' = [closed EXCEPT ![slot[k].fd] = @ + 1]
    /\ slot' = [slot EXCEPT ![k].fd = Free]

skips_stale(k) == slot[k].revents = {}

\* The test in front of a turn.
skips(k) == slot[k].fd = Free \/ slot[k].revents = {}

Turn ==
    /\ at = "walk" /\ i <= MAX_CLIENTS
    /\ \/ skips(i) /\ i' = i + 1 /\ UNCHANGED <<slot, inbox, closed, at, j, from, msg, audience>>
       \/ /\ ~skips(i) /\ "POLLHUP" \in slot[i].revents
          /\ Close(i) /\ i' = i + 1
          /\ UNCHANGED <<inbox, at, j, from, msg, audience>>
       \/ /\ ~skips(i) /\ slot[i].revents = {"POLLIN"}
          /\ LET c == slot[i].fd
             IN  \/ /\ inbox[c] = <<>> /\ peer[c] = "gone"
                    /\ Close(i) /\ i' = i + 1
                    /\ UNCHANGED <<inbox, at, j, from, msg, audience>>
                 \/ /\ inbox[c] # <<>>
                    /\ inbox' = [inbox EXCEPT ![c] = Tail(@)]
                    /\ begin_broadcast(i, inbox[c][1], slot)
                    /\ UNCHANGED <<slot, i, closed>>
    /\ UNCHANGED <<peer, sent, got>>

\* One slot of broadcast's loop.
broadcast ==
    /\ at = "broadcast" /\ j <= MAX_CLIENTS /\ j' = j + 1
    /\ \/ /\ slot[j].fd = Free \/ j = from
          /\ UNCHANGED <<slot, got, closed>>
       \/ /\ slot[j].fd # Free /\ j # from
          /\ got' = [got EXCEPT ![slot[j].fd] = Append(@, msg)]
          /\ UNCHANGED <<slot, closed>>
       \/ /\ slot[j].fd # Free /\ j # from /\ peer[slot[j].fd] = "gone"
          /\ Close(j) /\ UNCHANGED got
    /\ UNCHANGED <<at, i, from, msg, peer, inbox, sent, audience>>

BroadcastEnds ==
    /\ at = "broadcast" /\ j > MAX_CLIENTS
    /\ at' = "walk" /\ i' = i + 1
    /\ msg' = <<>> /\ audience' = {}
    /\ UNCHANGED <<slot, j, from, peer, inbox, sent, got, closed>>

WalkEnds ==
    /\ at = "walk" /\ i > MAX_CLIENTS
    /\ at' = "poll" /\ i' = 0
    /\ UNCHANGED <<slot, j, from, msg, peer, inbox, sent, got, audience, closed>>

Next ==
    \/ \E c \in Conn : Connect(c) \/ Say(c) \/ Leave(c)
    \/ Poll \/ Turn \/ WalkEnds \/ broadcast \/ BroadcastEnds

-----------------------------------------------------------------------------
Places(c, m) == {k \in 1..Len(got[c]) : got[c][k] = m}

\* Whatever a broadcast closes while the walk is under way: recv is called only
\* on an open socket with something to return, each descriptor is closed at most
\* once and only while it is in no slot, and a message reaches once every client
\* that is still there, without its sender.
Correct ==
    /\ at = "walk" /\ i \in Slots /\ ~skips(i) =>
         /\ slot[i].fd # Free
         /\ inbox[slot[i].fd] # <<>> \/ peer[slot[i].fd] = "gone"
    /\ \A k, l \in Used(slot) : slot[k].fd = slot[l].fd => k = l
    /\ \A c \in Conn : closed[c] <= 1 /\ (closed[c] = 1 => c \notin Clients(slot))
    /\ msg # <<>> => /\ from # 0 => Places(msg[1], msg) = {}
                     /\ \A c \in Conn : \A k, l \in Places(c, msg) : k = l
                     /\ at = "broadcast" /\ j > MAX_CLIENTS =>
                          \A c \in audience \cap Clients(slot) : Places(c, msg) # {}
=============================================================================
