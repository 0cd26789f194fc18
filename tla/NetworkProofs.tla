---------------------------- MODULE NetworkProofs ----------------------------
(***************************************************************************)
(* Proofs about the small servers: the chat server with a vector of        *)
(* clients and the one with an array of slots, the session with a send     *)
(* queue and the echo server on select, each with its inductive invariant. *)
(***************************************************************************)
EXTENDS Integers, MCServices, SequenceTheorems, FiniteSetTheorems, NaturalsInduction,
        WellFoundedInduction, TLAPS

-----------------------------------------------------------------------------
(* The vector chat server. *)

Event == {"POLLIN", "POLLHUP"}
Said == ChatConn \X Nat
Row == [fd : ChatConn, revents : SUBSET Event]

ChatType ==
    /\ c_fds \in Seq(Row)
    /\ c_at \in {"poll", "walk", "turn", "broadcast", "hangup", "lost"}
    /\ c_i \in Nat /\ c_j \in Nat /\ c_sender \in Nat
    /\ c_msg \in Said \cup {<<>>}
    /\ c_peer \in [ChatConn -> {"new", "connecting", "open", "gone", "refused"}]
    /\ c_inbox \in [ChatConn -> Seq(Said)] /\ c_got \in [ChatConn -> Seq(Said)]
    /\ c_sent \in [ChatConn -> Nat]

\* clients_ and fds_ are in step, and list each client once, after it was accepted.
TableInv ==
    /\ c_clients = [k \in 1..Len(c_fds) |-> c_fds[k].fd]
    /\ \A k, l \in 1..Len(c_fds) : c_fds[k].fd = c_fds[l].fd => k = l
    /\ \A k \in 1..Len(c_fds) : c_peer[c_fds[k].fd] \in {"open", "gone"}

\* The message m has been received.
HasRead(m) == m[2] + Len(c_inbox[m[1]]) <= c_sent[m[1]]

\* A socket holds the last messages of its peer, in order; what was passed on had been
\* received.
NumberInv ==
    /\ \A c \in ChatConn :
        /\ Len(c_inbox[c]) <= c_sent[c]
        /\ \A k \in 1..Len(c_inbox[c]) : c_inbox[c][k] = <<c, c_sent[c] - Len(c_inbox[c]) + k>>
    /\ \A c \in ChatConn : \A k \in 1..Len(c_got[c]) : HasRead(c_got[c][k])
    /\ c_msg # <<>> => HasRead(c_msg)

\* c was sent m.
Reached(c, m) == \E k \in 1..Len(c_got[c]) : c_got[c][k] = m

\* m was not sent to c twice.
Single(c, m) == \A k, l \in 1..Len(c_got[c]) : c_got[c][k] = m /\ c_got[c][l] = m => k = l

\* A broadcast has reached exactly the clients before its index, without its sender, who
\* is where sender says.
BroadcastInv ==
    /\ c_at = "broadcast" => c_msg # <<>>
    /\ c_msg # <<>> =>
        /\ c_at \in {"broadcast", "hangup"}
        /\ c_msg[1] \notin c_audience
        /\ ~Reached(c_msg[1], c_msg)
        /\ \A c \in ChatConn : Single(c, c_msg)
    /\ c_at = "broadcast" =>
        /\ c_sender \in 1..Len(c_fds) /\ c_fds[c_sender].fd = c_msg[1] /\ c_j >= 1
        /\ \A k \in 1..Len(c_fds) : Reached(c_fds[k].fd, c_msg) <=> k < c_j /\ k # c_sender
    /\ c_at = "hangup" /\ c_msg # <<>> =>
        \A k \in 1..Len(c_fds) : c_fds[k].fd \in c_audience => Reached(c_fds[k].fd, c_msg)

\* The turn, and what is left of the walk, if nothing below the sender was removed.
Position ==
    /\ c_at = "walk" => c_i <= Len(c_fds) + 1
    /\ c_at \in {"turn", "broadcast", "hangup"} => c_i <= Len(c_fds) /\ c_fds[c_i].fd = c_current
    /\ c_at = "broadcast" => c_sender = c_i
    /\ c_at = "turn" => c_events = c_fds[c_i].revents
    /\ c_at \in {"walk", "turn", "broadcast", "hangup"} =>
        \A k \in 1..Len(c_fds) :
            (k < c_i \/ (k = c_i /\ c_at = "turn")) /\ "POLLIN" \in c_fds[k].revents =>
                c_inbox[c_fds[k].fd] # <<>> \/ c_peer[c_fds[k].fd] = "gone"

WalkInv ==
    /\ c_at \in {"turn", "broadcast", "hangup"} => c_i >= 1
    /\ c_at = "turn" => c_i <= Len(c_fds)
    /\ c_undef => c_at = "lost" /\ c_shifted
    /\ ~c_shifted => Position

ChatInv == ChatType /\ TableInv /\ NumberInv /\ BroadcastInv /\ WalkInv

\* What vector::erase leaves of a table, position by position.
LEMMA Removed ==
    ASSUME NEW S, NEW s \in Seq(S), NEW k \in 1..Len(s)
    PROVE  /\ Full!RemoveAt(s, k) \in Seq(S)
           /\ Len(Full!RemoveAt(s, k)) = Len(s) - 1
           /\ \A n \in 1..(Len(s) - 1) :
                  Full!RemoveAt(s, k)[n] = IF n < k THEN s[n] ELSE s[n + 1]
<1> DEFINE a == SubSeq(s, 1, k - 1)
           b == SubSeq(s, k + 1, Len(s))
<1>1. a \in Seq(S) /\ Len(a) = k - 1 /\ \A n \in 1..(k - 1) : a[n] = s[n]
    BY SubSeqProperties
<1>2. b \in Seq(S) /\ Len(b) = Len(s) - k /\ \A n \in 1..(Len(s) - k) : b[n] = s[n + k]
    <2>1. /\ b \in Seq(S)
          /\ Len(b) = IF k + 1 <= Len(s) THEN Len(s) - (k + 1) + 1 ELSE 0
          /\ \A n \in 1..(Len(s) - (k + 1) + 1) : b[n] = s[(k + 1) + n - 1]
        BY SubSeqProperties
    <2> HIDE DEF b
    <2>2. ASSUME NEW n \in 1..(Len(s) - k)
          PROVE  b[n] = s[n + k]
        <3>1. n \in 1..(Len(s) - (k + 1) + 1) /\ (k + 1) + n - 1 = n + k
            OBVIOUS
        <3> QED BY <3>1, <2>1
    <2> QED BY <2>1, <2>2
<1> HIDE DEF a, b
<1>3. a \o b \in Seq(S) /\ Len(a \o b) = Len(s) - 1
    <2>1. a \o b \in Seq(S) /\ Len(a \o b) = Len(a) + Len(b)
        BY <1>1, <1>2, ConcatProperties
    <2>2. Len(a) + Len(b) = Len(s) - 1
        BY <1>1, <1>2
    <2> QED BY <2>1, <2>2
<1>4. ASSUME NEW n \in 1..(Len(s) - 1)
      PROVE  (a \o b)[n] = IF n < k THEN s[n] ELSE s[n + 1]
    <2>1. CASE n < k
        BY <2>1, <1>1, <1>2, ConcatProperties
    <2>2. CASE ~(n < k)
        <3>1. n - (k - 1) \in 1..(Len(s) - k) /\ (n - (k - 1)) + k = n + 1
            BY <2>2
        <3>2. (a \o b)[n] = b[n - (k - 1)]
            BY <2>2, <1>1, <1>2, ConcatProperties
        <3>3. b[n - (k - 1)] = s[n + 1]
            BY <3>1, <1>2
        <3> QED BY <3>2, <3>3, <2>2
    <2> QED BY <2>1, <2>2
<1>5. Full!RemoveAt(s, k) = a \o b
    BY DEF Full!RemoveAt, a, b
<1> QED BY <1>3, <1>4, <1>5

\* What is in the tables, the sockets and the transcripts of the peers.
LEMMA ChatElements ==
    ASSUME ChatType
    PROVE  /\ \A k \in 1..Len(c_fds) : c_fds[k] \in Row /\ c_fds[k].fd \in ChatConn
           /\ \A c \in ChatConn : Len(c_inbox[c]) \in Nat /\ Len(c_got[c]) \in Nat
           /\ \A c \in ChatConn : \A k \in 1..Len(c_inbox[c]) : c_inbox[c][k] \in Said
           /\ \A c \in ChatConn : \A k \in 1..Len(c_got[c]) : c_got[c][k] \in Said
<1>1. ASSUME NEW k \in 1..Len(c_fds)
      PROVE  c_fds[k] \in Row /\ c_fds[k].fd \in ChatConn
    <2>1. c_fds \in Seq(Row)
        BY DEF ChatType
    <2>2. c_fds[k] \in Row
        BY <2>1, ElementOfSeq
    <2> QED BY <2>2 DEF Row
<1>2. ASSUME NEW c \in ChatConn
      PROVE  /\ Len(c_inbox[c]) \in Nat /\ Len(c_got[c]) \in Nat
             /\ \A k \in 1..Len(c_inbox[c]) : c_inbox[c][k] \in Said
             /\ \A k \in 1..Len(c_got[c]) : c_got[c][k] \in Said
    <2>1. c_inbox[c] \in Seq(Said) /\ c_got[c] \in Seq(Said)
        BY DEF ChatType
    <2> QED BY <2>1, ElementOfSeq
<1> QED BY <1>1, <1>2

\* A message that was received stays so, since a socket only grows by what its peer sends.
LEMMA ReadStays ==
    ASSUME ChatType, ChatType', NEW m \in Said, HasRead(m),
           \A c \in ChatConn : Len(c_inbox'[c]) + c_sent[c] <= Len(c_inbox[c]) + c_sent'[c]
    PROVE  HasRead(m)'
<1> DEFINE c == m[1]
<1>1. m[1] \in ChatConn /\ m[2] \in Nat
    BY DEF Said
<1>2. /\ Len(c_inbox[c]) \in Nat /\ Len(c_inbox'[c]) \in Nat
      /\ c_sent[c] \in Nat /\ c_sent'[c] \in Nat
      /\ m[2] + Len(c_inbox[c]) <= c_sent[c]
      /\ Len(c_inbox'[c]) + c_sent[c] <= Len(c_inbox[c]) + c_sent'[c]
    <2>1. /\ c_inbox[c] \in Seq(Said) /\ c_inbox'[c] \in Seq(Said)
          /\ c_sent[c] \in Nat /\ c_sent'[c] \in Nat
        BY <1>1 DEF ChatType
    <2>2. m[2] + Len(c_inbox[c]) <= c_sent[c]
        BY DEF HasRead
    <2> QED BY <1>1, <2>1, <2>2
<1>3. m[2] + Len(c_inbox'[c]) <= c_sent'[c]
    <2> HIDE DEF c
    <2> QED BY <1>1, <1>2
<1> QED BY <1>3 DEF HasRead

\* The constructor's empty tables satisfy the invariant of the vector chat server.
LEMMA ChatInit ==
    ASSUME Full!Init
    PROVE  ChatInv
<1> USE DEF Full!Init
<1>1. ChatType
    BY DEF ChatType, Full!Nobody
<1>2. TableInv
    BY DEF TableInv
<1>3. NumberInv
    BY DEF NumberInv, HasRead
<1>4. BroadcastInv /\ WalkInv
    BY DEF BroadcastInv, WalkInv, Position
<1> QED BY <1>1, <1>2, <1>3, <1>4 DEF ChatInv

\* A socket that holds the last messages of its peer holds them after the next one too.
LEMMA SayOnce ==
    ASSUME NEW c \in ChatConn, NEW s \in Seq(Said), NEW sent \in Nat, Len(s) <= sent,
           \A k \in 1..Len(s) : s[k] = <<c, sent - Len(s) + k>>,
           NEW t, t = Append(s, <<c, sent + 1>>)
    PROVE  /\ Len(t) <= sent + 1
           /\ \A k \in 1..Len(t) : t[k] = <<c, (sent + 1) - Len(t) + k>>
<1> DEFINE e == <<c, sent + 1>>
<1>1. e \in Said
    BY DEF Said
<1> HIDE DEF e
<1>2. t = Append(s, e)
    BY DEF e
<1>3. Len(t) = Len(s) + 1 /\ t[Len(s) + 1] = e /\ \A k \in 1..Len(s) : t[k] = s[k]
    <2>1. /\ Len(Append(s, e)) = Len(s) + 1 /\ Append(s, e)[Len(s) + 1] = e
          /\ \A k \in 1..Len(s) : Append(s, e)[k] = s[k]
        BY <1>1, AppendProperties
    <2> QED BY <1>2, <2>1
<1>4. Len(s) \in Nat
    OBVIOUS
<1>5. ASSUME NEW k \in 1..(Len(s) + 1)
      PROVE  t[k] = <<c, (sent + 1) - (Len(s) + 1) + k>>
    <2>1. CASE k = Len(s) + 1
        <3>1. (sent + 1) - (Len(s) + 1) + k = sent + 1
            BY <1>4, <2>1
        <3> QED BY <3>1, <2>1, <1>3 DEF e
    <2>2. CASE k # Len(s) + 1
        <3>1. k \in 1..Len(s) /\ (sent + 1) - (Len(s) + 1) + k = sent - Len(s) + k
            BY <1>4, <2>2
        <3> QED BY <3>1, <1>3
    <2> QED BY <2>1, <2>2
<1> QED BY <1>3, <1>4, <1>5

\* A peer that connects, speaks or leaves keeps the invariant: the server has not moved.
LEMMA ChatPeerStep ==
    ASSUME ChatInv, NEW c \in ChatConn, Full!Connect(c) \/ Full!Say(c) \/ Full!Leave(c)
    PROVE  ChatInv'
<1> USE DEF ChatInv
<1>1. /\ UNCHANGED <<c_fds, c_clients, c_at, c_i, c_events, c_j, c_sender, c_msg, c_got>>
      /\ UNCHANGED <<c_current, c_audience, c_shifted, c_undef>>
    BY DEF Full!Connect, Full!Say, Full!Leave, Full!server, Full!history
<1>2. \/ /\ UNCHANGED <<c_inbox, c_sent>>
         /\ \/ c_peer[c] = "new" /\ c_peer' = [c_peer EXCEPT ![c] = "connecting"]
            \/ c_peer[c] = "open" /\ c_peer' = [c_peer EXCEPT ![c] = "gone"]
      \/ /\ UNCHANGED c_peer
         /\ c_sent' = [c_sent EXCEPT ![c] = @ + 1]
         /\ c_inbox' = [c_inbox EXCEPT ![c] = Append(@, <<c, c_sent[c] + 1>>)]
    BY DEF Full!Connect, Full!Say, Full!Leave
<1>3. ChatType'
    <2>1. c_sent' \in [ChatConn -> Nat] /\ c_inbox' \in [ChatConn -> Seq(Said)]
        <3>1. <<c, c_sent[c] + 1>> \in Said /\ c_inbox[c] \in Seq(Said)
            BY DEF ChatType, Said
        <3>2. Append(c_inbox[c], <<c, c_sent[c] + 1>>) \in Seq(Said)
            BY <3>1, AppendProperties
        <3>3. CASE UNCHANGED <<c_inbox, c_sent>>
            BY <3>3 DEF ChatType
        <3>4. CASE /\ c_sent' = [c_sent EXCEPT ![c] = @ + 1]
                   /\ c_inbox' = [c_inbox EXCEPT ![c] = Append(@, <<c, c_sent[c] + 1>>)]
            BY <3>2, <3>4 DEF ChatType
        <3> QED BY <1>2, <3>3, <3>4
    <2>2. c_peer' \in [ChatConn -> {"new", "connecting", "open", "gone", "refused"}]
        BY <1>2 DEF ChatType
    <2> QED BY <1>1, <2>1, <2>2 DEF ChatType
<1>4. TableInv'
    <2>1. \A x \in ChatConn : c_peer[x] \in {"open", "gone"} => c_peer'[x] \in {"open", "gone"}
        BY <1>2 DEF ChatType
    <2>2. \A k \in 1..Len(c_fds) : c_fds[k].fd \in ChatConn
        BY ChatElements
    <2> QED BY <1>1, <2>1, <2>2 DEF TableInv
<1>5. \A x \in ChatConn : Len(c_inbox'[x]) + c_sent[x] <= Len(c_inbox[x]) + c_sent'[x]
    <2> TAKE x \in ChatConn
    <2>1. c_inbox[x] \in Seq(Said) /\ c_sent[x] \in Nat
        BY DEF ChatType
    <2>2. CASE UNCHANGED <<c_inbox, c_sent>> \/ x # c
        BY <1>2, <2>1, <2>2 DEF ChatType
    <2>3. CASE x = c /\ ~UNCHANGED <<c_inbox, c_sent>>
        <3>1. c_sent'[c] = c_sent[c] + 1 /\ c_inbox'[c] = Append(c_inbox[c], <<c, c_sent[c] + 1>>)
            BY <1>2, <2>3 DEF ChatType
        <3> QED BY <3>1, <2>1, <2>3 DEF Said
    <2> QED BY <2>2, <2>3
<1>6. NumberInv'
    <2>1. ASSUME NEW x \in ChatConn
          PROVE  /\ Len(c_inbox'[x]) <= c_sent'[x]
                 /\ \A k \in 1..Len(c_inbox'[x]) :
                        c_inbox'[x][k] = <<x, c_sent'[x] - Len(c_inbox'[x]) + k>>
        <3>1. /\ c_inbox[x] \in Seq(Said) /\ c_sent[x] \in Nat /\ Len(c_inbox[x]) <= c_sent[x]
              /\ \A k \in 1..Len(c_inbox[x]) :
                        c_inbox[x][k] = <<x, c_sent[x] - Len(c_inbox[x]) + k>>
            BY DEF ChatType, NumberInv
        <3>2. CASE UNCHANGED <<c_inbox, c_sent>> \/ x # c
            BY <1>2, <3>1, <3>2 DEF ChatType
        <3>3. CASE x = c /\ ~UNCHANGED <<c_inbox, c_sent>>
            <4>1. /\ c_sent'[c] = c_sent[c] + 1
                  /\ c_inbox'[c] = Append(c_inbox[c], <<c, c_sent[c] + 1>>)
                BY <1>2, <3>3 DEF ChatType
            <4> QED BY <3>1, <3>3, <4>1, SayOnce
        <3> QED BY <3>2, <3>3
    <2>2. \A m \in Said : HasRead(m) => HasRead(m)'
        BY <1>3, <1>5, ReadStays
    <2>3. ASSUME NEW x \in ChatConn, NEW k \in 1..Len(c_got[x])
          PROVE  HasRead(c_got[x][k])'
        <3>1. c_got[x][k] \in Said /\ HasRead(c_got[x][k])
            BY ChatElements DEF NumberInv
        <3> QED BY <1>1, <2>2, <3>1 DEF HasRead
    <2>4. ASSUME c_msg # <<>>
          PROVE  HasRead(c_msg)'
        BY <1>1, <2>2, <2>4 DEF ChatType, NumberInv, HasRead
    <2> QED BY <1>1, <2>1, <2>3, <2>4 DEF NumberInv
<1>7. BroadcastInv'
    BY <1>1 DEF BroadcastInv, Reached, Single
<1>8. WalkInv'
    <2>1. \A x \in ChatConn : /\ c_peer[x] = "gone" => c_peer'[x] = "gone"
                              /\ c_inbox[x] # <<>> => c_inbox'[x] # <<>>
        BY <1>2 DEF ChatType
    <2>2. \A k \in 1..Len(c_fds) : c_fds[k].fd \in ChatConn
        BY ChatElements
    <2>3. Position => Position'
        BY <1>1, <2>1, <2>2 DEF Position
    <2> QED BY <1>1, <2>3 DEF WalkInv
<1> QED BY <1>3, <1>4, <1>6, <1>7, <1>8 DEF ChatInv

\* remove_client keeps clients_ and fds_ in step, and everyone else in order.
LEMMA RemoveClient ==
    ASSUME ChatType, TableInv, NEW k \in 1..Len(c_fds), Full!remove_client(k), UNCHANGED c_peer
    PROVE  /\ c_fds' \in Seq(Row) /\ Len(c_fds') = Len(c_fds) - 1
           /\ \A n \in 1..Len(c_fds') : c_fds'[n] = IF n < k THEN c_fds[n] ELSE c_fds[n + 1]
           /\ TableInv'
<1>1. c_fds \in Seq(Row) /\ Len(c_fds) \in Nat
    BY DEF ChatType
<1>2. c_clients \in Seq(ChatConn) /\ Len(c_clients) = Len(c_fds)
    <2>1. c_clients \in [1..Len(c_fds) -> ChatConn]
        BY ChatElements DEF TableInv
    <2> QED BY <1>1, <2>1, LenProperties
<1>3. /\ c_fds' \in Seq(Row) /\ Len(c_fds') = Len(c_fds) - 1
      /\ \A n \in 1..(Len(c_fds) - 1) :
             c_fds'[n] = IF n < k THEN c_fds[n] ELSE c_fds[n + 1]
    BY <1>1, Removed DEF Full!remove_client
<1>4. /\ c_clients' \in Seq(ChatConn) /\ Len(c_clients') = Len(c_fds) - 1
      /\ \A n \in 1..(Len(c_fds) - 1) :
             c_clients'[n] = IF n < k THEN c_clients[n] ELSE c_clients[n + 1]
    BY <1>2, Removed DEF Full!remove_client
<1>5. \A n \in 1..(Len(c_fds) - 1) : n \in 1..Len(c_fds) /\ n + 1 \in 1..Len(c_fds)
    BY <1>1
<1>6. \A n \in 1..Len(c_fds') : c_clients'[n] = c_fds'[n].fd
    <2> SUFFICES ASSUME NEW n \in 1..(Len(c_fds) - 1)
                 PROVE  c_clients'[n] = c_fds'[n].fd
        BY <1>3
    <2>1. c_clients[n] = c_fds[n].fd /\ c_clients[n + 1] = c_fds[n + 1].fd
        BY <1>5 DEF TableInv
    <2> QED BY <2>1, <1>3, <1>4
<1>7. (c_clients = [n \in 1..Len(c_fds) |-> c_fds[n].fd])'
    <2>1. c_clients' = [n \in 1..Len(c_clients') |-> c_clients'[n]]
        BY <1>4, LenProperties
    <2> QED BY <2>1, <1>3, <1>4, <1>6
<1>8. \A n, l \in 1..Len(c_fds') : c_fds'[n].fd = c_fds'[l].fd => n = l
    <2> SUFFICES ASSUME NEW n \in 1..Len(c_fds'), NEW l \in 1..Len(c_fds'),
                        c_fds'[n].fd = c_fds'[l].fd
                 PROVE  n = l
        OBVIOUS
    <2>1. \A x, y \in 1..Len(c_fds) : c_fds[x].fd = c_fds[y].fd => x = y
        BY DEF TableInv
    <2>2. CASE n < k /\ l < k
        BY <2>1, <2>2, <1>3, <1>5
    <2>3. CASE n < k /\ ~(l < k)
        <3>1. n = l + 1
            BY <2>1, <2>3, <1>3, <1>5
        <3> QED BY <3>1, <2>3, <1>3
    <2>4. CASE ~(n < k) /\ l < k
        <3>1. n + 1 = l
            BY <2>1, <2>4, <1>3, <1>5
        <3> QED BY <3>1, <2>4, <1>3
    <2>5. CASE ~(n < k) /\ ~(l < k)
        <3>1. n + 1 = l + 1
            <4>1. c_fds[n + 1].fd = c_fds[l + 1].fd
                BY <2>5, <1>3
            <4>2. n + 1 \in 1..Len(c_fds) /\ l + 1 \in 1..Len(c_fds)
                BY <1>3, <1>5
            <4> QED BY <2>1, <4>1, <4>2
        <3> QED BY <3>1, <1>3
    <2> QED BY <2>2, <2>3, <2>4, <2>5
<1>9. \A n \in 1..Len(c_fds') : c_peer'[c_fds'[n].fd] \in {"open", "gone"}
    BY <1>3, <1>5 DEF TableInv
<1> QED BY <1>3, <1>7, <1>8, <1>9 DEF TableInv

\* poll's reports and the accepted connection: whatever MAX_CLIENTS is, the rows keep
\* their clients, a new one comes last, and a report tells of something to read.
LEMMA PollEffect ==
    ASSUME ChatType, Full!Poll \/ Roomy!Poll
    PROVE  /\ c_at = "poll" /\ c_at' = "walk" /\ c_i' = Len(c_fds') + 1 /\ c_shifted' = FALSE
           /\ UNCHANGED <<c_events, c_j, c_sender, c_msg, c_inbox, c_sent, c_got>>
           /\ UNCHANGED <<c_current, c_audience, c_undef>>
           /\ \E table \in Seq(Row) :
                /\ Len(table) = Len(c_fds)
                /\ \A k \in 1..Len(c_fds) :
                     /\ table[k].fd = c_fds[k].fd
                     /\ "POLLIN" \in table[k].revents =>
                          c_inbox[c_fds[k].fd] # <<>> \/ c_peer[c_fds[k].fd] = "gone"
                /\ \/ c_fds' = table /\ UNCHANGED <<c_clients, c_peer>>
                   \/ \E c \in ChatConn :
                        /\ c_peer[c] = "connecting"
                        /\ \/ /\ c_fds' = table /\ UNCHANGED c_clients
                              /\ c_peer' = [c_peer EXCEPT ![c] = "refused"]
                           \/ /\ c_fds' = Append(table, [fd |-> c, revents |-> {}])
                              /\ c_clients' = Append(c_clients, c)
                              /\ c_peer' = [c_peer EXCEPT ![c] = "open"]
<1>1. /\ c_at = "poll" /\ c_at' = "walk" /\ c_i' = Len(c_fds') + 1 /\ c_shifted' = FALSE
      /\ UNCHANGED <<c_events, c_j, c_sender, c_msg, c_inbox, c_sent, c_got>>
      /\ UNCHANGED <<c_current, c_audience, c_undef>>
    BY DEF Full!Poll, Roomy!Poll
<1>2. PICK report \in [1..Len(c_fds) -> SUBSET Event] :
        /\ \A k \in 1..Len(c_fds) : report[k] \in Full!Reports(c_fds[k].fd)
        /\ \/ Full!accept_client([k \in 1..Len(c_fds) |-> [c_fds[k] EXCEPT !.revents = report[k]]])
           \/ Roomy!accept_client([k \in 1..Len(c_fds) |-> [c_fds[k] EXCEPT !.revents = report[k]]])
    BY DEF Full!Poll, Roomy!Poll, Event, Full!Reports, Roomy!Reports
<1> DEFINE table == [k \in 1..Len(c_fds) |-> [c_fds[k] EXCEPT !.revents = report[k]]]
<1>3. Len(c_fds) \in Nat /\ \A k \in 1..Len(c_fds) : c_fds[k] \in Row
    BY ChatElements DEF ChatType
<1>4. \A k \in 1..Len(c_fds) :
        table[k] \in Row /\ table[k].fd = c_fds[k].fd /\ table[k].revents = report[k]
    BY <1>2, <1>3 DEF Row
<1>5. table \in [1..Len(c_fds) -> Row]
    BY <1>4
<1>6. table \in Seq(Row) /\ Len(table) = Len(c_fds)
    BY <1>3, <1>5, LenProperties
<1>7. \A k \in 1..Len(c_fds) :
        "POLLIN" \in table[k].revents =>
            c_inbox[c_fds[k].fd] # <<>> \/ c_peer[c_fds[k].fd] = "gone"
    BY <1>2, <1>4 DEF Full!Reports
<1> HIDE DEF table
<1>8. \/ c_fds' = table /\ UNCHANGED <<c_clients, c_peer>>
      \/ \E c \in ChatConn :
           /\ c_peer[c] = "connecting"
           /\ \/ /\ c_fds' = table /\ UNCHANGED c_clients
                 /\ c_peer' = [c_peer EXCEPT ![c] = "refused"]
              \/ /\ c_fds' = Append(table, [fd |-> c, revents |-> {}])
                 /\ c_clients' = Append(c_clients, c)
                 /\ c_peer' = [c_peer EXCEPT ![c] = "open"]
    <2>1. Full!accept_client(table) \/ Roomy!accept_client(table)
        BY <1>2 DEF table
    <2> QED BY <2>1 DEF Full!accept_client, Roomy!accept_client
<1> QED BY <1>1, <1>4, <1>6, <1>7, <1>8

\* poll and accept_client keep the invariant.
LEMMA ChatPollStep ==
    ASSUME ChatInv, Full!Poll \/ Roomy!Poll
    PROVE  ChatInv'
<1> USE DEF ChatInv
<1>1. /\ c_at = "poll" /\ c_at' = "walk" /\ c_i' = Len(c_fds') + 1 /\ c_shifted' = FALSE
      /\ UNCHANGED <<c_events, c_j, c_sender, c_msg, c_inbox, c_sent, c_got>>
      /\ UNCHANGED <<c_current, c_audience, c_undef>>
    BY PollEffect
<1>2. PICK table \in Seq(Row) :
        /\ Len(table) = Len(c_fds)
        /\ \A k \in 1..Len(c_fds) :
             /\ table[k].fd = c_fds[k].fd
             /\ "POLLIN" \in table[k].revents =>
                  c_inbox[c_fds[k].fd] # <<>> \/ c_peer[c_fds[k].fd] = "gone"
        /\ \/ c_fds' = table /\ UNCHANGED <<c_clients, c_peer>>
           \/ \E c \in ChatConn :
                /\ c_peer[c] = "connecting"
                /\ \/ /\ c_fds' = table /\ UNCHANGED c_clients
                      /\ c_peer' = [c_peer EXCEPT ![c] = "refused"]
                   \/ /\ c_fds' = Append(table, [fd |-> c, revents |-> {}])
                      /\ c_clients' = Append(c_clients, c)
                      /\ c_peer' = [c_peer EXCEPT ![c] = "open"]
    BY PollEffect
<1>3. c_msg = <<>> /\ ~c_undef /\ Len(c_fds) \in Nat
    BY <1>1 DEF BroadcastInv, WalkInv, ChatType
<1>4. /\ \A k \in 1..Len(c_fds) : c_fds[k].fd \in ChatConn /\ c_peer[c_fds[k].fd] # "connecting"
      /\ \A k \in 1..Len(c_fds) : c_peer[c_fds[k].fd] \in {"open", "gone"}
    BY ChatElements DEF TableInv
<1>5. /\ c_peer' \in [ChatConn -> {"new", "connecting", "open", "gone", "refused"}]
      /\ \A x \in ChatConn : c_peer[x] # "connecting" => c_peer'[x] = c_peer[x]
    BY <1>2 DEF ChatType
<1>6. NumberInv'
    BY <1>1 DEF NumberInv, HasRead
<1>7. BroadcastInv'
    BY <1>1, <1>3 DEF BroadcastInv
<1>8. CASE c_fds' = table /\ UNCHANGED c_clients
    <2>1. ChatType'
        BY <1>1, <1>2, <1>3, <1>5, <1>8 DEF ChatType
    <2>2. TableInv'
        BY <1>2, <1>4, <1>5, <1>8 DEF TableInv
    <2>3. WalkInv'
        BY <1>1, <1>2, <1>3, <1>4, <1>5, <1>8 DEF WalkInv, Position
    <2> QED BY <2>1, <2>2, <2>3, <1>6, <1>7
<1>9. ASSUME NEW c \in ChatConn, c_peer[c] = "connecting",
             c_fds' = Append(table, [fd |-> c, revents |-> {}]),
             c_clients' = Append(c_clients, c), c_peer' = [c_peer EXCEPT ![c] = "open"]
      PROVE  ChatInv'
    <2> DEFINE row == [fd |-> c, revents |-> {}]
    <2>1. row \in Row /\ row.fd = c /\ row.revents = {}
        BY DEF Row
    <2> HIDE DEF row
    <2>2. /\ c_fds' \in Seq(Row) /\ Len(c_fds') = Len(c_fds) + 1
          /\ \A k \in 1..Len(c_fds) : c_fds'[k] = table[k]
          /\ c_fds'[Len(c_fds) + 1] = row
        BY <1>2, <1>9, <2>1, AppendProperties DEF row
    <2>3. ChatType'
        BY <1>1, <1>3, <1>5, <2>2 DEF ChatType
    <2>4. (c_clients = [k \in 1..Len(c_fds) |-> c_fds[k].fd])'
        <3>1. c_clients \in Seq(ChatConn) /\ Len(c_clients) = Len(c_fds)
            <4>1. c_clients \in [1..Len(c_fds) -> ChatConn]
                BY <1>4 DEF TableInv
            <4> QED BY <1>3, <4>1, LenProperties
        <3>2. /\ c_clients' \in Seq(ChatConn) /\ Len(c_clients') = Len(c_fds) + 1
              /\ \A k \in 1..Len(c_fds) : c_clients'[k] = c_clients[k]
              /\ c_clients'[Len(c_fds) + 1] = c
            BY <1>9, <3>1, AppendProperties
        <3>3. \A k \in 1..(Len(c_fds) + 1) : k \in 1..Len(c_fds) \/ k = Len(c_fds) + 1
            BY <1>3
        <3>4. \A k \in 1..Len(c_fds) : c_clients[k] = table[k].fd
            BY <1>2 DEF TableInv
        <3>5. \A k \in 1..(Len(c_fds) + 1) : c_clients'[k] = c_fds'[k].fd
            BY <2>1, <2>2, <3>2, <3>3, <3>4
        <3>6. c_clients' = [k \in 1..Len(c_clients') |-> c_clients'[k]]
            BY <3>2, LenProperties
        <3> QED BY <2>2, <3>2, <3>5, <3>6
    <2>5. ASSUME NEW k \in 1..Len(c_fds')
          PROVE  \/ /\ k \in 1..Len(c_fds) /\ c_fds'[k].fd = c_fds[k].fd
                    /\ c_fds'[k].fd # c /\ c_fds'[k].revents = table[k].revents
                 \/ k = Len(c_fds) + 1 /\ c_fds'[k].fd = c /\ c_fds'[k].revents = {}
        <3>1. CASE k = Len(c_fds) + 1
            BY <3>1, <2>1, <2>2
        <3>2. CASE k # Len(c_fds) + 1
            <4>1. k \in 1..Len(c_fds)
                BY <3>2, <1>3, <2>2
            <4> QED BY <4>1, <1>2, <1>4, <1>9, <2>2
        <3> QED BY <3>1, <3>2
    <2>6. \A k, l \in 1..Len(c_fds') : c_fds'[k].fd = c_fds'[l].fd => k = l
        BY <2>5 DEF TableInv
    <2>7. \A k \in 1..Len(c_fds') : c_peer'[c_fds'[k].fd] \in {"open", "gone"}
        <3>1. c_peer'[c] = "open"
            BY <1>9 DEF ChatType
        <3> QED BY <1>4, <1>5, <2>5, <3>1
    <2>8. WalkInv'
        <3>1. \A k \in 1..Len(c_fds') : "POLLIN" \in c_fds'[k].revents =>
                c_inbox'[c_fds'[k].fd] # <<>> \/ c_peer'[c_fds'[k].fd] = "gone"
            BY <1>1, <1>2, <1>4, <1>5, <2>5
        <3> QED BY <1>1, <1>3, <3>1, <2>2 DEF WalkInv, Position
    <2> QED BY <2>3, <2>4, <2>6, <2>7, <2>8, <1>6, <1>7 DEF TableInv
<1> QED BY <1>2, <1>8, <1>9

\* A turn of the walk that only moves the index, or a turn without a message, keeps it.
LEMMA ChatWalkStep ==
    ASSUME ChatInv, Full!Walk \/ Full!NoRead
    PROVE  ChatInv'
<1> USE DEF ChatInv
<1>1. /\ UNCHANGED <<c_fds, c_clients, c_peer, c_inbox, c_sent, c_got, c_j, c_sender, c_msg>>
      /\ UNCHANGED <<c_audience, c_shifted>>
    BY DEF Full!Walk, Full!NoRead, Full!net, Full!history
<1>2. \/ /\ c_at = "walk" /\ c_i > 1 /\ c_i' = c_i - 1 /\ c_i - 1 > Len(c_fds)
         /\ c_undef' = TRUE /\ c_at' = "lost"
      \/ /\ c_at = "walk" /\ c_i > 1 /\ c_i' = c_i - 1 /\ ~(c_i - 1 > Len(c_fds))
         /\ c_at' = "turn" /\ c_events' = c_fds[c_i'].revents /\ c_current' = c_fds[c_i'].fd
         /\ UNCHANGED c_undef
      \/ c_at = "walk" /\ c_at' = "poll" /\ c_i' = 0 /\ UNCHANGED c_undef
      \/ c_at = "turn" /\ c_at' = "hangup" /\ UNCHANGED <<c_i, c_current, c_undef>>
    BY DEF Full!Walk, Full!NoRead, Full!net, Full!history
<1>3. c_msg = <<>> /\ ~c_undef /\ Len(c_fds) \in Nat /\ c_i \in Nat
    BY <1>2 DEF BroadcastInv, WalkInv, ChatType
<1>4. ChatType'
    <2>1. c_at' \in {"poll", "walk", "turn", "broadcast", "hangup", "lost"} /\ c_i' \in Nat
        BY <1>2, <1>3
    <2> QED BY <1>1, <2>1 DEF ChatType
<1>5. TableInv' /\ NumberInv'
    BY <1>1 DEF TableInv, NumberInv, HasRead
<1>6. BroadcastInv'
    BY <1>1, <1>2, <1>3 DEF BroadcastInv
<1>7. WalkInv'
    <2>1. CASE c_at = "walk" /\ c_i > 1 /\ c_i - 1 > Len(c_fds) /\ c_at' = "lost"
        BY <2>1, <1>1, <1>3 DEF WalkInv, Position
    <2>2. CASE /\ c_at = "walk" /\ c_i > 1 /\ c_i' = c_i - 1 /\ ~(c_i - 1 > Len(c_fds))
               /\ c_at' = "turn" /\ c_events' = c_fds[c_i'].revents
               /\ c_current' = c_fds[c_i'].fd /\ UNCHANGED c_undef
        <3>1. c_i' \in Nat /\ c_i' >= 1 /\ c_i' <= Len(c_fds) /\ c_i' < c_i
            BY <2>2, <1>3
        <3>2. Position => Position'
            BY <3>1, <2>2, <1>1, <1>3 DEF Position
        <3> QED BY <3>1, <3>2, <2>2, <1>1, <1>3 DEF WalkInv
    <2>3. CASE c_at' = "poll" /\ UNCHANGED c_undef
        BY <2>3, <1>1, <1>3 DEF WalkInv, Position
    <2>4. CASE c_at = "turn" /\ c_at' = "hangup" /\ UNCHANGED <<c_i, c_current, c_undef>>
        BY <2>4, <1>1, <1>3 DEF WalkInv, Position
    <2> QED BY <1>2, <2>1, <2>2, <2>3, <2>4
<1> QED BY <1>4, <1>5, <1>6, <1>7

\* read_client: the message it takes off the socket has reached nobody, and the client it
\* removes is the one the walk is about.
LEMMA ChatReadStep ==
    ASSUME ChatInv, Full!read_client
    PROVE  ChatInv'
<1> USE DEF ChatInv
<1> DEFINE c == c_fds[c_i].fd
<1>1. /\ c_at = "turn" /\ UNCHANGED <<c_i, c_events, c_peer, c_sent, c_got>>
      /\ UNCHANGED <<c_current, c_shifted, c_undef>>
    BY DEF Full!read_client
<1>2. /\ c_msg = <<>> /\ ~c_undef /\ c_i \in 1..Len(c_fds) /\ Len(c_fds) \in Nat /\ c_i \in Nat
      /\ c \in ChatConn
    <2>1. c_msg = <<>> /\ ~c_undef /\ c_i \in 1..Len(c_fds) /\ Len(c_fds) \in Nat /\ c_i \in Nat
        BY <1>1 DEF BroadcastInv, WalkInv, ChatType
    <2> QED BY <2>1, ChatElements
<1> HIDE DEF c
<1>3. CASE /\ c_inbox[c] # <<>>
           /\ c_inbox' = [c_inbox EXCEPT ![c] = Tail(@)]
           /\ c_at' = "broadcast" /\ c_j' = 1 /\ c_sender' = c_i /\ c_msg' = c_inbox[c][1]
           /\ c_audience' = {c_fds[k].fd : k \in (1..Len(c_fds)) \ {c_i}}
           /\ UNCHANGED <<c_fds, c_clients>>
    <2> DEFINE s == c_inbox[c]
    <2>1. s \in Seq(Said) /\ s # <<>> /\ c_sent[c] \in Nat /\ Len(s) \in Nat \ {0}
        BY <1>2, <1>3, EmptySeq DEF ChatType
    <2>2. /\ c_inbox'[c] = Tail(s) /\ \A x \in ChatConn \ {c} : c_inbox'[x] = c_inbox[x]
          /\ c_inbox' \in [ChatConn -> Seq(Said)]
        BY <1>2, <1>3, <2>1, HeadTailProperties DEF ChatType
    <2>3. /\ Len(Tail(s)) = Len(s) - 1 /\ \A k \in 1..(Len(s) - 1) : Tail(s)[k] = s[k + 1]
        BY <2>1, HeadTailProperties
    <2>4. /\ Len(s) <= c_sent[c]
          /\ \A k \in 1..Len(s) : s[k] = <<c, c_sent[c] - Len(s) + k>>
        BY <1>2 DEF NumberInv
    <2>5. c_msg' = <<c, c_sent[c] - Len(s) + 1>> /\ c_msg' \in Said
        BY <1>2, <1>3, <2>1, <2>4 DEF Said
    <2>6. ChatType'
        BY <1>1, <1>2, <1>3, <2>2, <2>5 DEF ChatType
    <2>7. TableInv'
        BY <1>1, <1>3 DEF TableInv
    <2>8. \A x \in ChatConn : Len(c_inbox'[x]) + c_sent[x] <= Len(c_inbox[x]) + c_sent'[x]
        <3> TAKE x \in ChatConn
        <3>1. Len(c_inbox[x]) \in Nat /\ c_sent[x] \in Nat
            BY ChatElements DEF ChatType
        <3>2. CASE x = c
            BY <3>2, <1>1, <2>1, <2>2, <2>3
        <3>3. CASE x # c
            BY <3>3, <1>1, <2>2, <3>1
        <3> QED BY <3>2, <3>3
    <2>9. NumberInv'
        <3>1. ASSUME NEW x \in ChatConn
              PROVE  /\ Len(c_inbox'[x]) <= c_sent'[x]
                     /\ \A k \in 1..Len(c_inbox'[x]) :
                            c_inbox'[x][k] = <<x, c_sent'[x] - Len(c_inbox'[x]) + k>>
            <4>1. CASE x # c
                BY <4>1, <1>1, <2>2 DEF NumberInv
            <4>2. CASE x = c
                <5>1. Len(c_inbox'[c]) = Len(s) - 1 /\ Len(s) - 1 <= c_sent[c]
                    BY <2>1, <2>2, <2>3, <2>4
                <5>2. ASSUME NEW k \in 1..(Len(s) - 1)
                      PROVE  Tail(s)[k] = <<c, c_sent[c] - (Len(s) - 1) + k>>
                    <6> HIDE DEF s
                    <6>1. /\ k + 1 \in 1..Len(s)
                          /\ c_sent[c] - (Len(s) - 1) + k = c_sent[c] - Len(s) + (k + 1)
                        BY <2>1
                    <6> QED BY <6>1, <2>3, <2>4
                <5> QED BY <4>2, <5>1, <5>2, <1>1, <2>2
            <4> QED BY <4>1, <4>2
        <3>2. \A m \in Said : HasRead(m) => HasRead(m)'
            BY <2>6, <2>8, ReadStays
        <3>3. ASSUME NEW x \in ChatConn, NEW k \in 1..Len(c_got[x])
              PROVE  HasRead(c_got[x][k])'
            <4>1. c_got[x][k] \in Said /\ HasRead(c_got[x][k])
                BY ChatElements DEF NumberInv
            <4> QED BY <1>1, <3>2, <4>1 DEF HasRead
        <3>4. HasRead(c_msg)'
            <4>1. /\ c_msg'[1] = c /\ c_msg'[2] = c_sent[c] - Len(s) + 1
                  /\ Len(c_inbox'[c]) = Len(s) - 1 /\ c_sent'[c] = c_sent[c]
                BY <1>1, <2>2, <2>3, <2>5
            <4>2. c_msg'[2] + Len(c_inbox'[c]) <= c_sent'[c]
                <5> HIDE DEF s
                <5> QED BY <4>1, <2>1
            <4> QED BY <4>1, <4>2 DEF HasRead
        <3> QED BY <1>1, <3>1, <3>3, <3>4 DEF NumberInv
    <2>10. \A x \in ChatConn : \A k \in 1..Len(c_got[x]) : c_got[x][k] # c_msg'
        <3> SUFFICES ASSUME NEW x \in ChatConn, NEW k \in 1..Len(c_got[x]), c_got[x][k] = c_msg'
                     PROVE  FALSE
            OBVIOUS
        <3>1. HasRead(c_got[x][k])
            BY DEF NumberInv
        <3>2. (c_sent[c] - Len(s) + 1) + Len(s) <= c_sent[c]
            BY <3>1, <2>5 DEF HasRead
        <3> HIDE DEF s
        <3> QED BY <3>2, <2>1
    <2>11. BroadcastInv'
        <3>1. c_msg'[1] = c /\ c_msg' # <<>>
            BY <2>5
        <3>2. c \notin c_audience'
            BY <1>2, <1>3 DEF TableInv, c
        <3>3. \A x \in ChatConn : ~Reached(x, c_msg)' /\ Single(x, c_msg)'
            BY <1>1, <2>10 DEF Reached, Single
        <3>4. \A k \in 1..Len(c_fds) : c_fds[k].fd \in ChatConn
            BY ChatElements
        <3>5. /\ c_sender' \in 1..Len(c_fds') /\ c_fds'[c_sender'].fd = c_msg'[1] /\ c_j' = 1
              /\ c_fds' = c_fds
            BY <1>2, <1>3, <3>1 DEF c
        <3>6. \A k \in 1..Len(c_fds') : ~Reached(c_fds[k].fd, c_msg)' /\ ~(k < 1)
            BY <3>3, <3>4, <3>5 DEF Reached
        <3> QED BY <1>2, <1>3, <3>1, <3>2, <3>3, <3>5, <3>6 DEF BroadcastInv
    <2>12. WalkInv'
        <3>1. Position => Position'
            <4> SUFFICES ASSUME Position
                         PROVE  Position'
                OBVIOUS
            <4>1. ASSUME NEW k \in 1..Len(c_fds), k < c_i, "POLLIN" \in c_fds[k].revents
                  PROVE  c_inbox'[c_fds[k].fd] # <<>> \/ c_peer'[c_fds[k].fd] = "gone"
                <5>1. c_fds[k].fd # c /\ c_fds[k].fd \in ChatConn
                    BY <4>1, <1>2, ChatElements DEF TableInv, c
                <5> QED BY <4>1, <5>1, <1>1, <2>2 DEF Position
            <4> QED BY <4>1, <1>1, <1>2, <1>3 DEF Position
        <3> QED BY <3>1, <1>1, <1>2, <1>3 DEF WalkInv
    <2> QED BY <2>6, <2>7, <2>9, <2>11, <2>12
<1>4. CASE /\ Full!remove_client(c_i) /\ c_at' = "walk"
           /\ UNCHANGED <<c_inbox, c_j, c_sender, c_msg, c_audience>>
    <2>1. /\ c_fds' \in Seq(Row) /\ Len(c_fds') = Len(c_fds) - 1
          /\ \A n \in 1..Len(c_fds') : c_fds'[n] = IF n < c_i THEN c_fds[n] ELSE c_fds[n + 1]
          /\ TableInv'
        BY <1>1, <1>2, <1>4, RemoveClient
    <2>2. ChatType'
        BY <1>1, <1>4, <2>1 DEF ChatType
    <2>3. NumberInv' /\ BroadcastInv'
        BY <1>1, <1>2, <1>4 DEF NumberInv, HasRead, BroadcastInv
    <2>4. WalkInv'
        <3>1. Position => Position'
            BY <1>1, <1>2, <1>4, <2>1 DEF Position
        <3> QED BY <3>1, <1>1, <1>2, <1>4 DEF WalkInv
    <2> QED BY <2>1, <2>2, <2>3, <2>4
<1>5. CASE /\ c_at' = "hangup"
           /\ UNCHANGED <<c_fds, c_clients, c_inbox, c_j, c_sender, c_msg, c_audience>>
    <2>1. ChatType' /\ TableInv'
        BY <1>1, <1>5 DEF ChatType, TableInv
    <2>2. NumberInv' /\ BroadcastInv'
        BY <1>1, <1>2, <1>5 DEF NumberInv, HasRead, BroadcastInv
    <2>3. WalkInv'
        BY <1>1, <1>2, <1>5 DEF WalkInv, Position
    <2> QED BY <2>1, <2>2, <2>3
<1> QED BY <1>3, <1>4, <1>5 DEF Full!read_client, c

\* One turn of broadcast's loop: the sender's own row, a client that gets the message, or one
\* that is removed, after which the same index is the next client.
LEMMA ChatBroadcastStep ==
    ASSUME ChatInv, Full!broadcast
    PROVE  ChatInv'
<1> USE DEF ChatInv
<1>1. /\ c_at = "broadcast" /\ c_j <= Len(c_fds)
      /\ UNCHANGED <<c_at, c_i, c_events, c_msg, c_peer, c_inbox, c_sent>>
      /\ UNCHANGED <<c_current, c_audience, c_undef>>
    BY DEF Full!broadcast
<1>2. /\ c_msg \in Said /\ c_msg # <<>> /\ c_msg[1] \in ChatConn /\ ~c_undef
      /\ c_i \in Nat /\ c_i >= 1 /\ c_sender \in 1..Len(c_fds) /\ c_fds[c_sender].fd = c_msg[1]
      /\ c_j \in 1..Len(c_fds) /\ Len(c_fds) \in Nat
    BY <1>1 DEF ChatType, BroadcastInv, WalkInv, Said
<1>3. /\ c_msg[1] \notin c_audience /\ ~Reached(c_msg[1], c_msg)
      /\ \A c \in ChatConn : Single(c, c_msg)
      /\ \A k \in 1..Len(c_fds) : Reached(c_fds[k].fd, c_msg) <=> k < c_j /\ k # c_sender
    BY <1>1, <1>2 DEF BroadcastInv
<1>4. \A k \in 1..Len(c_fds) : c_fds[k].fd \in ChatConn
    BY ChatElements
<1>5. \A k, l \in 1..Len(c_fds) : c_fds[k].fd = c_fds[l].fd => k = l
    BY DEF TableInv
<1>6. CASE c_j = c_sender /\ c_j' = c_j + 1 /\ UNCHANGED <<c_fds, c_clients, c_sender, c_got, c_shifted>>
    <2>1. ChatType' /\ TableInv'
        BY <1>1, <1>2, <1>6 DEF ChatType, TableInv
    <2>2. NumberInv'
        BY <1>1, <1>6 DEF NumberInv, HasRead
    <2>3. \A k \in 1..Len(c_fds) : k < c_j /\ k # c_sender <=> k < c_j + 1 /\ k # c_sender
        BY <1>2, <1>6
    <2>4. BroadcastInv'
        BY <1>1, <1>2, <1>3, <1>6, <2>3 DEF BroadcastInv, Reached, Single
    <2>5. WalkInv'
        BY <1>1, <1>2, <1>6 DEF WalkInv, Position
    <2> QED BY <2>1, <2>2, <2>4, <2>5
<1>7. CASE /\ c_j # c_sender
           /\ c_got' = [c_got EXCEPT ![c_fds[c_j].fd] = Append(@, c_msg)]
           /\ c_j' = c_j + 1 /\ UNCHANGED <<c_fds, c_clients, c_sender, c_shifted>>
    <2>0. PICK x \in ChatConn : x = c_fds[c_j].fd
        BY <1>2, <1>4
    <2> DEFINE n == Len(c_got[x])
    <2>1. x \in ChatConn /\ x # c_msg[1] /\ ~Reached(x, c_msg)
        BY <2>0, <1>2, <1>3, <1>5, <1>7
    <2>2. /\ c_got' \in [ChatConn -> Seq(Said)] /\ n \in Nat
          /\ \A c \in ChatConn \ {x} : c_got'[c] = c_got[c]
          /\ Len(c_got'[x]) = n + 1 /\ c_got'[x][n + 1] = c_msg
          /\ \A k \in 1..n : c_got'[x][k] = c_got[x][k]
        <3>1. c_got[x] \in Seq(Said) /\ c_got' = [c_got EXCEPT ![x] = Append(c_got[x], c_msg)]
            BY <1>7, <2>0 DEF ChatType
        <3>2. /\ Append(c_got[x], c_msg) \in Seq(Said) /\ Len(Append(c_got[x], c_msg)) = n + 1
              /\ Append(c_got[x], c_msg)[n + 1] = c_msg /\ n \in Nat
              /\ \A k \in 1..n : Append(c_got[x], c_msg)[k] = c_got[x][k]
            BY <1>2, <3>1, AppendProperties
        <3> QED BY <2>1, <3>1, <3>2 DEF ChatType
    <2>3. \A k \in 1..(n + 1) : k \in 1..n \/ k = n + 1
        BY <2>2
    <2>4. ChatType'
        BY <1>1, <1>2, <1>7, <2>2 DEF ChatType
    <2>5. TableInv'
        BY <1>1, <1>7 DEF TableInv
    <2>6. NumberInv'
        <3>1. ASSUME NEW c \in ChatConn, NEW k \in 1..Len(c_got'[c])
              PROVE  HasRead(c_got[c][k])'
            <4>1. CASE c # x
                BY <4>1, <2>2, <1>1 DEF NumberInv, HasRead
            <4>2. CASE c = x /\ k \in 1..n
                BY <4>2, <2>1, <2>2, <1>1 DEF NumberInv, HasRead
            <4>3. CASE c = x /\ k = n + 1
                BY <4>3, <2>2, <1>1, <1>2 DEF NumberInv, HasRead
            <4> QED BY <4>1, <4>2, <4>3, <2>2, <2>3
        <3> QED BY <3>1, <1>1 DEF NumberInv, HasRead
    <2>7. BroadcastInv'
        <3>1. \A c \in ChatConn \ {x} : Reached(c, c_msg)' <=> Reached(c, c_msg)
            BY <1>1, <2>2 DEF Reached
        <3>2. Reached(x, c_msg)'
            <4>1. n + 1 \in 1..Len(c_got'[x]) /\ c_got'[x][n + 1] = c_msg'
                BY <1>1, <2>2
            <4> QED BY <4>1 DEF Reached
        <3>3. \A c \in ChatConn : Single(c, c_msg)'
            <4>1. \A c \in ChatConn \ {x} : Single(c, c_msg)'
                BY <1>1, <1>3, <2>2 DEF Single
            <4>2. \A k \in 1..Len(c_got'[x]) : c_got'[x][k] = c_msg => k = n + 1
                BY <2>1, <2>2, <2>3 DEF Reached
            <4>3. Single(x, c_msg)'
                BY <4>2, <1>1 DEF Single
            <4> QED BY <4>1, <4>3
        <3>4. \A k \in 1..Len(c_fds) :
                Reached(c_fds[k].fd, c_msg)' <=> k < c_j + 1 /\ k # c_sender
            <4> TAKE k \in 1..Len(c_fds)
            <4>1. c_fds' = c_fds
                BY <1>7
            <4>2. CASE k = c_j
                BY <4>1, <4>2, <3>2, <2>0, <1>2, <1>7 DEF Reached
            <4>3. CASE k # c_j
                <5>1. c_fds[k].fd \in ChatConn \ {x}
                    BY <4>3, <2>0, <1>2, <1>4, <1>5
                <5>2. k < c_j <=> k < c_j + 1
                    BY <4>3, <1>2
                <5>3. Reached(c_fds[k].fd, c_msg) <=> k < c_j /\ k # c_sender
                    BY <1>3
                <5>4. Reached(c_fds[k].fd, c_msg)' <=> Reached(c_fds[k].fd, c_msg)
                    BY <4>1, <5>1, <3>1 DEF Reached
                <5> QED BY <5>2, <5>3, <5>4
            <4> QED BY <4>2, <4>3
        <3>5. ~Reached(c_msg[1], c_msg)'
            BY <1>1, <1>2, <1>3, <2>1, <3>1 DEF Reached
        <3> QED BY <1>1, <1>2, <1>3, <1>7, <3>3, <3>4, <3>5 DEF BroadcastInv
    <2>8. WalkInv'
        BY <1>1, <1>2, <1>7 DEF WalkInv, Position
    <2> QED BY <2>4, <2>5, <2>6, <2>7, <2>8
<1>8. CASE /\ c_j # c_sender /\ Full!remove_client(c_j) /\ c_sender' = Full!Follow(c_j)
           /\ c_shifted' = (c_shifted \/ c_j < c_sender) /\ UNCHANGED <<c_j, c_got>>
    <2>1. /\ c_fds' \in Seq(Row) /\ Len(c_fds') = Len(c_fds) - 1
          /\ \A k \in 1..Len(c_fds') : c_fds'[k] = IF k < c_j THEN c_fds[k] ELSE c_fds[k + 1]
          /\ TableInv'
        BY <1>1, <1>2, <1>8, RemoveClient
    <2>2. /\ c_sender' = IF c_j < c_sender THEN c_sender - 1 ELSE c_sender
          /\ c_sender' \in 1..Len(c_fds')
        BY <1>2, <1>8, <2>1 DEF Full!Follow
    <2>3. c_fds'[c_sender'].fd = c_msg[1]
        <3>1. CASE c_j < c_sender
            <4>1. c_sender' = c_sender - 1 /\ ~(c_sender - 1 < c_j) /\ (c_sender - 1) + 1 = c_sender
                BY <3>1, <1>2, <2>2
            <4> QED BY <4>1, <2>1, <2>2, <1>2
        <3>2. CASE ~(c_j < c_sender)
            <4>1. c_sender' = c_sender /\ c_sender < c_j
                BY <3>2, <1>2, <1>8, <2>2
            <4> QED BY <4>1, <2>1, <2>2, <1>2
        <3> QED BY <3>1, <3>2
    <2>4. ChatType'
        BY <1>1, <1>2, <1>8, <2>1, <2>2 DEF ChatType
    <2>5. NumberInv'
        BY <1>1, <1>8 DEF NumberInv, HasRead
    <2>6. ASSUME NEW k \in 1..Len(c_fds')
          PROVE  Reached(c_fds'[k].fd, c_msg) <=> k < c_j /\ k # c_sender'
        <3>1. k \in 1..Len(c_fds) /\ k + 1 \in 1..Len(c_fds) /\ k \in Nat
            BY <1>2, <2>1
        <3>2. CASE k < c_j
            <4>1. k = c_sender <=> k = c_sender'
                BY <3>1, <3>2, <1>2, <1>8, <2>2
            <4> QED BY <3>1, <3>2, <4>1, <1>3, <2>1
        <3>3. CASE ~(k < c_j)
            <4>1. ~(k + 1 < c_j) /\ c_fds'[k] = c_fds[k + 1]
                BY <3>1, <3>3, <1>2, <2>1
            <4> QED BY <3>1, <3>3, <4>1, <1>3
        <3> QED BY <3>2, <3>3
    <2>7. BroadcastInv'
        <3>1. \A c, m : Reached(c, m)' <=> Reached(c, m)
            BY <1>8 DEF Reached
        <3>2. \A c \in ChatConn : Single(c, c_msg)'
            BY <1>1, <1>3, <1>8 DEF Single
        <3>3. ~Reached(c_msg[1], c_msg)'
            BY <1>1, <1>3, <1>8 DEF Reached
        <3>4. \A k \in 1..Len(c_fds') :
                Reached(c_fds[k].fd, c_msg)' <=> k < c_j' /\ k # c_sender'
            BY <2>6, <1>1, <1>8 DEF Reached
        <3> QED BY <1>1, <1>2, <1>3, <1>8, <2>2, <2>3, <3>2, <3>3, <3>4 DEF BroadcastInv
    <2>8. WalkInv'
        <3>1. ASSUME Position, ~c_shifted'
              PROVE  Position'
            <4>1. c_sender = c_i /\ c_i < c_j /\ c_i <= Len(c_fds') /\ c_sender' = c_i
                <5>1. c_sender = c_i /\ ~(c_j < c_sender)
                    BY <3>1, <1>1, <1>8 DEF Position
                <5> QED BY <5>1, <1>2, <1>8, <2>1, <2>2
            <4>2. \A k \in 1..Len(c_fds') : k <= c_i => c_fds'[k] = c_fds[k] /\ k \in 1..Len(c_fds)
                BY <4>1, <1>2, <2>1
            <4>3. c_fds'[c_i].fd = c_current
                BY <3>1, <4>1, <4>2, <1>1, <1>2 DEF Position
            <4>4. \A k \in 1..Len(c_fds') : k < c_i /\ "POLLIN" \in c_fds'[k].revents =>
                    c_inbox[c_fds'[k].fd] # <<>> \/ c_peer[c_fds'[k].fd] = "gone"
                BY <3>1, <4>2, <1>1, <1>2 DEF Position
            <4> QED BY <4>1, <4>3, <4>4, <1>1 DEF Position
        <3>2. ~c_shifted' => Position'
            BY <3>1, <1>8 DEF WalkInv
        <3> QED BY <3>2, <1>1, <1>2 DEF WalkInv
    <2> QED BY <2>1, <2>4, <2>5, <2>7, <2>8
<1> QED BY <1>6, <1>7, <1>8 DEF Full!broadcast

\* The end of the loop: everyone in the table but the sender has the message.
LEMMA ChatEndStep ==
    ASSUME ChatInv, Full!BroadcastEnds
    PROVE  ChatInv'
<1> USE DEF ChatInv
<1>1. /\ c_at = "broadcast" /\ c_j > Len(c_fds) /\ c_at' = "hangup"
      /\ UNCHANGED <<c_fds, c_clients, c_i, c_events, c_j, c_sender, c_msg, c_peer, c_inbox>>
      /\ UNCHANGED <<c_sent, c_got, c_current, c_audience, c_shifted, c_undef>>
    BY DEF Full!BroadcastEnds, Full!net, Full!history
<1>2. ChatType' /\ TableInv'
    BY <1>1 DEF ChatType, TableInv
<1>3. NumberInv' /\ WalkInv'
    BY <1>1 DEF NumberInv, HasRead, WalkInv, Position
<1>4. \A k \in 1..Len(c_fds) : c_fds[k].fd \in c_audience => Reached(c_fds[k].fd, c_msg)
    <2> SUFFICES ASSUME NEW k \in 1..Len(c_fds), c_fds[k].fd \in c_audience
                 PROVE  Reached(c_fds[k].fd, c_msg)
        OBVIOUS
    <2>1. k < c_j /\ k # c_sender
        BY <1>1 DEF ChatType, BroadcastInv
    <2> QED BY <1>1, <2>1 DEF BroadcastInv
<1>5. BroadcastInv'
    BY <1>1, <1>4 DEF BroadcastInv, Reached, Single
<1> QED BY <1>2, <1>3, <1>5

\* The second test of a turn removes the client of the turn, if nothing has moved.
LEMMA ChatHangupStep ==
    ASSUME ChatInv, Full!Hangup
    PROVE  ChatInv'
<1> USE DEF ChatInv
<1>1. /\ c_at = "hangup" /\ c_msg' = <<>> /\ c_audience' = {}
      /\ UNCHANGED <<c_i, c_events, c_j, c_sender, c_peer, c_inbox, c_sent, c_got>>
      /\ UNCHANGED <<c_current, c_shifted>>
    BY DEF Full!Hangup, Full!net
<1>2. ~c_undef /\ c_i \in Nat /\ c_i >= 1 /\ Len(c_fds) \in Nat
    BY <1>1 DEF WalkInv, ChatType
<1>3. NumberInv'
    BY <1>1 DEF NumberInv, HasRead
<1>4. CASE c_at' = "walk" /\ UNCHANGED <<c_fds, c_clients, c_undef>>
    <2>1. ChatType' /\ TableInv' /\ BroadcastInv'
        BY <1>1, <1>4 DEF ChatType, TableInv, BroadcastInv
    <2>2. WalkInv'
        BY <1>1, <1>2, <1>4 DEF WalkInv, Position
    <2> QED BY <1>3, <2>1, <2>2
<1>5. CASE c_i > Len(c_fds) /\ c_undef' = TRUE /\ c_at' = "lost" /\ UNCHANGED <<c_fds, c_clients>>
    <2>1. ChatType' /\ TableInv' /\ BroadcastInv'
        BY <1>1, <1>5 DEF ChatType, TableInv, BroadcastInv
    <2>2. WalkInv'
        BY <1>1, <1>2, <1>5 DEF WalkInv, Position
    <2> QED BY <1>3, <2>1, <2>2
<1>6. CASE ~(c_i > Len(c_fds)) /\ Full!remove_client(c_i) /\ c_at' = "walk" /\ UNCHANGED c_undef
    <2>1. c_i \in 1..Len(c_fds)
        BY <1>2, <1>6
    <2>2. /\ c_fds' \in Seq(Row) /\ Len(c_fds') = Len(c_fds) - 1
          /\ \A n \in 1..Len(c_fds') : c_fds'[n] = IF n < c_i THEN c_fds[n] ELSE c_fds[n + 1]
          /\ TableInv'
        BY <1>1, <1>6, <2>1, RemoveClient
    <2>3. ChatType' /\ BroadcastInv'
        BY <1>1, <1>6, <2>2 DEF ChatType, BroadcastInv
    <2>4. WalkInv'
        <3>1. Position => Position'
            BY <1>1, <1>2, <1>6, <2>1, <2>2 DEF Position
        <3> QED BY <3>1, <1>1, <1>2, <1>6 DEF WalkInv
    <2> QED BY <1>3, <2>2, <2>3, <2>4
<1> QED BY <1>4, <1>5, <1>6 DEF Full!Hangup

\* Every step of the server with either table keeps the invariant.
LEMMA ChatStep ==
    ASSUME ChatInv, Full!Next \/ Roomy!Next
    PROVE  ChatInv'
<1>1. \/ \E c \in ChatConn : Full!Connect(c) \/ Full!Say(c) \/ Full!Leave(c)
      \/ Full!Poll \/ Roomy!Poll \/ Full!Walk \/ Full!read_client \/ Full!NoRead
      \/ Full!broadcast \/ Full!BroadcastEnds \/ Full!Hangup
    <2>1. CASE Full!Next
        BY <2>1 DEF Full!Next
    <2>2. CASE Roomy!Next
        <3>1. \A c \in ChatConn : /\ Roomy!Connect(c) <=> Full!Connect(c)
                                  /\ Roomy!Say(c) <=> Full!Say(c)
                                  /\ Roomy!Leave(c) <=> Full!Leave(c)
            BY DEF Roomy!Connect, Roomy!Say, Roomy!Leave, Full!Connect, Full!Say, Full!Leave,
                   Roomy!server, Roomy!history, Full!server, Full!history
        <3>2. Roomy!Walk <=> Full!Walk
            BY DEF Roomy!Walk, Full!Walk, Roomy!net, Full!net, Roomy!Nobody, Full!Nobody
        <3>3. Roomy!read_client <=> Full!read_client
            BY DEF Roomy!read_client, Full!read_client, Roomy!remove_client, Full!remove_client,
                   Roomy!RemoveAt, Full!RemoveAt
        <3>4. (Roomy!NoRead <=> Full!NoRead) /\ (Roomy!BroadcastEnds <=> Full!BroadcastEnds)
            BY DEF Roomy!NoRead, Full!NoRead, Roomy!BroadcastEnds, Full!BroadcastEnds,
                   Roomy!net, Full!net, Roomy!history, Full!history
        <3>5. Roomy!broadcast <=> Full!broadcast
            BY DEF Roomy!broadcast, Full!broadcast, Roomy!remove_client, Full!remove_client,
                   Roomy!RemoveAt, Full!RemoveAt, Roomy!Follow, Full!Follow
        <3>6. Roomy!Hangup <=> Full!Hangup
            BY DEF Roomy!Hangup, Full!Hangup, Roomy!remove_client, Full!remove_client,
                   Roomy!RemoveAt, Full!RemoveAt, Roomy!net, Full!net
        <3> QED BY <2>2, <3>1, <3>2, <3>3, <3>4, <3>5, <3>6 DEF Roomy!Next
    <2> QED BY <2>1, <2>2
<1> QED BY <1>1, ChatPeerStep, ChatPollStep, ChatWalkStep, ChatReadStep, ChatBroadcastStep,
           ChatEndStep, ChatHangupStep

\* The invariant of the vector chat server gives what the runs check of it.
LEMMA ChatPromise ==
    ASSUME ChatInv
    PROVE  Full!Correct
<1> USE DEF ChatInv
<1>1. ASSUME c_msg # <<>>
      PROVE  /\ Full!Places(c_msg[1], c_msg) = {}
             /\ \A c \in ChatConn : \A k, l \in Full!Places(c, c_msg) : k = l
             /\ c_at = "hangup" =>
                  \A c \in c_audience \cap Full!Listed(c_fds) : Full!Places(c, c_msg) # {}
    <2>1. Full!Places(c_msg[1], c_msg) = {}
        BY <1>1 DEF BroadcastInv, Reached, Full!Places
    <2>2. \A c \in ChatConn : \A k, l \in Full!Places(c, c_msg) : k = l
        BY <1>1 DEF BroadcastInv, Single, Full!Places
    <2>3. ASSUME c_at = "hangup", NEW c \in c_audience \cap Full!Listed(c_fds)
          PROVE  Full!Places(c, c_msg) # {}
        <3>1. PICK k \in 1..Len(c_fds) : c = c_fds[k].fd
            BY DEF Full!Listed
        <3> QED BY <1>1, <2>3, <3>1 DEF BroadcastInv, Reached, Full!Places
    <2> QED BY <2>1, <2>2, <2>3
<1>2. ASSUME ~c_shifted
      PROVE  /\ ~c_undef
             /\ c_at \in {"turn", "broadcast", "hangup"} =>
                    c_i <= Len(c_fds) /\ c_fds[c_i].fd = c_current
             /\ c_at = "turn" /\ "POLLIN" \in c_events =>
                  c_inbox[c_current] # <<>> \/ c_peer[c_current] = "gone"
    <2>1. Position /\ ~c_undef
        BY <1>2 DEF WalkInv
    <2>2. c_at = "turn" => c_i \in 1..Len(c_fds)
        BY DEF WalkInv, ChatType
    <2> QED BY <2>1, <2>2 DEF Position
<1> QED BY <1>1, <1>2 DEF Full!Correct, TableInv

-----------------------------------------------------------------------------
(* The chat server with an array of slots. *)

Heard == Said \cup ({"joined"} \X ChatConn)
Place == 1..PollSlots
Socket == [fd : ChatConn \cup {"-1"}, revents : SUBSET Event]

PollType ==
    /\ p_slot \in [Place -> Socket]
    /\ p_at \in {"poll", "walk", "broadcast"}
    /\ p_i \in Nat /\ p_j \in Nat /\ p_from \in Nat
    /\ p_msg \in Heard \cup {<<>>}
    /\ p_peer \in [ChatConn -> {"new", "connecting", "open", "gone", "refused"}]
    /\ p_inbox \in [ChatConn -> Seq(Said)] /\ p_got \in [ChatConn -> Seq(Heard)]
    /\ p_sent \in [ChatConn -> Nat] /\ p_closed \in [ChatConn -> Nat]

Taken(k) == p_slot[k].fd # "-1"

\* A client has one slot, is accepted and not closed, and nobody is closed before being
\* accepted or refused.
SlotInv ==
    /\ \A k, l \in Place : Taken(k) /\ p_slot[k].fd = p_slot[l].fd => k = l
    /\ \A k \in Place : Taken(k) =>
         p_peer[p_slot[k].fd] \in {"open", "gone"} /\ p_closed[p_slot[k].fd] = 0
    /\ \A c \in ChatConn :
         p_closed[c] <= 1 /\ (p_peer[c] \in {"new", "connecting"} => p_closed[c] = 0)

\* The message has been received, or it announces a client that has been accepted.
IsOld(m) ==
    \/ m[1] = "joined" /\ p_peer[m[2]] \notin {"new", "connecting"}
    \/ m[1] # "joined" /\ m[2] + Len(p_inbox[m[1]]) <= p_sent[m[1]]

PollNumberInv ==
    /\ \A c \in ChatConn :
        /\ Len(p_inbox[c]) <= p_sent[c]
        /\ \A k \in 1..Len(p_inbox[c]) : p_inbox[c][k] = <<c, p_sent[c] - Len(p_inbox[c]) + k>>
    /\ \A c \in ChatConn : \A k \in 1..Len(p_got[c]) : IsOld(p_got[c][k])
    /\ p_msg # <<>> => IsOld(p_msg)

\* c was sent m, and was not sent it twice.
Told(c, m) == \E k \in 1..Len(p_got[c]) : p_got[c][k] = m
Once(c, m) == \A k, l \in 1..Len(p_got[c]) : p_got[c][k] = m /\ p_got[c][l] = m => k = l

\* A broadcast has reached exactly the slots before its index without the one it leaves
\* out, which is still the sender's.
PollBroadcastInv ==
    /\ p_at = "broadcast" <=> p_msg # <<>>
    /\ p_at = "broadcast" =>
        /\ p_j >= 1
        /\ p_from # 0 => /\ p_from \in Place /\ p_slot[p_from].fd = p_msg[1] /\ p_msg \in Said
                         /\ ~Told(p_msg[1], p_msg) /\ p_msg[1] \notin p_audience
        /\ \A c \in ChatConn : Once(c, p_msg)
        /\ \A k \in Place : Taken(k) => (Told(p_slot[k].fd, p_msg) <=> k < p_j /\ k # p_from)

\* What poll reported of a slot that the walk has still to meet is still so, unless the slot
\* was closed.
PollWalkInv ==
    /\ p_at = "walk" => p_i >= 1
    /\ p_at # "poll" =>
        \A k \in Place :
            /\ k > p_i \/ (k = p_i /\ p_at = "walk")
            /\ Taken(k) /\ p_slot[k].revents # {}
            => p_inbox[p_slot[k].fd] # <<>> \/ p_peer[p_slot[k].fd] = "gone"

PollInv == PollType /\ SlotInv /\ PollNumberInv /\ PollBroadcastInv /\ PollWalkInv

\* What is in the slots, the sockets and the transcripts of the peers.
LEMMA PollElements ==
    ASSUME PollType
    PROVE  /\ \A k \in Place : p_slot[k] \in Socket /\ (Taken(k) => p_slot[k].fd \in ChatConn)
           /\ \A c \in ChatConn : p_inbox[c] \in Seq(Said) /\ p_sent[c] \in Nat
           /\ \A c \in ChatConn : Len(p_inbox[c]) \in Nat /\ Len(p_got[c]) \in Nat
           /\ \A c \in ChatConn : \A k \in 1..Len(p_got[c]) : p_got[c][k] \in Heard
<1>1. ASSUME NEW k \in Place
      PROVE  p_slot[k] \in Socket /\ (Taken(k) => p_slot[k].fd \in ChatConn)
    <2>1. p_slot[k] \in Socket
        BY DEF PollType
    <2> QED BY <2>1 DEF Socket, Taken
<1>2. ASSUME NEW c \in ChatConn
      PROVE  /\ p_inbox[c] \in Seq(Said) /\ p_sent[c] \in Nat
             /\ Len(p_inbox[c]) \in Nat /\ Len(p_got[c]) \in Nat
             /\ \A k \in 1..Len(p_got[c]) : p_got[c][k] \in Heard
    <2>1. p_inbox[c] \in Seq(Said) /\ p_got[c] \in Seq(Heard) /\ p_sent[c] \in Nat
        BY DEF PollType
    <2> QED BY <2>1, ElementOfSeq
<1> QED BY <1>1, <1>2

\* A message is one of a peer or an announcement, never both.
LEMMA HeardKinds ==
    ASSUME NEW m \in Heard
    PROVE  \/ m \in Said /\ m[1] \in ChatConn /\ m[2] \in Nat /\ m[1] # "joined"
           \/ m \notin Said /\ m[1] = "joined" /\ m[2] \in ChatConn
BY ChatAssumption DEF Heard, Said

\* What is old stays old.
LEMMA OldStays ==
    ASSUME PollType, PollType', NEW m \in Heard, IsOld(m),
           \A c \in ChatConn : Len(p_inbox'[c]) + p_sent[c] <= Len(p_inbox[c]) + p_sent'[c],
           \A c \in ChatConn : p_peer[c] \notin {"new", "connecting"} =>
                               p_peer'[c] \notin {"new", "connecting"}
    PROVE  IsOld(m)'
<1>1. CASE m[1] = "joined"
    BY <1>1, HeardKinds DEF IsOld
<1>2. CASE m[1] # "joined"
    <2> DEFINE c == m[1]
    <2>1. m[1] \in ChatConn /\ m[2] \in Nat /\ m[2] + Len(p_inbox[c]) <= p_sent[c]
        BY <1>2, HeardKinds DEF IsOld
    <2>2. /\ p_inbox[c] \in Seq(Said) /\ p_inbox'[c] \in Seq(Said)
          /\ p_sent[c] \in Nat /\ p_sent'[c] \in Nat
        BY <2>1 DEF PollType
    <2>3. m[2] + Len(p_inbox'[c]) <= p_sent'[c]
        <3>1. Len(p_inbox'[c]) + p_sent[c] <= Len(p_inbox[c]) + p_sent'[c]
            BY <2>1
        <3> HIDE DEF c
        <3> QED BY <2>1, <2>2, <3>1
    <2> QED BY <1>2, <2>3 DEF IsOld
<1> QED BY <1>1, <1>2

\* If what was received is not forgotten, the transcripts and the message stay old.
LEMMA AllOld ==
    ASSUME PollType, PollType', PollNumberInv, UNCHANGED p_got,
           p_msg' = p_msg \/ p_msg' = <<>>,
           \A c \in ChatConn : Len(p_inbox'[c]) + p_sent[c] <= Len(p_inbox[c]) + p_sent'[c],
           \A c \in ChatConn : p_peer[c] \notin {"new", "connecting"} =>
                               p_peer'[c] \notin {"new", "connecting"}
    PROVE  /\ \A c \in ChatConn : \A k \in 1..Len(p_got'[c]) : IsOld(p_got[c][k])'
           /\ p_msg' # <<>> => IsOld(p_msg)'
<1>1. \A m \in Heard : IsOld(m) => IsOld(m)'
    BY OldStays
<1>2. ASSUME NEW c \in ChatConn, NEW k \in 1..Len(p_got[c])
      PROVE  IsOld(p_got[c][k])'
    <2>1. p_got[c][k] \in Heard /\ IsOld(p_got[c][k])
        BY PollElements DEF PollNumberInv
    <2> QED BY <1>1, <2>1 DEF IsOld
<1>3. ASSUME p_msg' # <<>>
      PROVE  IsOld(p_msg)'
    <2>1. p_msg' = p_msg /\ p_msg \in Heard /\ IsOld(p_msg)
        BY <1>3 DEF PollType, PollNumberInv
    <2> QED BY <1>1, <2>1 DEF IsOld
<1> QED BY <1>2, <1>3

\* The empty array satisfies the invariant.
LEMMA PollInit ==
    ASSUME Slots!Init
    PROVE  PollInv
<1> USE ChatAssumption DEF Slots!Init, Slots!Slots, Slots!Free, Place
<1>1. PollType
    <2>1. p_slot \in [Place -> Socket]
        BY DEF Socket
    <2> QED BY <2>1 DEF PollType
<1>2. SlotInv
    BY DEF SlotInv, Taken
<1>3. PollNumberInv
    BY DEF PollNumberInv
<1>4. PollBroadcastInv /\ PollWalkInv
    BY DEF PollBroadcastInv, PollWalkInv
<1> QED BY <1>1, <1>2, <1>3, <1>4 DEF PollInv

\* close of a slot's descriptor: the slot is free and the descriptor was open.
LEMMA CloseSlot ==
    ASSUME PollType, SlotInv, NEW k \in Place, Taken(k), Slots!Close(k), UNCHANGED p_peer
    PROVE  /\ p_slot' \in [Place -> Socket] /\ p_closed' \in [ChatConn -> Nat]
           /\ \A l \in Place : Taken(l)' => l # k /\ Taken(l) /\ p_slot'[l] = p_slot[l]
           /\ \A l \in Place : l # k => p_slot'[l] = p_slot[l]
           /\ SlotInv'
<1>1. p_slot[k] \in Socket /\ p_slot[k].fd \in ChatConn
    BY PollElements
<1>2. p_slot'[k].fd = "-1" /\ p_slot'[k] \in Socket /\ p_slot' \in [Place -> Socket]
      /\ \A l \in Place : l # k => p_slot'[l] = p_slot[l]
    <2>1. p_slot' = [p_slot EXCEPT ![k] = [p_slot[k] EXCEPT !.fd = "-1"]]
        BY DEF Slots!Close, Slots!Free
    <2>2. [p_slot[k] EXCEPT !.fd = "-1"] \in Socket /\ [p_slot[k] EXCEPT !.fd = "-1"].fd = "-1"
        BY <1>1 DEF Socket
    <2> QED BY <2>1, <2>2 DEF PollType
<1>3. \A l \in Place : Taken(l)' => l # k /\ Taken(l) /\ p_slot'[l] = p_slot[l]
    BY <1>2 DEF Taken
<1>4. /\ p_closed' \in [ChatConn -> Nat] /\ p_closed'[p_slot[k].fd] = 1
      /\ \A c \in ChatConn : c # p_slot[k].fd => p_closed'[c] = p_closed[c]
    <2>1. p_closed' = [p_closed EXCEPT ![p_slot[k].fd] = @ + 1] /\ p_closed[p_slot[k].fd] = 0
        BY DEF Slots!Close, SlotInv
    <2> QED BY <1>1, <2>1 DEF PollType
<1>5. \A l \in Place : Taken(l)' => p_slot[l].fd \in ChatConn /\ p_slot[l].fd # p_slot[k].fd
    BY <1>3, PollElements DEF SlotInv
<1>6. \A l \in Place : Taken(l)' =>
        p_peer'[p_slot'[l].fd] \in {"open", "gone"} /\ p_closed'[p_slot'[l].fd] = 0
    BY <1>3, <1>4, <1>5 DEF SlotInv
<1>7. \A l, n \in Place : Taken(l)' /\ p_slot'[l].fd = p_slot'[n].fd => l = n
    <2> SUFFICES ASSUME NEW l \in Place, NEW n \in Place, Taken(l)', p_slot'[l].fd = p_slot'[n].fd
                 PROVE  l = n
        OBVIOUS
    <2>1. Taken(n)'
        BY DEF Taken
    <2> QED BY <1>3, <2>1 DEF SlotInv
<1>8. \A c \in ChatConn :
        p_closed'[c] <= 1 /\ (p_peer'[c] \in {"new", "connecting"} => p_closed'[c] = 0)
    <2> TAKE c \in ChatConn
    <2>1. CASE c = p_slot[k].fd
        BY <2>1, <1>4 DEF SlotInv
    <2>2. CASE c # p_slot[k].fd
        BY <2>2, <1>4 DEF SlotInv
    <2> QED BY <2>1, <2>2
<1> QED BY <1>2, <1>3, <1>4, <1>6, <1>7, <1>8 DEF SlotInv

\* A peer that connects, speaks or leaves keeps the invariant of the array server.
LEMMA PollPeerStep ==
    ASSUME PollInv, NEW c \in ChatConn, Slots!Connect(c) \/ Slots!Say(c) \/ Slots!Leave(c)
    PROVE  PollInv'
<1> USE DEF PollInv
<1>1. UNCHANGED <<p_slot, p_at, p_i, p_j, p_from, p_msg, p_got, p_audience, p_closed>>
    BY DEF Slots!Connect, Slots!Say, Slots!Leave, Slots!server
<1>2. \/ /\ UNCHANGED <<p_inbox, p_sent>>
         /\ \/ p_peer[c] = "new" /\ p_peer' = [p_peer EXCEPT ![c] = "connecting"]
            \/ p_peer[c] = "open" /\ p_peer' = [p_peer EXCEPT ![c] = "gone"]
      \/ /\ UNCHANGED p_peer
         /\ p_sent' = [p_sent EXCEPT ![c] = @ + 1]
         /\ p_inbox' = [p_inbox EXCEPT ![c] = Append(@, <<c, p_sent[c] + 1>>)]
    BY DEF Slots!Connect, Slots!Say, Slots!Leave
<1>3. /\ p_peer' \in [ChatConn -> {"new", "connecting", "open", "gone", "refused"}]
      /\ \A x \in ChatConn : /\ p_peer[x] = "gone" => p_peer'[x] = "gone"
                             /\ p_peer[x] \in {"open", "gone"} => p_peer'[x] \in {"open", "gone"}
                             /\ p_peer[x] \notin {"new", "connecting"} =>
                                p_peer'[x] \notin {"new", "connecting"}
                             /\ p_peer'[x] \in {"new", "connecting"} =>
                                p_peer[x] \in {"new", "connecting"}
    BY <1>2 DEF PollType
<1>4. /\ p_sent' \in [ChatConn -> Nat] /\ p_inbox' \in [ChatConn -> Seq(Said)]
      /\ \A x \in ChatConn : p_inbox[x] # <<>> => p_inbox'[x] # <<>>
    <2>1. CASE UNCHANGED <<p_inbox, p_sent>>
        BY <2>1 DEF PollType
    <2>2. CASE /\ p_sent' = [p_sent EXCEPT ![c] = @ + 1]
               /\ p_inbox' = [p_inbox EXCEPT ![c] = Append(@, <<c, p_sent[c] + 1>>)]
        <3>1. <<c, p_sent[c] + 1>> \in Said /\ p_inbox[c] \in Seq(Said)
            BY DEF PollType, Said
        <3>2. /\ Append(p_inbox[c], <<c, p_sent[c] + 1>>) \in Seq(Said)
              /\ Append(p_inbox[c], <<c, p_sent[c] + 1>>) # <<>>
            BY <3>1, AppendProperties
        <3> QED BY <2>2, <3>2 DEF PollType
    <2> QED BY <1>2, <2>1, <2>2
<1>5. PollType'
    BY <1>1, <1>3, <1>4 DEF PollType
<1>6. \A k \in Place : Taken(k) => p_slot[k].fd \in ChatConn
    BY PollElements
<1>7. SlotInv'
    BY <1>1, <1>3, <1>6 DEF SlotInv, Taken
<1>8. \A x \in ChatConn : Len(p_inbox'[x]) + p_sent[x] <= Len(p_inbox[x]) + p_sent'[x]
    <2> TAKE x \in ChatConn
    <2>1. p_inbox[x] \in Seq(Said) /\ p_sent[x] \in Nat
        BY DEF PollType
    <2>2. CASE UNCHANGED <<p_inbox, p_sent>> \/ x # c
        BY <1>2, <2>1, <2>2 DEF PollType
    <2>3. CASE x = c /\ ~UNCHANGED <<p_inbox, p_sent>>
        <3>1. p_sent'[c] = p_sent[c] + 1 /\ p_inbox'[c] = Append(p_inbox[c], <<c, p_sent[c] + 1>>)
            BY <1>2, <2>3 DEF PollType
        <3> QED BY <3>1, <2>1, <2>3 DEF Said
    <2> QED BY <2>2, <2>3
<1>9. PollNumberInv'
    <2>1. ASSUME NEW x \in ChatConn
          PROVE  /\ Len(p_inbox'[x]) <= p_sent'[x]
                 /\ \A k \in 1..Len(p_inbox'[x]) :
                        p_inbox'[x][k] = <<x, p_sent'[x] - Len(p_inbox'[x]) + k>>
        <3>1. /\ p_inbox[x] \in Seq(Said) /\ p_sent[x] \in Nat /\ Len(p_inbox[x]) <= p_sent[x]
              /\ \A k \in 1..Len(p_inbox[x]) :
                        p_inbox[x][k] = <<x, p_sent[x] - Len(p_inbox[x]) + k>>
            BY DEF PollType, PollNumberInv
        <3>2. CASE UNCHANGED <<p_inbox, p_sent>> \/ x # c
            BY <1>2, <3>1, <3>2 DEF PollType
        <3>3. CASE x = c /\ ~UNCHANGED <<p_inbox, p_sent>>
            <4>1. p_sent'[c] = p_sent[c] + 1 /\ p_inbox'[c] = Append(p_inbox[c], <<c, p_sent[c] + 1>>)
                BY <1>2, <3>3 DEF PollType
            <4> QED BY <3>1, <3>3, <4>1, SayOnce
        <3> QED BY <3>2, <3>3
    <2>2. /\ \A x \in ChatConn : \A k \in 1..Len(p_got'[x]) : IsOld(p_got[x][k])'
          /\ p_msg' # <<>> => IsOld(p_msg)'
        BY <1>1, <1>3, <1>5, <1>8, AllOld
    <2> QED BY <2>1, <2>2 DEF PollNumberInv
<1>10. PollBroadcastInv'
    BY <1>1 DEF PollBroadcastInv, Told, Once, Taken
<1>11. PollWalkInv'
    BY <1>1, <1>3, <1>4, <1>6 DEF PollWalkInv, Taken
<1> QED BY <1>5, <1>7, <1>9, <1>10, <1>11

\* poll and accept: a refusal, a new client whose slot was free, or a walk.
LEMMA PollPollStep ==
    ASSUME PollInv, Slots!Poll
    PROVE  PollInv'
<1> USE DEF PollInv
<1>1. p_at = "poll" /\ UNCHANGED <<p_inbox, p_sent, p_got>> /\ p_msg = <<>>
    BY DEF Slots!Poll, PollBroadcastInv
<1>2. PICK table \in [Place -> Socket] :
        /\ Slots!Polled(table)
        /\ \/ /\ p_slot' = table /\ p_at' = "walk" /\ p_i' = 1
              /\ UNCHANGED <<p_peer, p_j, p_from, p_msg, p_audience, p_closed>>
           \/ \E c \in ChatConn, k \in Place :
                /\ p_peer[c] = "connecting" /\ k \notin Slots!Used(p_slot)
                /\ p_slot' = [table EXCEPT ![k] = [fd |-> c, revents |-> {}]]
                /\ p_peer' = [p_peer EXCEPT ![c] = "open"]
                /\ Slots!begin_broadcast(0, <<"joined", c>>, p_slot') /\ p_i' = 0
                /\ UNCHANGED p_closed
           \/ \E c \in ChatConn :
                /\ p_peer[c] = "connecting" /\ p_slot' = table
                /\ p_peer' = [p_peer EXCEPT ![c] = "refused"]
                /\ p_closed' = [p_closed EXCEPT ![c] = @ + 1]
                /\ UNCHANGED <<p_at, p_i, p_j, p_from, p_msg, p_audience>>
    BY DEF Slots!Poll, Slots!Slots, Slots!Free, Place, Socket, Event
<1>3. ASSUME NEW k \in Place
      PROVE  /\ table[k] \in Socket /\ table[k].fd = p_slot[k].fd
             /\ Taken(k) /\ table[k].revents # {} =>
                  p_inbox[p_slot[k].fd] # <<>> \/ p_peer[p_slot[k].fd] = "gone"
    BY <1>2 DEF Slots!Polled, Slots!Used, Slots!Slots, Slots!Free, Slots!Reports, Place, Taken
<1>4. \A k \in Place : Taken(k) => p_slot[k].fd \in ChatConn /\ p_peer[p_slot[k].fd] # "connecting"
    BY PollElements DEF SlotInv
<1>5. \A x \in ChatConn : Len(p_inbox'[x]) + p_sent[x] <= Len(p_inbox[x]) + p_sent'[x]
    BY <1>1, PollElements
<1>6. CASE /\ p_slot' = table /\ p_at' = "walk" /\ p_i' = 1
           /\ UNCHANGED <<p_peer, p_j, p_from, p_msg, p_audience, p_closed>>
    <2>1. PollType'
        BY <1>1, <1>6 DEF PollType
    <2>2. SlotInv'
        BY <1>3, <1>6 DEF SlotInv, Taken
    <2>3. PollNumberInv'
        BY <1>1, <1>6 DEF PollNumberInv, IsOld
    <2>4. PollBroadcastInv'
        BY <1>1, <1>6 DEF PollBroadcastInv
    <2>5. PollWalkInv'
        BY <1>1, <1>3, <1>6 DEF PollWalkInv, Taken
    <2> QED BY <2>1, <2>2, <2>3, <2>4, <2>5
<1>7. ASSUME NEW c \in ChatConn, NEW k \in Place,
             p_peer[c] = "connecting", k \notin Slots!Used(p_slot),
             p_slot' = [table EXCEPT ![k] = [fd |-> c, revents |-> {}]],
             p_peer' = [p_peer EXCEPT ![c] = "open"],
             Slots!begin_broadcast(0, <<"joined", c>>, p_slot'), p_i' = 0, UNCHANGED p_closed
      PROVE  PollInv'
    <2>1. /\ p_at' = "broadcast" /\ p_j' = 1 /\ p_from' = 0 /\ p_msg' = <<"joined", c>>
        BY <1>7 DEF Slots!begin_broadcast
    <2>2. ~Taken(k) /\ c # "-1" /\ c \in ChatConn
        BY <1>7, ChatAssumption DEF Slots!Used, Slots!Slots, Slots!Free, Place, Taken
    <2>3. /\ p_slot' \in [Place -> Socket] /\ p_slot'[k].fd = c /\ p_slot'[k].revents = {}
          /\ \A l \in Place : l # k => p_slot'[l] = table[l]
        <3>1. [fd |-> c, revents |-> {}] \in Socket
            BY DEF Socket
        <3> QED BY <1>2, <1>7, <3>1
    <2>4. /\ p_peer' \in [ChatConn -> {"new", "connecting", "open", "gone", "refused"}]
          /\ p_peer'[c] = "open" /\ \A x \in ChatConn : x # c => p_peer'[x] = p_peer[x]
        BY <1>7 DEF PollType
    <2>5. p_msg' \in Heard /\ p_msg' # <<>> /\ p_msg'[1] = "joined" /\ p_msg'[2] = c
        BY <2>1 DEF Heard
    <2>6. PollType'
        BY <1>1, <1>7, <2>1, <2>3, <2>4, <2>5 DEF PollType
    <2>7. \A l \in Place : l # k /\ Taken(l)' =>
            Taken(l) /\ p_slot'[l].fd = p_slot[l].fd /\ p_slot[l].fd \in ChatConn
            /\ p_slot'[l].revents = table[l].revents /\ p_slot[l].fd # c
        BY <1>3, <1>4, <1>7, <2>3 DEF Taken
    <2>8. SlotInv'
        <3>1. \A l, n \in Place : Taken(l)' /\ p_slot'[l].fd = p_slot'[n].fd => l = n
            <4> SUFFICES ASSUME NEW l \in Place, NEW n \in Place, Taken(l)',
                                p_slot'[l].fd = p_slot'[n].fd
                         PROVE  l = n
                OBVIOUS
            <4>1. Taken(n)'
                BY DEF Taken
            <4>2. CASE l # k /\ n # k
                BY <4>1, <4>2, <2>7 DEF SlotInv
            <4>3. CASE l = k \/ n = k
                BY <4>1, <4>3, <2>3, <2>7
            <4> QED BY <4>2, <4>3
        <3>2. \A l \in Place : Taken(l)' =>
                p_peer'[p_slot'[l].fd] \in {"open", "gone"} /\ p_closed'[p_slot'[l].fd] = 0
            <4> SUFFICES ASSUME NEW l \in Place, Taken(l)'
                         PROVE  /\ p_peer'[p_slot'[l].fd] \in {"open", "gone"}
                                /\ p_closed'[p_slot'[l].fd] = 0
                OBVIOUS
            <4>1. CASE l = k
                BY <4>1, <1>7, <2>3, <2>4 DEF SlotInv
            <4>2. CASE l # k
                BY <4>2, <1>7, <2>4, <2>7 DEF SlotInv
            <4> QED BY <4>1, <4>2
        <3>3. \A x \in ChatConn :
                p_closed'[x] <= 1 /\ (p_peer'[x] \in {"new", "connecting"} => p_closed'[x] = 0)
            BY <1>7, <2>4 DEF SlotInv
        <3> QED BY <3>1, <3>2, <3>3 DEF SlotInv
    <2>9. PollNumberInv'
        <3>1. \A m \in Heard : IsOld(m) => IsOld(m)'
            BY <1>5, <2>4, <2>6, OldStays
        <3>2. ASSUME NEW x \in ChatConn, NEW n \in 1..Len(p_got'[x])
              PROVE  IsOld(p_got[x][n])'
            <4>1. p_got[x][n] \in Heard /\ IsOld(p_got[x][n])
                BY <1>1, PollElements DEF PollNumberInv
            <4> QED BY <1>1, <3>1, <4>1 DEF IsOld
        <3>3. IsOld(p_msg)'
            BY <2>4, <2>5 DEF IsOld
        <3> QED BY <1>1, <3>2, <3>3 DEF PollNumberInv
    <2>10. \A x \in ChatConn : ~Told(x, p_msg)'
        <3> SUFFICES ASSUME NEW x \in ChatConn, NEW n \in 1..Len(p_got[x]), p_got[x][n] = p_msg'
                     PROVE  FALSE
            BY <1>1 DEF Told
        <3> QED BY <1>7, <2>5 DEF PollNumberInv, IsOld
    <2>11. PollBroadcastInv'
        <3>1. \A x \in ChatConn : Once(x, p_msg)'
            BY <2>10 DEF Once, Told
        <3>2. \A l \in Place : Taken(l)' => p_slot'[l].fd \in ChatConn
            BY <2>2, <2>3, <2>7
        <3>3. \A l \in Place : Taken(l)' => (Told(p_slot[l].fd, p_msg)' <=> l < 1 /\ l # p_from')
            BY <2>10, <3>2 DEF Place, Told
        <3> QED BY <2>1, <2>5, <3>1, <3>3 DEF PollBroadcastInv
    <2>12. PollWalkInv'
        <3>1. ASSUME NEW l \in Place, Taken(l)', p_slot'[l].revents # {}
              PROVE  p_inbox'[p_slot'[l].fd] # <<>> \/ p_peer'[p_slot'[l].fd] = "gone"
            BY <3>1, <1>1, <1>3, <2>3, <2>4, <2>7
        <3> QED BY <2>1, <3>1 DEF PollWalkInv
    <2> QED BY <2>6, <2>8, <2>9, <2>11, <2>12
<1>8. ASSUME NEW c \in ChatConn, p_peer[c] = "connecting", p_slot' = table,
             p_peer' = [p_peer EXCEPT ![c] = "refused"],
             p_closed' = [p_closed EXCEPT ![c] = @ + 1],
             UNCHANGED <<p_at, p_i, p_j, p_from, p_msg, p_audience>>
      PROVE  PollInv'
    <2>1. /\ p_peer' \in [ChatConn -> {"new", "connecting", "open", "gone", "refused"}]
          /\ p_peer'[c] = "refused" /\ \A x \in ChatConn : x # c => p_peer'[x] = p_peer[x]
        BY <1>8 DEF PollType
    <2>2. /\ p_closed' \in [ChatConn -> Nat] /\ p_closed'[c] = 1
          /\ \A x \in ChatConn : x # c => p_closed'[x] = p_closed[x]
        <3>1. p_closed[c] = 0
            BY <1>8 DEF SlotInv
        <3> QED BY <3>1, <1>8 DEF PollType
    <2>3. PollType'
        BY <1>1, <1>8, <2>1, <2>2 DEF PollType
    <2>4. SlotInv'
        <3>1. \A l \in Place : Taken(l)' => Taken(l) /\ p_slot'[l].fd = p_slot[l].fd
                                            /\ p_slot[l].fd \in ChatConn /\ p_slot[l].fd # c
            BY <1>3, <1>4, <1>8 DEF Taken
        <3>2. \A l, n \in Place : Taken(l)' /\ p_slot'[l].fd = p_slot'[n].fd => l = n
            BY <1>3, <1>8, <3>1 DEF SlotInv
        <3>3. \A x \in ChatConn :
                p_closed'[x] <= 1 /\ (p_peer'[x] \in {"new", "connecting"} => p_closed'[x] = 0)
            <4> TAKE x \in ChatConn
            <4>1. CASE x = c
                BY <4>1, <2>1, <2>2
            <4>2. CASE x # c
                BY <4>2, <2>1, <2>2 DEF SlotInv
            <4> QED BY <4>1, <4>2
        <3>4. \A l \in Place : Taken(l)' =>
                p_peer'[p_slot'[l].fd] \in {"open", "gone"} /\ p_closed'[p_slot'[l].fd] = 0
            BY <3>1, <2>1, <2>2 DEF SlotInv
        <3> QED BY <3>2, <3>3, <3>4 DEF SlotInv
    <2>5. PollNumberInv'
        <3>1. /\ \A x \in ChatConn : \A k \in 1..Len(p_got'[x]) : IsOld(p_got[x][k])'
              /\ p_msg' # <<>> => IsOld(p_msg)'
            BY <1>1, <1>5, <1>8, <2>1, <2>3, AllOld
        <3> QED BY <1>1, <3>1 DEF PollNumberInv
    <2>6. PollBroadcastInv' /\ PollWalkInv'
        BY <1>1, <1>8 DEF PollBroadcastInv, PollWalkInv
    <2> QED BY <2>3, <2>4, <2>5, <2>6
<1> QED BY <1>2, <1>6, <1>7, <1>8

\* One turn of the walk: a slot that is skipped, a client that is closed, or a message.
LEMMA PollTurnStep ==
    ASSUME PollInv, Slots!Turn
    PROVE  PollInv'
<1> USE DEF PollInv
<1>1. /\ p_at = "walk" /\ p_i \in Place /\ p_i \in Nat /\ p_msg = <<>>
      /\ UNCHANGED <<p_peer, p_sent, p_got>>
    BY ChatAssumption DEF Slots!Turn, PollBroadcastInv, PollWalkInv, PollType, Place
<1>2. \A x \in ChatConn : p_peer[x] \notin {"new", "connecting"} =>
                          p_peer'[x] \notin {"new", "connecting"}
    BY <1>1
<1>3. CASE p_i' = p_i + 1 /\ UNCHANGED <<p_slot, p_inbox, p_closed, p_at, p_j, p_from, p_msg, p_audience>>
    <2>1. PollType' /\ SlotInv'
        BY <1>1, <1>3 DEF PollType, SlotInv, Taken
    <2>2. PollNumberInv' /\ PollBroadcastInv'
        BY <1>1, <1>3 DEF PollNumberInv, IsOld, PollBroadcastInv
    <2>3. PollWalkInv'
        <3>1. \A k \in Place : k > p_i + 1 \/ k = p_i + 1 => k > p_i
            BY <1>1 DEF Place
        <3>2. p_i + 1 >= 1
            BY <1>1
        <3>3. ASSUME NEW k \in Place, k > p_i, Taken(k), p_slot[k].revents # {}
              PROVE  p_inbox[p_slot[k].fd] # <<>> \/ p_peer[p_slot[k].fd] = "gone"
            BY <3>3, <1>1 DEF PollWalkInv
        <3> QED BY <3>1, <3>2, <3>3, <1>1, <1>3 DEF PollWalkInv, Taken
    <2> QED BY <2>1, <2>2, <2>3
<1>4. CASE /\ Taken(p_i) /\ Slots!Close(p_i) /\ p_i' = p_i + 1
           /\ UNCHANGED <<p_inbox, p_at, p_j, p_from, p_msg, p_audience>>
    <2>1. /\ p_slot' \in [Place -> Socket] /\ p_closed' \in [ChatConn -> Nat]
          /\ \A l \in Place : Taken(l)' => l # p_i /\ Taken(l) /\ p_slot'[l] = p_slot[l]
          /\ SlotInv'
        BY <1>1, <1>4, CloseSlot
    <2>2. PollType'
        BY <1>1, <1>4, <2>1 DEF PollType
    <2>3. PollNumberInv' /\ PollBroadcastInv'
        BY <1>1, <1>4 DEF PollNumberInv, IsOld, PollBroadcastInv
    <2>4. PollWalkInv'
        <3>1. \A k \in Place : k > p_i + 1 \/ k = p_i + 1 => k > p_i
            BY <1>1 DEF Place
        <3>2. p_i + 1 >= 1
            BY <1>1
        <3>3. ASSUME NEW k \in Place, k > p_i, Taken(k)', p_slot'[k].revents # {}
              PROVE  p_inbox'[p_slot'[k].fd] # <<>> \/ p_peer'[p_slot'[k].fd] = "gone"
            BY <3>3, <1>1, <1>4, <2>1 DEF PollWalkInv
        <3> QED BY <3>1, <3>2, <3>3, <1>1, <1>4 DEF PollWalkInv
    <2> QED BY <2>1, <2>2, <2>3, <2>4
<1>5. ASSUME NEW c, c = p_slot[p_i].fd, Taken(p_i), p_inbox[c] # <<>>,
             p_inbox' = [p_inbox EXCEPT ![c] = Tail(@)],
             Slots!begin_broadcast(p_i, p_inbox[c][1], p_slot), UNCHANGED <<p_slot, p_i, p_closed>>
      PROVE  PollInv'
    <2> DEFINE s == p_inbox[c]
    <2>1. c \in ChatConn /\ s \in Seq(Said) /\ p_sent[c] \in Nat /\ Len(s) \in Nat \ {0}
        BY <1>1, <1>5, PollElements, EmptySeq
    <2>2. /\ p_inbox'[c] = Tail(s) /\ \A x \in ChatConn : x # c => p_inbox'[x] = p_inbox[x]
          /\ p_inbox' \in [ChatConn -> Seq(Said)]
        BY <1>5, <2>1, HeadTailProperties DEF PollType
    <2>3. /\ Len(Tail(s)) = Len(s) - 1 /\ \A k \in 1..(Len(s) - 1) : Tail(s)[k] = s[k + 1]
        BY <1>5, <2>1, HeadTailProperties
    <2>4. /\ Len(s) <= p_sent[c]
          /\ \A k \in 1..Len(s) : s[k] = <<c, p_sent[c] - Len(s) + k>>
        BY <2>1 DEF PollNumberInv
    <2>5. /\ p_at' = "broadcast" /\ p_j' = 1 /\ p_from' = p_i /\ p_msg' = s[1]
          /\ p_audience' = {p_slot[k].fd : k \in {l \in Place : Taken(l)} \ {p_i}}
        BY <1>5 DEF Slots!begin_broadcast, Slots!Used, Slots!Slots, Slots!Free, Place, Taken
    <2>6. /\ p_msg' = <<c, p_sent[c] - Len(s) + 1>> /\ p_msg' \in Said /\ p_msg' \in Heard
          /\ p_msg'[1] = c /\ p_msg'[2] = p_sent[c] - Len(s) + 1 /\ p_msg' # <<>> /\ c # "joined"
        <3>1. p_msg' = <<c, p_sent[c] - Len(s) + 1>>
            BY <2>1, <2>4, <2>5
        <3>2. p_sent[c] - Len(s) + 1 \in Nat
            BY <2>1, <2>4
        <3> HIDE DEF s
        <3> QED BY <3>1, <3>2, <2>1, ChatAssumption DEF Said, Heard
    <2>7. PollType'
        BY <1>1, <1>5, <2>2, <2>5, <2>6 DEF PollType
    <2>8. SlotInv'
        BY <1>1, <1>5 DEF SlotInv, Taken
    <2>9. \A x \in ChatConn : Len(p_inbox'[x]) + p_sent[x] <= Len(p_inbox[x]) + p_sent'[x]
        <3> TAKE x \in ChatConn
        <3>1. CASE x = c
            BY <3>1, <1>1, <2>1, <2>2, <2>3
        <3>2. CASE x # c
            BY <3>2, <1>1, <2>2, PollElements
        <3> QED BY <3>1, <3>2
    <2>10. PollNumberInv'
        <3>1. ASSUME NEW x \in ChatConn
              PROVE  /\ Len(p_inbox'[x]) <= p_sent'[x]
                     /\ \A k \in 1..Len(p_inbox'[x]) :
                            p_inbox'[x][k] = <<x, p_sent'[x] - Len(p_inbox'[x]) + k>>
            <4>1. CASE x # c
                BY <4>1, <1>1, <2>2 DEF PollNumberInv
            <4>2. CASE x = c
                <5>1. Len(p_inbox'[c]) = Len(s) - 1 /\ Len(s) - 1 <= p_sent[c]
                    BY <2>1, <2>2, <2>3, <2>4
                <5>2. ASSUME NEW k \in 1..(Len(s) - 1)
                      PROVE  Tail(s)[k] = <<c, p_sent[c] - (Len(s) - 1) + k>>
                    <6> HIDE DEF s
                    <6>1. /\ k + 1 \in 1..Len(s)
                          /\ p_sent[c] - (Len(s) - 1) + k = p_sent[c] - Len(s) + (k + 1)
                        BY <2>1
                    <6> QED BY <6>1, <2>3, <2>4
                <5> QED BY <4>2, <5>1, <5>2, <1>1, <2>2
            <4> QED BY <4>1, <4>2
        <3>2. \A m \in Heard : IsOld(m) => IsOld(m)'
            BY <1>2, <2>7, <2>9, OldStays
        <3>3. ASSUME NEW x \in ChatConn, NEW k \in 1..Len(p_got'[x])
              PROVE  IsOld(p_got[x][k])'
            <4>1. p_got[x][k] \in Heard /\ IsOld(p_got[x][k])
                BY <1>1, PollElements DEF PollNumberInv
            <4> QED BY <1>1, <3>2, <4>1 DEF IsOld
        <3>4. IsOld(p_msg)'
            <4>1. Len(p_inbox'[c]) = Len(s) - 1 /\ p_sent'[c] = p_sent[c]
                BY <1>1, <2>2, <2>3
            <4>2. p_msg'[2] + Len(p_inbox'[c]) <= p_sent'[c]
                <5> HIDE DEF s
                <5> QED BY <4>1, <2>1, <2>6
            <4> QED BY <4>2, <2>6 DEF IsOld
        <3> QED BY <3>1, <3>3, <3>4 DEF PollNumberInv
    <2>11. \A x \in ChatConn : ~Told(x, p_msg)'
        <3> SUFFICES ASSUME NEW x \in ChatConn, NEW k \in 1..Len(p_got[x]), p_got[x][k] = p_msg'
                     PROVE  FALSE
            BY <1>1 DEF Told
        <3>1. (p_sent[c] - Len(s) + 1) + Len(s) <= p_sent[c]
            BY <2>6 DEF PollNumberInv, IsOld
        <3> HIDE DEF s
        <3> QED BY <3>1, <2>1
    <2>12. PollBroadcastInv'
        <3>1. \A x \in ChatConn : Once(x, p_msg)'
            BY <2>11 DEF Once, Told
        <3>2. \A k \in Place : Taken(k)' => p_slot'[k].fd \in ChatConn
            BY <1>5, PollElements DEF Taken
        <3>3. \A k \in Place : Taken(k)' => (Told(p_slot[k].fd, p_msg)' <=> k < 1 /\ k # p_from')
            BY <2>11, <3>2 DEF Place, Told
        <3>4. c \notin p_audience'
            BY <1>1, <1>5, <2>5 DEF SlotInv
        <3>5. ~Told(p_msg[1], p_msg)'
            BY <2>1, <2>6, <2>11 DEF Told
        <3> QED BY <1>1, <1>5, <2>5, <2>6, <3>1, <3>3, <3>4, <3>5 DEF PollBroadcastInv
    <2>13. PollWalkInv'
        <3>1. ASSUME NEW k \in Place, k > p_i, Taken(k), p_slot[k].revents # {}
              PROVE  p_inbox'[p_slot[k].fd] # <<>> \/ p_peer'[p_slot[k].fd] = "gone"
            <4>1. p_slot[k].fd \in ChatConn /\ p_slot[k].fd # c
                BY <3>1, <1>1, <1>5, PollElements DEF SlotInv
            <4> QED BY <3>1, <4>1, <1>1, <2>2 DEF PollWalkInv
        <3> QED BY <3>1, <1>5, <2>5 DEF PollWalkInv, Taken
    <2> QED BY <2>7, <2>8, <2>10, <2>12, <2>13
<1>6. \/ /\ p_i' = p_i + 1
         /\ UNCHANGED <<p_slot, p_inbox, p_closed, p_at, p_j, p_from, p_msg, p_audience>>
      \/ /\ Taken(p_i) /\ Slots!Close(p_i) /\ p_i' = p_i + 1
         /\ UNCHANGED <<p_inbox, p_at, p_j, p_from, p_msg, p_audience>>
      \/ /\ Taken(p_i) /\ p_inbox[p_slot[p_i].fd] # <<>>
         /\ p_inbox' = [p_inbox EXCEPT ![p_slot[p_i].fd] = Tail(@)]
         /\ Slots!begin_broadcast(p_i, p_inbox[p_slot[p_i].fd][1], p_slot)
         /\ UNCHANGED <<p_slot, p_i, p_closed>>
    BY DEF Slots!Turn, Slots!skips, Slots!Free, Taken
<1> QED BY <1>3, <1>4, <1>5, <1>6

\* One slot of broadcast's loop: nothing, the message sent, or the client closed.
LEMMA PollBroadcastStep ==
    ASSUME PollInv, Slots!broadcast
    PROVE  PollInv'
<1> USE DEF PollInv
<1>1. /\ p_at = "broadcast" /\ p_j \in Place /\ p_j \in Nat /\ p_j' = p_j + 1
      /\ UNCHANGED <<p_at, p_i, p_from, p_msg, p_peer, p_inbox, p_sent, p_audience>>
    BY ChatAssumption DEF Slots!broadcast, PollBroadcastInv, PollType, Place
<1>2. /\ p_msg \in Heard /\ p_msg # <<>>
      /\ p_from # 0 => /\ p_from \in Place /\ p_slot[p_from].fd = p_msg[1] /\ p_msg \in Said
                       /\ ~Told(p_msg[1], p_msg) /\ p_msg[1] \notin p_audience
      /\ \A c \in ChatConn : Once(c, p_msg)
      /\ \A k \in Place : Taken(k) => (Told(p_slot[k].fd, p_msg) <=> k < p_j /\ k # p_from)
    BY <1>1 DEF PollBroadcastInv, PollType
<1>3. \A k \in Place : Taken(k) => p_slot[k].fd \in ChatConn
    BY PollElements
<1>4. \A k \in Place : k # p_j => (k < p_j <=> k < p_j + 1)
    BY <1>1 DEF Place
<1>5. p_msg[1] = "joined" \/ p_msg[1] \in ChatConn
    BY <1>2, HeardKinds
<1>6. CASE (~Taken(p_j) \/ p_j = p_from) /\ UNCHANGED <<p_slot, p_got, p_closed>>
    <2>1. PollType' /\ SlotInv'
        BY <1>1, <1>6 DEF PollType, SlotInv, Taken
    <2>2. PollNumberInv' /\ PollWalkInv'
        BY <1>1, <1>6 DEF PollNumberInv, IsOld, PollWalkInv, Taken
    <2>3. \A k \in Place : Taken(k) => (Told(p_slot[k].fd, p_msg) <=> k < p_j + 1 /\ k # p_from)
        BY <1>2, <1>4, <1>6
    <2>4. p_j + 1 >= 1
        BY <1>1
    <2>5. PollBroadcastInv'
        BY <1>1, <1>2, <1>6, <2>3, <2>4 DEF PollBroadcastInv, Told, Once, Taken
    <2> QED BY <2>1, <2>2, <2>5
<1>7. ASSUME Taken(p_j), p_j # p_from, NEW x \in ChatConn, x = p_slot[p_j].fd,
             p_got' = [p_got EXCEPT ![x] = Append(@, p_msg)], UNCHANGED <<p_slot, p_closed>>
      PROVE  PollInv'
    <2> DEFINE n == Len(p_got[x])
    <2>1. ~Told(x, p_msg) /\ (p_from # 0 => x # p_msg[1])
        BY <1>1, <1>2, <1>7 DEF SlotInv, Place
    <2>2. /\ p_got' \in [ChatConn -> Seq(Heard)] /\ n \in Nat
          /\ \A c \in ChatConn : c # x => p_got'[c] = p_got[c]
          /\ Len(p_got'[x]) = n + 1 /\ p_got'[x][n + 1] = p_msg
          /\ \A k \in 1..n : p_got'[x][k] = p_got[x][k]
        <3>1. p_got[x] \in Seq(Heard) /\ p_got' = [p_got EXCEPT ![x] = Append(p_got[x], p_msg)]
            BY <1>7 DEF PollType
        <3>2. /\ Append(p_got[x], p_msg) \in Seq(Heard) /\ Len(Append(p_got[x], p_msg)) = n + 1
              /\ Append(p_got[x], p_msg)[n + 1] = p_msg /\ n \in Nat
              /\ \A k \in 1..n : Append(p_got[x], p_msg)[k] = p_got[x][k]
            BY <1>2, <3>1, AppendProperties
        <3> QED BY <3>1, <3>2 DEF PollType
    <2>3. \A k \in 1..(n + 1) : k \in 1..n \/ k = n + 1
        BY <2>2
    <2>4. PollType'
        BY <1>1, <1>7, <2>2 DEF PollType
    <2>5. SlotInv' /\ PollWalkInv'
        BY <1>1, <1>7 DEF SlotInv, PollWalkInv, Taken
    <2>6. PollNumberInv'
        <3>1. ASSUME NEW c \in ChatConn, NEW k \in 1..Len(p_got'[c])
              PROVE  IsOld(p_got[c][k])'
            <4>1. CASE c # x
                BY <4>1, <2>2, <1>1 DEF PollNumberInv, IsOld
            <4>2. CASE c = x /\ k \in 1..n
                BY <4>2, <2>2, <1>1 DEF PollNumberInv, IsOld
            <4>3. CASE c = x /\ k = n + 1
                BY <4>3, <2>2, <1>1, <1>2 DEF PollNumberInv, IsOld
            <4> QED BY <4>1, <4>2, <4>3, <2>2, <2>3
        <3> QED BY <3>1, <1>1 DEF PollNumberInv, IsOld
    <2>7. PollBroadcastInv'
        <3>1. \A c : c # x /\ c \in ChatConn => (Told(c, p_msg)' <=> Told(c, p_msg))
            BY <1>1, <2>2 DEF Told
        <3>2. Told(x, p_msg)'
            <4>1. n + 1 \in 1..Len(p_got'[x]) /\ p_got'[x][n + 1] = p_msg'
                BY <1>1, <2>2
            <4> QED BY <4>1 DEF Told
        <3>3. \A c \in ChatConn : Once(c, p_msg)'
            <4>1. \A c \in ChatConn : c # x => Once(c, p_msg)'
                BY <1>1, <1>2, <2>2 DEF Once
            <4>2. \A k \in 1..Len(p_got'[x]) : p_got'[x][k] = p_msg => k = n + 1
                BY <2>1, <2>2, <2>3 DEF Told
            <4>3. Once(x, p_msg)'
                BY <4>2, <1>1 DEF Once
            <4> QED BY <4>1, <4>3
        <3>4. \A k \in Place : Taken(k)' =>
                (Told(p_slot[k].fd, p_msg)' <=> k < p_j + 1 /\ k # p_from)
            <4> SUFFICES ASSUME NEW k \in Place, Taken(k)
                         PROVE  Told(p_slot[k].fd, p_msg)' <=> k < p_j + 1 /\ k # p_from
                BY <1>7 DEF Taken
            <4>1. CASE k = p_j
                BY <4>1, <3>2, <1>1, <1>7 DEF Told
            <4>2. CASE k # p_j
                <5>1. p_slot[k].fd \in ChatConn /\ p_slot[k].fd # x
                    BY <4>2, <1>1, <1>3, <1>7 DEF SlotInv
                <5>2. Told(p_slot[k].fd, p_msg)' <=> Told(p_slot[k].fd, p_msg)
                    BY <1>7, <5>1, <3>1 DEF Told
                <5> QED BY <4>2, <5>2, <1>2, <1>4
            <4> QED BY <4>1, <4>2
        <3>5. p_from # 0 => ~Told(p_msg[1], p_msg)'
            <4> SUFFICES ASSUME p_from # 0
                         PROVE  ~Told(p_msg[1], p_msg)'
                OBVIOUS
            <4>1. p_msg[1] \in ChatConn /\ p_msg[1] # x
                BY <1>2, <2>1 DEF Said
            <4> QED BY <4>1, <1>1, <1>2, <2>2 DEF Told
        <3>6. p_j' >= 1
            BY <1>1
        <3> QED BY <1>1, <1>2, <1>7, <3>3, <3>4, <3>5, <3>6 DEF PollBroadcastInv
    <2> QED BY <2>4, <2>5, <2>6, <2>7
<1>8. CASE Taken(p_j) /\ p_j # p_from /\ Slots!Close(p_j) /\ UNCHANGED p_got
    <2>1. /\ p_slot' \in [Place -> Socket] /\ p_closed' \in [ChatConn -> Nat]
          /\ \A l \in Place : Taken(l)' => l # p_j /\ Taken(l) /\ p_slot'[l] = p_slot[l]
          /\ \A l \in Place : l # p_j => p_slot'[l] = p_slot[l]
          /\ SlotInv'
        BY <1>1, <1>8, CloseSlot
    <2>2. PollType'
        BY <1>1, <1>8, <2>1 DEF PollType
    <2>3. PollNumberInv' /\ PollWalkInv'
        BY <1>1, <1>8, <2>1 DEF PollNumberInv, IsOld, PollWalkInv
    <2>4. \A k \in Place : Taken(k)' =>
            (Told(p_slot[k].fd, p_msg)' <=> k < p_j + 1 /\ k # p_from)
        <3> SUFFICES ASSUME NEW k \in Place, Taken(k)'
                     PROVE  Told(p_slot[k].fd, p_msg)' <=> k < p_j + 1 /\ k # p_from
            OBVIOUS
        <3>1. k # p_j /\ Taken(k) /\ p_slot'[k] = p_slot[k]
            BY <2>1
        <3>2. Told(p_slot[k].fd, p_msg)' <=> Told(p_slot[k].fd, p_msg)
            BY <1>1, <1>8, <3>1 DEF Told
        <3> QED BY <3>1, <3>2, <1>2, <1>4
    <2>5. /\ \A c \in ChatConn : Once(c, p_msg)'
          /\ p_from # 0 => ~Told(p_msg[1], p_msg)'
        BY <1>1, <1>2, <1>8 DEF Once, Told
    <2>6. p_from # 0 => p_slot'[p_from].fd = p_msg[1]
        BY <1>2, <1>8, <2>1
    <2>7. p_j' >= 1
        BY <1>1
    <2>8. PollBroadcastInv'
        BY <1>1, <1>2, <2>4, <2>5, <2>6, <2>7 DEF PollBroadcastInv
    <2> QED BY <2>1, <2>2, <2>3, <2>8
<1>9. \/ (~Taken(p_j) \/ p_j = p_from) /\ UNCHANGED <<p_slot, p_got, p_closed>>
      \/ /\ Taken(p_j) /\ p_j # p_from
         /\ p_got' = [p_got EXCEPT ![p_slot[p_j].fd] = Append(@, p_msg)]
         /\ UNCHANGED <<p_slot, p_closed>>
      \/ Taken(p_j) /\ p_j # p_from /\ Slots!Close(p_j) /\ UNCHANGED p_got
    BY DEF Slots!broadcast, Slots!Free, Taken
<1> QED BY <1>1, <1>3, <1>6, <1>7, <1>8, <1>9

\* The ends of a broadcast and of the walk keep the invariant.
LEMMA PollEndStep ==
    ASSUME PollInv, Slots!BroadcastEnds \/ Slots!WalkEnds
    PROVE  PollInv'
<1> USE DEF PollInv
<1>1. /\ UNCHANGED <<p_slot, p_j, p_from, p_peer, p_inbox, p_sent, p_got, p_closed>>
      /\ \/ p_at = "broadcast" /\ p_at' = "walk" /\ p_i' = p_i + 1 /\ p_msg' = <<>>
         \/ p_at = "walk" /\ p_at' = "poll" /\ p_i' = 0 /\ p_msg' = p_msg
    BY DEF Slots!BroadcastEnds, Slots!WalkEnds
<1>2. p_msg' = <<>> /\ p_i \in Nat /\ (p_at' = "walk" => p_i' >= 1)
    BY <1>1 DEF PollType, PollBroadcastInv
<1>3. PollType' /\ SlotInv'
    BY <1>1, <1>2 DEF PollType, SlotInv, Taken
<1>4. PollNumberInv'
    BY <1>1, <1>2 DEF PollNumberInv, IsOld
<1>5. PollBroadcastInv'
    BY <1>1, <1>2 DEF PollBroadcastInv
<1>6. PollWalkInv'
    <2>1. \A k \in Place : k > p_i + 1 \/ k = p_i + 1 => k > p_i
        BY <1>2 DEF Place
    <2> QED BY <2>1, <1>1, <1>2 DEF PollWalkInv, Taken
<1> QED BY <1>3, <1>4, <1>5, <1>6

\* Every step of the array server keeps the invariant.
LEMMA PollStep ==
    ASSUME PollInv, Slots!Next
    PROVE  PollInv'
BY PollPeerStep, PollPollStep, PollTurnStep, PollBroadcastStep, PollEndStep DEF Slots!Next

\* The invariant of the array server gives what the runs check of it.
LEMMA PollPromise ==
    ASSUME PollInv
    PROVE  Slots!Correct
<1> USE DEF PollInv
<1>1. ASSUME p_at = "walk", p_i \in Place, ~Slots!skips(p_i)
      PROVE  /\ p_slot[p_i].fd # "-1"
             /\ p_inbox[p_slot[p_i].fd] # <<>> \/ p_peer[p_slot[p_i].fd] = "gone"
    BY <1>1 DEF PollWalkInv, Taken, Slots!skips, Slots!Free
<1>2. \A k, l \in Slots!Used(p_slot) : p_slot[k].fd = p_slot[l].fd => k = l
    BY DEF SlotInv, Slots!Used, Slots!Slots, Slots!Free, Place, Taken
<1>3. \A c \in ChatConn : p_closed[c] <= 1 /\ (p_closed[c] = 1 => c \notin Slots!Clients(p_slot))
    BY DEF SlotInv, Slots!Clients, Slots!Used, Slots!Slots, Slots!Free, Place, Taken
<1>4. ASSUME p_msg # <<>>
      PROVE  /\ p_from # 0 => Slots!Places(p_msg[1], p_msg) = {}
             /\ \A c \in ChatConn : \A k, l \in Slots!Places(c, p_msg) : k = l
             /\ p_at = "broadcast" /\ p_j > PollSlots =>
                  \A c \in p_audience \cap Slots!Clients(p_slot) : Slots!Places(c, p_msg) # {}
    <2>1. p_from # 0 => Slots!Places(p_msg[1], p_msg) = {}
        BY <1>4 DEF PollBroadcastInv, Told, Slots!Places
    <2>2. \A c \in ChatConn : \A k, l \in Slots!Places(c, p_msg) : k = l
        BY <1>4 DEF PollBroadcastInv, Once, Slots!Places
    <2>3. ASSUME p_at = "broadcast", p_j > PollSlots,
                 NEW c \in p_audience \cap Slots!Clients(p_slot)
          PROVE  Slots!Places(c, p_msg) # {}
        <3>1. PICK k \in Place : Taken(k) /\ c = p_slot[k].fd
            BY DEF Slots!Clients, Slots!Used, Slots!Slots, Slots!Free, Place, Taken
        <3>2. k < p_j /\ k # p_from
            <4>1. k < p_j /\ k # 0
                BY <2>3, ChatAssumption DEF Place, PollType
            <4>2. p_from # 0 => k # p_from
                BY <1>4, <2>3, <3>1 DEF PollBroadcastInv
            <4> QED BY <4>1, <4>2
        <3>3. Told(c, p_msg)
            BY <1>4, <2>3, <3>1, <3>2 DEF PollBroadcastInv
        <3> QED BY <3>3 DEF Told, Slots!Places
    <2> QED BY <2>1, <2>2, <2>3
<1> QED BY <1>1, <1>2, <1>3, <1>4 DEF Slots!Correct, Slots!Slots, Slots!Free, Place

\* chat_demo.cpp and chat_poll.c keep their promises for any number of connections,
\* messages and places in their tables: what broadcast, remove_client and the walk do to one
\* another never repeats, skips or misdirects a message, and never blocks in recv.
THEOREM ChatHolds == Spec => []ChatCorrect
<1>1. Init => ChatInv /\ PollInv
    BY ChatInit, PollInit DEF Init
<1>2. ChatInv /\ PollInv /\ [Next]_vars => ChatInv' /\ PollInv'
    <2> SUFFICES ASSUME ChatInv, PollInv, [Next]_vars
                 PROVE  ChatInv' /\ PollInv'
        OBVIOUS
    <2>1. ASSUME UNCHANGED chat
          PROVE  ChatInv'
        BY <2>1 DEF chat, ChatInv, ChatType, TableInv, NumberInv, HasRead, BroadcastInv, Reached,
                    Single, WalkInv, Position
    <2>2. ASSUME UNCHANGED poll
          PROVE  PollInv'
        BY <2>2 DEF poll, PollInv, PollType, SlotInv, PollNumberInv, IsOld, PollBroadcastInv, Told,
                    Once, PollWalkInv, Taken
    <2>3. CASE Next
        <3>1. UNCHANGED chat \/ Full!Next \/ Roomy!Next
            BY <2>3 DEF Next
        <3>2. UNCHANGED poll \/ Slots!Next
            BY <2>3 DEF Next
        <3> QED BY <3>1, <3>2, <2>1, <2>2, ChatStep, PollStep
    <2>4. CASE UNCHANGED vars
        BY <2>4, <2>1, <2>2 DEF vars
    <2> QED BY <2>3, <2>4
<1>3. ChatInv /\ PollInv => ChatCorrect
    BY ChatPromise, PollPromise DEF ChatCorrect
<1> QED BY <1>1, <1>2, <1>3, PTL DEF Spec

-----------------------------------------------------------------------------
(* The session with a send queue. *)

Byte == Nat \X Nat
Node == [id : Nat, cur : Nat, total : Nat]

SendOps == \A op \in w_ops : op = [handler |-> op.handler, data |-> op.data, nr |-> op.nr]

\* The socket has taken a first part of what was accepted.
SendWire ==
    /\ w_wire \in Seq(Byte) /\ w_accepted \in Seq(Byte)
    /\ w_ids \in Nat /\ w_ends \in Seq(Nat) /\ Len(w_ends) = w_ids
    /\ Len(w_wire) <= Len(w_accepted)
    /\ \A k \in 1..Len(w_wire) : w_wire[k] = w_accepted[k]

\* The j-th node has still to send the bytes of accepted between two cuts.
NodeAt(j) ==
    /\ w_queue[j].id \in 1..w_ids /\ w_queue[j].cur < w_queue[j].total
    /\ Send!Cut(j + 1) = Send!Cut(j) + (w_queue[j].total - w_queue[j].cur)
    /\ Send!Cut(j + 1) <= Len(w_accepted)
    /\ \A k \in 1..(w_queue[j].total - w_queue[j].cur) :
         w_accepted[Send!Cut(j) + k] = <<w_queue[j].id, w_queue[j].cur + k>>

SendNodes ==
    /\ w_queue \in Seq(Node)
    /\ \A j \in 1..Len(w_queue) : NodeAt(j)
    /\ Send!Cut(Len(w_queue) + 1) = Len(w_accepted)

\* A failed write is the last one, and the session stays pending after it.
SendWrites ==
    /\ w_send <=> w_queue # <<>>
    /\ w_failed => w_send
    /\ w_send /\ ~w_failed => \E w \in w_ops : Send!Writes = {w} /\ w.data = Send!Rest(w_queue[1])
    /\ ~w_send \/ w_failed => Send!Writes = {}
    /\ ~w_undef

SendInv == w_strayed \/ (SendOps /\ SendWire /\ SendNodes /\ SendWrites)

\* The bytes of a message from one offset to another.
LEMMA BytesOf ==
    ASSUME NEW id \in Nat, NEW from \in Nat, NEW to \in Nat, from <= to
    PROVE  /\ Send!Bytes(id, from, to) \in Seq(Byte)
           /\ Len(Send!Bytes(id, from, to)) = to - from
           /\ \A k \in 1..(to - from) : Send!Bytes(id, from, to)[k] = <<id, from + k>>
<1>1. to - from \in Nat /\ \A k \in 1..(to - from) : <<id, from + k>> \in Byte
    BY DEF Byte
<1> QED BY <1>1 DEF Send!Bytes

\* What there is to send of a node is not empty.
LEMMA RestOf ==
    ASSUME NEW n \in Node, n.cur < n.total
    PROVE  /\ Send!Rest(n) \in Seq(Byte) /\ Len(Send!Rest(n)) = n.total - n.cur
           /\ n.total - n.cur \in Nat \ {0}
           /\ \A k \in 1..(n.total - n.cur) : Send!Rest(n)[k] = <<n.id, n.cur + k>>
<1>1. n.id \in Nat /\ n.cur \in Nat /\ n.total \in Nat
    BY DEF Node
<1>2. PICK id \in Nat, from \in Nat, to \in Nat : id = n.id /\ from = n.cur /\ to = n.total
    BY <1>1
<1>3. from <= to /\ to - from \in Nat \ {0}
    BY <1>2
<1>4. Send!Rest(n) = Send!Bytes(id, from, to)
    BY <1>2 DEF Send!Rest
<1>5. /\ Send!Bytes(id, from, to) \in Seq(Byte) /\ Len(Send!Bytes(id, from, to)) = to - from
      /\ \A k \in 1..(to - from) : Send!Bytes(id, from, to)[k] = <<id, from + k>>
    BY <1>3, BytesOf
<1> QED BY <1>2, <1>3, <1>4, <1>5

\* A queued node is a node, and the cuts are positions.
LEMMA Queued ==
    ASSUME SendWire, SendNodes, NEW j \in 1..Len(w_queue)
    PROVE  /\ w_queue[j] \in Node /\ w_queue[j].id \in 1..w_ids
           /\ w_queue[j].cur \in Nat /\ w_queue[j].total \in Nat
           /\ w_ends[w_queue[j].id] \in Nat /\ Send!Cut(j) \in Nat /\ NodeAt(j)
<1>1. w_queue[j] \in Node /\ NodeAt(j) /\ w_queue \in Seq(Node)
    BY ElementOfSeq DEF SendNodes
<1>2. j # 1 => j - 1 \in 1..Len(w_queue)
    OBVIOUS
<1>3. \A l \in 1..Len(w_queue) : w_queue[l].id \in 1..w_ids
    BY DEF SendNodes, NodeAt
<1>4. \A l \in 1..Len(w_queue) : w_ends[w_queue[l].id] \in Nat
    BY <1>3, ElementOfSeq DEF SendWire
<1>5. Send!Cut(j) \in Nat
    BY <1>2, <1>4 DEF Send!Cut, SendWire
<1> QED BY <1>1, <1>3, <1>4, <1>5 DEF Node

\* A new message goes to the end of the queue and of what was accepted.
LEMMA Enqueued ==
    ASSUME SendWire, SendNodes, NEW size \in SendSize, Send!Enqueue(size)
    PROVE  /\ SendWire' /\ SendNodes' /\ w_queue' # <<>> /\ w_send' = TRUE
           /\ w_queue # <<>> => w_queue'[1] = w_queue[1]
           /\ w_queue = <<>> => Len(w_queue') = 1
           /\ Head(w_queue') = w_queue'[1] /\ w_queue' \in Seq(Node)
           /\ UNCHANGED <<w_failed, w_strayed, w_undef>>
<1>1. size \in Nat \ {0}
    BY StreamAssumption
<1>2. PICK id \in Nat, N \in Nat, A \in Nat, W \in Nat :
        /\ id = w_ids + 1 /\ N = Len(w_queue) /\ A = Len(w_accepted) /\ W = Len(w_wire)
        /\ w_ids = id - 1 /\ Len(w_ends) = id - 1 /\ W <= A
    <2>1. /\ w_ids + 1 \in Nat /\ Len(w_accepted) \in Nat /\ Len(w_wire) \in Nat
          /\ (w_ids + 1) - 1 = w_ids /\ Len(w_ends) = w_ids /\ Len(w_wire) <= Len(w_accepted)
        BY DEF SendWire
    <2>2. Len(w_queue) \in Nat
        BY DEF SendNodes
    <2> QED BY <2>1, <2>2
<1>3. PICK b, new : b = Send!Bytes(id, 0, size) /\ new = [id |-> id, cur |-> 0, total |-> size]
    OBVIOUS
<1>4. /\ w_ids' = id /\ w_accepted' = w_accepted \o b
      /\ w_ends' = Append(w_ends, Len(w_accepted')) /\ w_queue' = Append(w_queue, new)
      /\ w_send' = TRUE /\ UNCHANGED <<w_wire, w_failed, w_strayed, w_undef>>
    BY <1>2, <1>3 DEF Send!Enqueue
<1>5. new \in Node /\ new.id = id /\ new.cur = 0 /\ new.total = size
    BY <1>1, <1>2, <1>3 DEF Node
<1>6. b \in Seq(Byte) /\ Len(b) = size /\ \A k \in 1..size : b[k] = <<id, k>>
    <2>1. 0 \in Nat /\ size \in Nat /\ 0 <= size /\ size - 0 = size /\ \A k \in 1..size : 0 + k = k
        BY <1>1
    <2>2. /\ Send!Bytes(id, 0, size) \in Seq(Byte) /\ Len(Send!Bytes(id, 0, size)) = size - 0
          /\ \A k \in 1..(size - 0) : Send!Bytes(id, 0, size)[k] = <<id, 0 + k>>
        <3>1. 0 \in Nat /\ size \in Nat /\ 0 <= size
            BY <1>1
        <3> QED BY <3>1, BytesOf
    <2> QED BY <2>1, <2>2, <1>3
<1>7. /\ w_accepted' \in Seq(Byte) /\ Len(w_accepted') = A + size
      /\ \A k \in 1..A : w_accepted'[k] = w_accepted[k]
      /\ \A k \in 1..size : w_accepted'[A + k] = <<id, k>>
    <2>1. w_accepted \in Seq(Byte)
        BY DEF SendWire
    <2>2. /\ w_accepted' \in Seq(Byte) /\ Len(w_accepted') = A + size
          /\ \A k \in 1..(A + size) : w_accepted'[k] = IF k <= A THEN w_accepted[k] ELSE b[k - A]
        BY <2>1, <1>2, <1>4, <1>6, ConcatProperties
    <2>3. \A k \in 1..size : A + k \in 1..(A + size) /\ ~(A + k <= A) /\ (A + k) - A = k
        BY <1>1, <1>2
    <2>4. \A k \in 1..A : k \in 1..(A + size) /\ k <= A
        BY <1>1, <1>2
    <2> QED BY <2>2, <2>3, <2>4, <1>6
<1>8. /\ w_ends' \in Seq(Nat) /\ Len(w_ends') = id /\ w_ends'[id] = A + size
      /\ \A m \in 1..(id - 1) : w_ends'[m] = w_ends[m]
    <2>1. w_ends \in Seq(Nat) /\ A + size \in Nat /\ w_ends' = Append(w_ends, A + size)
        BY <1>1, <1>2, <1>4, <1>7 DEF SendWire
    <2> QED BY <1>2, <2>1, AppendProperties
<1>9. SendWire'
    <2>1. \A k \in 1..W : w_wire[k] = w_accepted'[k]
        <3>1. \A k \in 1..W : k \in 1..A
            BY <1>2
        <3> QED BY <3>1, <1>2, <1>7 DEF SendWire
    <2>2. W <= A + size /\ w_wire' = w_wire
        BY <1>1, <1>2, <1>4
    <2> QED BY <2>1, <2>2, <1>2, <1>4, <1>7, <1>8 DEF SendWire
<1>10. /\ w_queue' \in Seq(Node) /\ w_queue' # <<>> /\ Len(w_queue') = N + 1
       /\ \A j \in 1..N : w_queue'[j] = w_queue[j]
       /\ w_queue'[N + 1] = new
    <2>1. w_queue \in Seq(Node)
        BY DEF SendNodes
    <2> QED BY <2>1, <1>2, <1>4, <1>5, AppendProperties
<1>11. ASSUME NEW j \in 1..(N + 1)
       PROVE  Send!Cut(j)' = Send!Cut(j)
    <2>1. CASE j = 1
        BY <2>1, <1>4 DEF Send!Cut
    <2>2. CASE j # 1
        <3>1. j - 1 \in 1..N
            BY <2>2, <1>2
        <3>2. w_queue'[j - 1] = w_queue[j - 1] /\ w_queue[j - 1].id \in 1..w_ids
            BY <3>1, <1>2, <1>10, Queued
        <3> QED BY <2>2, <3>2, <1>2, <1>8 DEF Send!Cut
    <2> QED BY <2>1, <2>2
<1>12. Send!Cut(N + 1)' = A /\ Send!Cut((N + 1) + 1)' = A + size
    <2>1. N + 1 \in 1..(N + 1) /\ (N + 1) + 1 # 1 /\ ((N + 1) + 1) - 1 = N + 1
        BY <1>2
    <2>2. Send!Cut(N + 1) = A
        BY <1>2 DEF SendNodes
    <2>3. Send!Cut(N + 1)' = A
        BY <2>1, <2>2, <1>11
    <2>4. Send!Cut((N + 1) + 1)' = w_ends'[w_queue'[N + 1].id]
        BY <2>1 DEF Send!Cut
    <2> QED BY <2>3, <2>4, <1>5, <1>8, <1>10
<1>13. SendNodes'
    <2>1. ASSUME NEW j \in 1..N
          PROVE  NodeAt(j)'
        <3>1. /\ NodeAt(j) /\ w_queue'[j] = w_queue[j] /\ w_queue[j].id \in 1..(id - 1)
              /\ w_queue[j].cur \in Nat /\ w_queue[j].total \in Nat /\ Send!Cut(j) \in Nat
            BY <1>2, <1>10, Queued
        <3>2. Send!Cut(j)' = Send!Cut(j) /\ Send!Cut(j + 1)' = Send!Cut(j + 1)
            BY <1>2, <1>11
        <3>7. PICK c \in Nat, t \in Nat, p \in Nat :
                c = w_queue[j].cur /\ t = w_queue[j].total /\ p = Send!Cut(j)
            BY <3>1
        <3>3. /\ c < t /\ Send!Cut(j + 1) = p + (t - c) /\ Send!Cut(j + 1) <= A
              /\ \A k \in 1..(t - c) : w_accepted[p + k] = <<w_queue[j].id, c + k>>
            BY <3>1, <3>7, <1>2 DEF NodeAt
        <3>6. c < t /\ p + (t - c) <= A
            BY <3>3
        <3>4. ASSUME NEW k \in 1..(t - c)
              PROVE  w_accepted'[p + k] = <<w_queue[j].id, c + k>>
            <4>1. p + k \in 1..A
                BY <3>6
            <4> QED BY <4>1, <3>3, <1>7
        <3>5. w_queue[j].id \in 1..id /\ p + (t - c) <= A + size
            <4>1. w_queue[j].id \in 1..id
                BY <3>1
            <4> QED BY <4>1, <3>6, <1>1
        <3> QED BY <3>1, <3>2, <3>3, <3>4, <3>5, <3>7, <1>4, <1>7 DEF NodeAt
    <2>2. NodeAt(N + 1)'
        <3>1. id \in 1..id /\ size - 0 = size /\ 0 < size /\ A + size <= A + size
              /\ \A k \in 1..size : 0 + k = k
            BY <1>1, <1>2
        <3>2. /\ w_queue'[N + 1].id \in 1..w_ids' /\ w_queue'[N + 1].cur = 0
              /\ w_queue'[N + 1].total = size /\ w_queue'[N + 1].id = id
            BY <3>1, <1>4, <1>5, <1>10
        <3>3. \A k \in 1..size : w_accepted'[Send!Cut(N + 1)' + k] = <<id, 0 + k>>
            BY <3>1, <1>7, <1>12
        <3> QED BY <3>1, <3>2, <3>3, <1>7, <1>12 DEF NodeAt
    <2>3. \A j \in 1..(N + 1) : j \in 1..N \/ j = N + 1
        BY <1>2
    <2>4. \A j \in 1..(N + 1) : NodeAt(j)'
        BY <2>1, <2>2, <2>3
    <2> QED BY <2>4, <1>7, <1>10, <1>12 DEF SendNodes
<1>14. (w_queue = <<>> => Len(w_queue') = 1) /\ (w_queue # <<>> => w_queue'[1] = w_queue[1])
    BY <1>2, <1>10 DEF SendNodes
<1>15. Head(w_queue') = w_queue'[1]
    BY <1>10
<1> QED BY <1>4, <1>9, <1>10, <1>13, <1>14, <1>15

\* The socket takes the first n bytes of the front message.
Takes(n) ==
    /\ w_wire' = w_wire \o SubSeq(Send!Rest(w_queue[1]), 1, n)
    /\ UNCHANGED <<w_accepted, w_ids, w_ends>>

\* They are the next ones of what was accepted.
LEMMA TakesNext ==
    ASSUME SendWire, SendNodes, w_queue # <<>>,
           NEW n \in 1..(w_queue[1].total - w_queue[1].cur), Takes(n)
    PROVE  /\ SendWire' /\ Len(w_wire') = Len(w_wire) + n
           /\ w_queue[1].total - w_queue[1].cur \in Nat \ {0}
<1>1. 1 \in 1..Len(w_queue)
    BY DEF SendNodes
<1>2. PICK f \in Node, r \in Int : f = w_queue[1] /\ r = f.total - f.cur
    <2>1. w_queue[1] \in Node /\ w_queue[1].total - w_queue[1].cur \in Int
        BY <1>1, Queued
    <2> QED BY <2>1
<1>3. NodeAt(1) /\ f.cur < f.total
    BY <1>1, <1>2, Queued DEF NodeAt
<1>4. PICK R : /\ R = Send!Rest(f) /\ R \in Seq(Byte) /\ Len(R) = r /\ r \in Nat \ {0}
               /\ \A k \in 1..r : R[k] = <<f.id, f.cur + k>>
    BY <1>2, <1>3, RestOf
<1>5. PICK W \in Nat, A \in Nat : W = Len(w_wire) /\ A = Len(w_accepted) /\ W <= A
    BY DEF SendWire
<1>6. n \in 1..r /\ W + r <= A /\ \A k \in 1..r : w_accepted[W + k] = R[k]
    <2>1. Send!Cut(1) = W /\ 1 + 1 = 2
        BY <1>5 DEF Send!Cut
    <2> QED BY <2>1, <1>2, <1>3, <1>4, <1>5 DEF NodeAt
<1>7. PICK s : /\ s = SubSeq(R, 1, n) /\ s \in Seq(Byte) /\ Len(s) = n
               /\ \A k \in 1..n : s[k] = R[k]
    <2>1. \A k \in 1..n : R[k] \in Byte
        <3>1. \A k \in 1..n : k \in 1..r
            BY <1>4, <1>6
        <3> QED BY <3>1, <1>4, ElementOfSeq
    <2>2. n \in Nat \ {0} /\ 1 \in Int /\ n \in Int /\ (n - 1) + 1 = n /\ \A k \in 1..n : (1 + k) - 1 = k
        BY <1>4, <1>6
    <2>3. /\ SubSeq(R, 1, n) \in Seq(Byte) /\ Len(SubSeq(R, 1, n)) = IF 1 <= n THEN (n - 1) + 1 ELSE 0
          /\ \A k \in 1..((n - 1) + 1) : SubSeq(R, 1, n)[k] = R[(1 + k) - 1]
        BY <2>1, <2>2, SubSeqProperties
    <2>4. 1 <= n
        BY <2>2
    <2>5. Len(SubSeq(R, 1, n)) = n /\ \A k \in 1..n : SubSeq(R, 1, n)[k] = R[k]
        BY <2>2, <2>3, <2>4
    <2> QED BY <2>3, <2>5
<1>8. w_wire' = w_wire \o s /\ w_accepted' = w_accepted /\ w_ids' = w_ids /\ w_ends' = w_ends
    BY <1>2, <1>4, <1>7 DEF Takes
<1>9. /\ w_wire' \in Seq(Byte) /\ Len(w_wire') = W + n
      /\ \A k \in 1..(W + n) : w_wire'[k] = IF k <= W THEN w_wire[k] ELSE s[k - W]
    <2>1. w_wire \in Seq(Byte)
        BY DEF SendWire
    <2> QED BY <2>1, <1>5, <1>7, <1>8, ConcatProperties
<1>10. ASSUME NEW k \in 1..(W + n)
       PROVE  w_wire'[k] = w_accepted[k]
    <2>1. CASE k <= W
        <3>1. k \in 1..Len(w_wire)
            BY <2>1, <1>5
        <3> QED BY <2>1, <3>1, <1>9 DEF SendWire
    <2>2. CASE ~(k <= W)
        <3>1. k - W \in 1..n /\ k - W \in 1..r /\ W + (k - W) = k
            BY <2>2, <1>4, <1>5, <1>6
        <3> QED BY <2>2, <3>1, <1>6, <1>7, <1>9
    <2> QED BY <2>1, <2>2
<1>11. W + n <= A
    BY <1>4, <1>5, <1>6
<1>12. SendWire'
    BY <1>5, <1>8, <1>9, <1>10, <1>11 DEF SendWire
<1> QED BY <1>2, <1>4, <1>5, <1>9, <1>12

\* The front message stays in the queue while bytes of it are left.
LEMMA FrontShorter ==
    ASSUME SendWire, SendNodes, w_queue # <<>>,
           NEW n \in 1..(w_queue[1].total - w_queue[1].cur), Takes(n),
           w_queue[1].cur + n < w_queue[1].total,
           w_queue' = [w_queue EXCEPT ![1].cur = w_queue[1].cur + n]
    PROVE  SendWire' /\ SendNodes' /\ w_queue' # <<>>
<1>1. PICK N \in Nat, W \in Nat, A \in Nat, f \in Node, c \in Nat, t \in Nat :
        /\ N = Len(w_queue) /\ W = Len(w_wire) /\ A = Len(w_accepted) /\ 1 \in 1..N
        /\ f = w_queue[1] /\ c = f.cur /\ t = f.total /\ f.id \in 1..w_ids /\ NodeAt(1)
    <2>1. 1 \in 1..Len(w_queue) /\ Len(w_queue) \in Nat /\ Len(w_wire) \in Nat /\ Len(w_accepted) \in Nat
        BY DEF SendNodes, SendWire
    <2> QED BY <2>1, Queued
<1>2. n \in 1..(t - c) /\ c + n < t /\ n \in Nat
    BY <1>1
<1>3. SendWire' /\ Len(w_wire') = W + n /\ w_accepted' = w_accepted /\ w_ids' = w_ids /\ w_ends' = w_ends
    BY <1>1, TakesNext DEF Takes
<1>4. PICK g \in Node : g = [f EXCEPT !.cur = c + n] /\ g.id = f.id /\ g.cur = c + n /\ g.total = t
    BY <1>1, <1>2 DEF Node
<1>5. /\ w_queue' \in Seq(Node) /\ Len(w_queue') = N /\ w_queue'[1] = g
      /\ \A j \in 1..N : j # 1 => w_queue'[j] = w_queue[j]
    <2>1. w_queue' = [w_queue EXCEPT ![1] = g] /\ w_queue \in Seq(Node)
        BY <1>1, <1>4 DEF SendNodes
    <2>2. /\ w_queue' \in Seq(Node) /\ Len(w_queue') = Len(w_queue)
          /\ \A j \in 1..Len(w_queue) : w_queue'[j] = IF j = 1 THEN g ELSE w_queue[j]
        <3>1. 1 \in 1..Len(w_queue)
            BY <1>1
        <3> QED BY <2>1, <3>1, ExceptSeq
    <2> QED BY <1>1, <2>2
<1>6. Send!Cut(1)' = W + n
    BY <1>3 DEF Send!Cut
<1>7. ASSUME NEW j \in 2..(N + 1)
      PROVE  Send!Cut(j)' = Send!Cut(j)
    <2>1. j - 1 \in 1..N /\ j # 1
        BY <1>1
    <2>2. w_queue'[j - 1].id = w_queue[j - 1].id
        BY <2>1, <1>1, <1>4, <1>5
    <2> QED BY <2>1, <2>2, <1>3 DEF Send!Cut
<1>8. NodeAt(1)'
    <2>1. /\ Send!Cut(1 + 1) = W + (t - c) /\ W + (t - c) <= A
          /\ \A k \in 1..(t - c) : w_accepted[W + k] = <<f.id, c + k>>
        <3>1. Send!Cut(1) = W
            BY <1>1 DEF Send!Cut
        <3> QED BY <3>1, <1>1 DEF NodeAt
    <2>2. Send!Cut(1 + 1)' = Send!Cut(1 + 1)
        BY <1>1, <1>7
    <2>3. W + (t - c) = (W + n) + (t - (c + n))
        BY <1>1, <1>2
    <2>4. ASSUME NEW k \in 1..(t - (c + n))
          PROVE  w_accepted[(W + n) + k] = <<f.id, (c + n) + k>>
        <3>1. n + k \in 1..(t - c) /\ W + (n + k) = (W + n) + k /\ c + (n + k) = (c + n) + k
            BY <1>2
        <3> QED BY <3>1, <2>1
    <2> QED BY <1>1, <1>2, <1>3, <1>4, <1>5, <1>6, <2>1, <2>2, <2>3, <2>4 DEF NodeAt
<1>9. ASSUME NEW j \in 2..N
      PROVE  NodeAt(j)'
    <2>1. j \in 1..N /\ j # 1 /\ j \in 2..(N + 1) /\ j + 1 \in 2..(N + 1)
        BY <1>1
    <2>2. NodeAt(j) /\ w_queue'[j] = w_queue[j]
        BY <2>1, <1>1, <1>5, Queued
    <2>3. Send!Cut(j)' = Send!Cut(j) /\ Send!Cut(j + 1)' = Send!Cut(j + 1)
        BY <2>1, <1>7
    <2> QED BY <2>2, <2>3, <1>3 DEF NodeAt
<1>10. \A j \in 1..N : j = 1 \/ j \in 2..N
    BY <1>1
<1>11. Send!Cut(N + 1)' = A
    <2>1. N + 1 \in 2..(N + 1)
        BY <1>1
    <2> QED BY <2>1, <1>1, <1>7 DEF SendNodes
<1>12. \A j \in 1..N : NodeAt(j)'
    BY <1>8, <1>9, <1>10
<1> QED BY <1>1, <1>3, <1>5, <1>11, <1>12 DEF SendNodes

\* After its last byte the next message is the front.
LEMMA FrontDone ==
    ASSUME SendWire, SendNodes, w_queue # <<>>, Takes(w_queue[1].total - w_queue[1].cur),
           w_queue' = Tail(w_queue)
    PROVE  SendWire' /\ SendNodes'
<1>1. PICK N \in Nat, W \in Nat, A \in Nat, n \in Nat \ {0} :
        /\ N = Len(w_queue) /\ W = Len(w_wire) /\ A = Len(w_accepted) /\ 1 \in 1..N
        /\ n = w_queue[1].total - w_queue[1].cur /\ NodeAt(1)
    <2>1. 1 \in 1..Len(w_queue) /\ Len(w_queue) \in Nat /\ Len(w_wire) \in Nat /\ Len(w_accepted) \in Nat
        BY DEF SendNodes, SendWire
    <2>2. w_queue[1].total - w_queue[1].cur \in Nat \ {0} /\ NodeAt(1)
        BY <2>1, Queued, RestOf DEF NodeAt
    <2> QED BY <2>1, <2>2
<1>2. SendWire' /\ Len(w_wire') = W + n /\ w_accepted' = w_accepted /\ w_ids' = w_ids /\ w_ends' = w_ends
    <2>1. n \in 1..(w_queue[1].total - w_queue[1].cur) /\ Takes(n)
        BY <1>1
    <2> QED BY <1>1, <2>1, TakesNext DEF Takes
<1>3. /\ w_queue' \in Seq(Node) /\ Len(w_queue') = N - 1
      /\ \A j \in 1..(N - 1) : w_queue'[j] = w_queue[j + 1]
    BY <1>1, HeadTailProperties DEF SendNodes
<1>4. ASSUME NEW j \in 1..N
      PROVE  Send!Cut(j)' = Send!Cut(j + 1)
    <2>1. CASE j = 1
        <3>1. Send!Cut(1) = W /\ Send!Cut(1 + 1) = Send!Cut(1) + n
            BY <1>1 DEF Send!Cut, NodeAt
        <3>2. Send!Cut(1)' = W + n
            BY <1>2 DEF Send!Cut
        <3> QED BY <2>1, <3>1, <3>2
    <2>2. CASE j # 1
        <3>1. j - 1 \in 1..(N - 1) /\ (j - 1) + 1 = j /\ (j + 1) - 1 = j /\ j + 1 # 1
            BY <2>2, <1>1
        <3>2. w_queue'[j - 1] = w_queue[j]
            BY <3>1, <1>3
        <3> QED BY <2>2, <3>1, <3>2, <1>2 DEF Send!Cut
    <2> QED BY <2>1, <2>2
<1>5. ASSUME NEW j \in 1..(N - 1)
      PROVE  NodeAt(j)'
    <2>1. j + 1 \in 1..N /\ j \in 1..N
        BY <1>1
    <2>2. NodeAt(j + 1) /\ w_queue'[j] = w_queue[j + 1]
        BY <2>1, <1>1, <1>3, Queued
    <2>3. Send!Cut(j)' = Send!Cut(j + 1) /\ Send!Cut(j + 1)' = Send!Cut((j + 1) + 1)
        BY <2>1, <1>4
    <2> QED BY <2>2, <2>3, <1>2 DEF NodeAt
<1>6. Send!Cut((N - 1) + 1)' = A
    <2>1. (N - 1) + 1 = N /\ N \in 1..N
        BY <1>1
    <2> QED BY <2>1, <1>1, <1>4 DEF SendNodes
<1> QED BY <1>1, <1>2, <1>3, <1>5, <1>6 DEF SendNodes

\* A write is started when none is outstanding.
LEMMA OneWrite ==
    ASSUME NEW others, \A op \in others : op = [handler |-> op.handler, data |-> op.data, nr |-> op.nr],
           \A op \in others : op.handler \notin {"write_callback", "write_all_callback"},
           NEW h \in {"write_callback", "write_all_callback"}, NEW node, NEW nr,
           w_ops' = others \cup {Send!Write(h, node, nr)}
    PROVE  SendOps' /\ \E w \in w_ops' : Send!Writes' = {w} /\ w.data = Send!Rest(node)
<1>1. PICK w : w = Send!Write(h, node, nr)
    OBVIOUS
<1>2. w = [handler |-> h, data |-> Send!Rest(node), nr |-> nr]
    BY <1>1 DEF Send!Write
<1>3. w.handler = h /\ w.data = Send!Rest(node) /\ w = [handler |-> w.handler, data |-> w.data, nr |-> w.nr]
    BY <1>2
<1>4. w \in w_ops' /\ Send!Writes' = {w}
    BY <1>1, <1>3 DEF Send!Writes
<1>5. SendOps'
    BY <1>1, <1>3 DEF SendOps
<1> QED BY <1>3, <1>4, <1>5

\* None is outstanding afterwards.
LEMMA NoWrite ==
    ASSUME \A op \in w_ops' : op = [handler |-> op.handler, data |-> op.data, nr |-> op.nr],
           \A op \in w_ops' : op.handler \notin {"write_callback", "write_all_callback"}
    PROVE  SendOps' /\ Send!Writes' = {}
BY DEF SendOps, Send!Writes

\* The session starts with an empty queue.
LEMMA SendInit ==
    ASSUME Send!Init
    PROVE  SendInv
<1> USE DEF Send!Init
<1>1. SendOps /\ Send!Writes = {}
    BY DEF SendOps, Send!Writes
<1>2. SendWire
    BY DEF SendWire
<1>3. Send!Cut(0 + 1) = 0
    BY DEF Send!Cut
<1>4. SendNodes
    BY <1>3 DEF SendNodes
<1>5. SendWrites
    BY <1>1 DEF SendWrites
<1> QED BY <1>1, <1>2, <1>4, <1>5 DEF SendInv

\* A new message is queued, and written when no other is.
LEMMA SendEnqueueStep ==
    ASSUME SendOps, SendWire, SendNodes, SendWrites, NEW size \in SendSize,
           Send!write2socket(size) \/ Send!write_all_to_socket(size)
    PROVE  SendOps' /\ SendWire' /\ SendNodes' /\ SendWrites'
<1>1. Send!Enqueue(size)
    BY DEF Send!write2socket, Send!write_all_to_socket
<1>2. /\ SendWire' /\ SendNodes' /\ w_queue' # <<>> /\ w_send' = TRUE
      /\ w_queue # <<>> => w_queue'[1] = w_queue[1]
      /\ w_queue = <<>> => Len(w_queue') = 1
      /\ Head(w_queue') = w_queue'[1]
      /\ UNCHANGED <<w_failed, w_strayed, w_undef>>
    BY <1>1, Enqueued
<1>3. CASE w_send
    <2>1. w_ops' = w_ops /\ w_queue'[1] = w_queue[1]
        BY <1>2, <1>3 DEF Send!write2socket, Send!write_all_to_socket, SendWrites
    <2>2. SendOps' /\ Send!Writes' = Send!Writes
        BY <2>1 DEF SendOps, Send!Writes
    <2>3. ~w_failed => \E w \in w_ops' : Send!Writes' = {w} /\ w.data = Send!Rest(w_queue'[1])
        BY <1>3, <2>1, <2>2 DEF SendWrites
    <2>4. Send!Rest(w_queue[1])' = Send!Rest(w_queue'[1])
        BY DEF Send!Rest, Send!Bytes
    <2> QED BY <1>2, <1>3, <2>2, <2>3, <2>4 DEF SendWrites
<1>4. CASE ~w_send
    <2>1. w_queue = <<>> /\ ~w_failed /\ Send!Writes = {}
        BY <1>4 DEF SendWrites
    <2>2. PICK h \in {"write_callback", "write_all_callback"} :
            w_ops' = w_ops \cup {Send!Write(h, w_queue'[1], Send!Fresh(w_ops))}
        BY <1>2, <1>4, <2>1 DEF Send!write2socket, Send!write_all_to_socket
    <2>3. /\ \A op \in w_ops : op = [handler |-> op.handler, data |-> op.data, nr |-> op.nr]
          /\ \A op \in w_ops : op.handler \notin {"write_callback", "write_all_callback"}
        BY <2>1 DEF SendOps, Send!Writes
    <2>4. PICK others, node, nr : others = w_ops /\ node = w_queue'[1] /\ nr = Send!Fresh(w_ops)
        OBVIOUS
    <2>5. SendOps' /\ \E w \in w_ops' : Send!Writes' = {w} /\ w.data = Send!Rest(node)
        BY <2>2, <2>3, <2>4, OneWrite
    <2>6. Send!Rest(w_queue[1])' = Send!Rest(node)
        BY <2>4 DEF Send!Rest, Send!Bytes
    <2> QED BY <1>2, <2>1, <2>5, <2>6 DEF SendWrites
<1> QED BY <1>3, <1>4

\* The operations that stay when the only write ends.
LEMMA OnlyWrite ==
    ASSUME SendOps, SendWrites, SendNodes, NEW op \in w_ops,
           op.handler \in {"write_callback", "write_all_callback"}
    PROVE  /\ w_send /\ ~w_failed /\ w_queue # <<>> /\ op.data = Send!Rest(w_queue[1])
           /\ \A o \in w_ops \ {op} : o = [handler |-> o.handler, data |-> o.data, nr |-> o.nr]
           /\ \A o \in w_ops \ {op} : o.handler \notin {"write_callback", "write_all_callback"}
<1>1. op \in Send!Writes
    BY DEF Send!Writes
<1>2. w_send /\ ~w_failed
    BY <1>1 DEF SendWrites
<1>3. PICK w \in w_ops : Send!Writes = {w} /\ w.data = Send!Rest(w_queue[1])
    BY <1>2 DEF SendWrites
<1>4. w = op /\ \A o \in w_ops \ {op} : o \notin Send!Writes
    BY <1>1, <1>3
<1> QED BY <1>2, <1>3, <1>4 DEF SendWrites, SendOps, Send!Writes

\* The handlers go on with the front of the queue, or are done.
LEMMA SendFrontStep ==
    ASSUME NEW others, \A op \in others : op = [handler |-> op.handler, data |-> op.data, nr |-> op.nr],
           \A op \in others : op.handler \notin {"write_callback", "write_all_callback"},
           NEW q, Send!SendFront(q, others), w_send, ~w_failed, ~w_undef,
           w_failed' = w_failed, w_undef' = w_undef
    PROVE  SendOps' /\ SendWrites'
<1>1. w_queue' = q
    BY DEF Send!SendFront
<1>2. CASE q = <<>>
    <2>1. w_send' = FALSE /\ w_ops' = others
        BY <1>2 DEF Send!SendFront
    <2>2. SendOps' /\ Send!Writes' = {}
        BY <2>1, NoWrite
    <2> QED BY <1>1, <1>2, <2>1, <2>2 DEF SendWrites
<1>3. CASE q # <<>>
    <2>1. w_send' = w_send /\ w_ops' = others \cup {Send!Write("write_callback", q[1], Send!Fresh(others))}
        BY <1>3 DEF Send!SendFront
    <2>2. PICK node, nr : node = q[1] /\ nr = Send!Fresh(others)
        OBVIOUS
    <2>3. SendOps' /\ \E w \in w_ops' : Send!Writes' = {w} /\ w.data = Send!Rest(node)
        BY <2>1, <2>2, OneWrite
    <2>4. Send!Rest(w_queue[1])' = Send!Rest(node)
        BY <1>1, <2>2 DEF Send!Rest, Send!Bytes
    <2> QED BY <1>1, <1>3, <2>1, <2>3, <2>4 DEF SendWrites
<1> QED BY <1>2, <1>3

\* A write completes: its handler does what was sent, or strays.
LEMMA SendCompleteStep ==
    ASSUME SendOps, SendWire, SendNodes, SendWrites, NEW op \in w_ops, NEW n,
           Send!WriteCompletes(op, n)
    PROVE  w_strayed' \/ (SendOps' /\ SendWire' /\ SendNodes' /\ SendWrites')
<1>1. /\ op.handler \in {"write_callback", "write_all_callback"} /\ n \in 1..Len(op.data)
      /\ w_wire' = w_wire \o SubSeq(op.data, 1, n)
      /\ UNCHANGED <<w_accepted, w_ids, w_ends, w_failed>>
    BY DEF Send!WriteCompletes
<1>2. PICK others : others = w_ops \ {op}
    OBVIOUS
<1>3. /\ w_send /\ ~w_failed /\ w_queue # <<>> /\ op.data = Send!Rest(w_queue[1])
      /\ \A o \in others : o = [handler |-> o.handler, data |-> o.data, nr |-> o.nr]
      /\ \A o \in others : o.handler \notin {"write_callback", "write_all_callback"}
    BY <1>1, <1>2, OnlyWrite
<1>4. PICK c \in Nat, t \in Nat : /\ c = w_queue[1].cur /\ t = w_queue[1].total /\ c < t
                                 /\ Len(op.data) = t - c
    <2>1. 1 \in 1..Len(w_queue)
        BY <1>3 DEF SendNodes
    <2>2. w_queue[1] \in Node /\ NodeAt(1) /\ w_queue[1].cur \in Nat /\ w_queue[1].total \in Nat
        BY <2>1, Queued
    <2>3. w_queue[1].cur < w_queue[1].total
        BY <2>2 DEF NodeAt
    <2> QED BY <1>3, <2>2, <2>3, RestOf
<1>5. Takes(n) /\ n \in 1..(t - c)
    BY <1>1, <1>3, <1>4 DEF Takes
<1>6. CASE op.handler = "write_callback"
    <2>1. Send!write_callback(n, others)
        BY <1>2, <1>6 DEF Send!WriteCompletes
    <2>2. PICK q : /\ q = IF c + n < t THEN [w_queue EXCEPT ![1].cur = c + n] ELSE Tail(w_queue)
                   /\ Send!SendFront(q, others) /\ w_undef' = w_undef
        BY <2>1, <1>3, <1>4 DEF Send!write_callback
    <2>3. SendOps' /\ SendWrites'
        BY <2>2, <1>1, <1>3, SendFrontStep DEF SendWrites
    <2>4. w_queue' = q
        BY <2>2 DEF Send!SendFront
    <2>5. CASE c + n < t
        <3>1. w_queue' = [w_queue EXCEPT ![1].cur = w_queue[1].cur + n]
            BY <2>2, <2>4, <2>5, <1>4
        <3>2. SendWire' /\ SendNodes'
            BY <3>1, <2>5, <1>3, <1>4, <1>5, FrontShorter
        <3> QED BY <2>3, <3>2
    <2>6. CASE ~(c + n < t)
        <3>1. w_queue' = Tail(w_queue) /\ n = t - c
            BY <2>2, <2>4, <2>6, <1>5
        <3>2. SendWire' /\ SendNodes'
            BY <3>1, <1>3, <1>4, <1>5, FrontDone
        <3> QED BY <2>3, <3>2
    <2> QED BY <2>5, <2>6
<1>7. CASE op.handler = "write_all_callback" /\ ~w_strayed'
    <2>1. Send!write_all_callback(others) /\ ~(n < Len(op.data))
        BY <1>2, <1>7 DEF Send!WriteCompletes
    <2>2. Send!SendFront(Tail(w_queue), others) /\ w_undef' = w_undef
        BY <2>1, <1>3 DEF Send!write_all_callback
    <2>3. SendOps' /\ SendWrites'
        BY <2>2, <1>1, <1>3, SendFrontStep DEF SendWrites
    <2>4. w_queue' = Tail(w_queue) /\ n = t - c
        BY <2>1, <2>2, <1>4, <1>5 DEF Send!SendFront
    <2>5. SendWire' /\ SendNodes'
        BY <2>4, <1>3, <1>4, <1>5, FrontDone
    <2> QED BY <2>3, <2>5
<1> QED BY <1>1, <1>6, <1>7

\* A write that fails leaves the queue and everything else.
LEMMA SendFailStep ==
    ASSUME SendOps, SendWire, SendNodes, SendWrites, NEW op \in w_ops, Send!WriteFails(op)
    PROVE  SendOps' /\ SendWire' /\ SendNodes' /\ SendWrites'
<1>1. /\ op.handler \in {"write_callback", "write_all_callback"} /\ w_failed' = TRUE
      /\ w_ops' = w_ops \ {op}
      /\ UNCHANGED <<w_queue, w_send, w_wire, w_accepted, w_ids, w_ends, w_undef>>
    BY DEF Send!WriteFails
<1>2. SendOps' /\ Send!Writes' = {}
    BY <1>1, OnlyWrite, NoWrite
<1>3. \A j : Send!Cut(j)' = Send!Cut(j)
    BY <1>1 DEF Send!Cut
<1>4. SendWire' /\ SendNodes'
    BY <1>1, <1>3 DEF SendWire, SendNodes, NodeAt
<1>5. w_send
    BY <1>1, OnlyWrite
<1> QED BY <1>1, <1>2, <1>4, <1>5 DEF SendWrites

\* The reads leave the writes alone, until a continued one ends.
LEMMA SendReadStep ==
    ASSUME SendOps, SendWire, SendNodes, SendWrites,
           \/ Send!read_from_socket
           \/ \E op \in w_ops : \/ \E n \in 0..RecvSize : Send!read_call_back(op, n)
                                \/ Send!ContinuedReadFails(op)
    PROVE  SendOps' /\ SendWire' /\ SendNodes' /\ SendWrites'
<1>1. UNCHANGED <<w_queue, w_send, w_wire, w_accepted, w_ids, w_ends, w_failed, w_undef>>
    BY DEF Send!read_from_socket, Send!read_call_back, Send!ContinuedReadFails
<1>2. /\ SendOps' /\ \A op \in Send!Writes' : op \in Send!Writes
      /\ \A op \in Send!Writes : op \in Send!Writes'
    <2>1. CASE Send!read_from_socket
        <3>1. PICK new : new = [handler |-> "read_call_back", data |-> <<>>, nr |-> Send!Fresh(w_ops)]
                         /\ w_ops' = w_ops \cup {new}
            BY <2>1 DEF Send!read_from_socket
        <3>2. new.handler = "read_call_back" /\ new = [handler |-> new.handler, data |-> new.data, nr |-> new.nr]
            BY <3>1
        <3> QED BY <3>1, <3>2 DEF SendOps, Send!Writes
    <2>2. ASSUME NEW op \in w_ops, NEW n \in 0..RecvSize, Send!read_call_back(op, n)
          PROVE  /\ SendOps' /\ \A o \in Send!Writes' : o \in Send!Writes
                 /\ \A o \in Send!Writes : o \in Send!Writes'
        <3>1. PICK new : new = [op EXCEPT !.handler = "continued read"] /\ op.handler = "read_call_back"
                         /\ (w_ops' = (w_ops \ {op}) \cup {new} \/ w_ops' = w_ops \ {op})
            BY <2>2 DEF Send!read_call_back
        <3>2. op = [handler |-> op.handler, data |-> op.data, nr |-> op.nr]
            BY DEF SendOps
        <3>3. /\ new.handler = "continued read"
              /\ new = [handler |-> new.handler, data |-> new.data, nr |-> new.nr]
            <4>1. new = [handler |-> "continued read", data |-> op.data, nr |-> op.nr]
                BY <3>1, <3>2
            <4> QED BY <4>1
        <3> QED BY <3>1, <3>3 DEF SendOps, Send!Writes
    <2>3. ASSUME NEW op \in w_ops, Send!ContinuedReadFails(op)
          PROVE  /\ SendOps' /\ \A o \in Send!Writes' : o \in Send!Writes
                 /\ \A o \in Send!Writes : o \in Send!Writes'
        <3>1. op.handler = "continued read" /\ w_ops' = w_ops \ {op}
            BY <2>3 DEF Send!ContinuedReadFails
        <3> QED BY <3>1 DEF SendOps, Send!Writes
    <2> QED BY <2>1, <2>2, <2>3
<1>3. Send!Writes' = Send!Writes /\ \A op \in Send!Writes : op \in w_ops'
    BY <1>2 DEF Send!Writes
<1>4. \A j : Send!Cut(j)' = Send!Cut(j)
    BY <1>1 DEF Send!Cut
<1>5. SendWire' /\ SendNodes'
    BY <1>1, <1>4 DEF SendWire, SendNodes, NodeAt
<1>6. Send!Rest(w_queue[1])' = Send!Rest(w_queue[1])
    BY <1>1 DEF Send!Rest, Send!Bytes
<1> QED BY <1>1, <1>2, <1>3, <1>5, <1>6 DEF SendWrites

\* Every step of the session keeps its invariant.
LEMMA SendStep ==
    ASSUME SendInv, Send!Next
    PROVE  SendInv'
<1>1. CASE w_strayed
    <2>1. w_strayed'
        BY <1>1 DEF Send!Next, Send!write2socket, Send!write_all_to_socket, Send!Enqueue,
            Send!read_from_socket, Send!WriteCompletes, Send!WriteFails, Send!read_call_back,
            Send!ContinuedRead, Send!ContinuedReadFails
    <2> QED BY <2>1 DEF SendInv
<1>2. CASE ~w_strayed
    <2>1. SendOps /\ SendWire /\ SendNodes /\ SendWrites
        BY <1>2 DEF SendInv
    <2>2. ASSUME NEW op \in w_ops, NEW n, Send!ContinuedRead(op, n)
          PROVE  w_strayed'
        BY <2>2 DEF Send!ContinuedRead
    <2>3. w_strayed' \/ (SendOps' /\ SendWire' /\ SendNodes' /\ SendWrites')
        BY <2>1, <2>2, SendEnqueueStep, SendCompleteStep, SendFailStep, SendReadStep DEF Send!Next
    <2> QED BY <2>3 DEF SendInv
<1> QED BY <1>1, <1>2

\* The invariant gives what the runs check of the session.
LEMMA SendPromise ==
    ASSUME SendInv
    PROVE  Send!Correct
<1>1. CASE w_strayed
    BY <1>1 DEF Send!Correct
<1>2. CASE ~w_strayed
    <2>1. SendOps /\ SendWire /\ SendNodes /\ SendWrites
        BY <1>2 DEF SendInv
    <2>2. Len(w_wire) <= Len(w_accepted) /\ w_wire = SubSeq(w_accepted, 1, Len(w_wire))
        <3>1. PICK W \in Nat : W = Len(w_wire) /\ W <= Len(w_accepted) /\ Len(w_accepted) \in Nat
            BY <2>1 DEF SendWire
        <3>2. w_wire \in Seq(Byte) /\ w_accepted \in Seq(Byte)
            BY <2>1 DEF SendWire
        <3>3. \A k \in 1..W : w_accepted[k] \in Byte
            <4>1. \A k \in 1..W : k \in 1..Len(w_accepted)
                BY <3>1
            <4> QED BY <4>1, <3>2, ElementOfSeq
        <3>4. 1 \in Int /\ W \in Int /\ (W - 1) + 1 = W /\ (1 <= W \/ W = 0) /\ \A k \in 1..W : (1 + k) - 1 = k
            BY <3>1
        <3>5. /\ SubSeq(w_accepted, 1, W) \in Seq(Byte)
              /\ Len(SubSeq(w_accepted, 1, W)) = IF 1 <= W THEN (W - 1) + 1 ELSE 0
              /\ \A k \in 1..((W - 1) + 1) : SubSeq(w_accepted, 1, W)[k] = w_accepted[(1 + k) - 1]
            BY <3>3, <3>4, SubSeqProperties
        <3>6. Len(SubSeq(w_accepted, 1, W)) = W /\ \A k \in 1..W : SubSeq(w_accepted, 1, W)[k] = w_accepted[k]
            BY <3>4, <3>5
        <3>7. \A k \in 1..W : w_wire[k] = SubSeq(w_accepted, 1, W)[k]
            BY <3>1, <3>6, <2>1 DEF SendWire
        <3>8. w_wire = SubSeq(w_accepted, 1, W)
            BY <3>1, <3>2, <3>5, <3>6, <3>7, SeqEqual
        <3> QED BY <3>1, <3>8
    <2>3. ASSUME NEW j \in 1..Len(w_queue)
          PROVE  Send!Rest(w_queue[j]) = SubSeq(w_accepted, Send!Cut(j) + 1, Send!Cut(j + 1))
        <3>1. PICK p \in Nat, n \in Node : p = Send!Cut(j) /\ n = w_queue[j]
            BY <2>1, Queued
        <3>2. NodeAt(j) /\ n.cur < n.total
            BY <2>1, <3>1, Queued DEF NodeAt
        <3>3. PICK R \in Seq(Byte), r \in Nat \ {0} :
                /\ R = Send!Rest(n) /\ Len(R) = r /\ r = n.total - n.cur
                /\ \A k \in 1..r : R[k] = <<n.id, n.cur + k>>
            <4>1. /\ Send!Rest(n) \in Seq(Byte) /\ Len(Send!Rest(n)) = n.total - n.cur
                  /\ n.total - n.cur \in Nat \ {0}
                  /\ \A k \in 1..(n.total - n.cur) : Send!Rest(n)[k] = <<n.id, n.cur + k>>
                BY <3>2, RestOf
            <4> QED BY <4>1
        <3>4. /\ Send!Cut(j + 1) = p + r /\ p + r <= Len(w_accepted)
              /\ \A k \in 1..r : w_accepted[p + k] = R[k]
            BY <3>1, <3>2, <3>3 DEF NodeAt
        <3>5. \A k \in (p + 1)..(p + r) : w_accepted[k] \in Byte
            <4>1. \A k \in (p + 1)..(p + r) : k \in 1..Len(w_accepted)
                <5>1. Len(w_accepted) \in Nat /\ p + r <= Len(w_accepted)
                    BY <3>4, <2>1 DEF SendWire
                <5> QED BY <5>1
            <4> QED BY <4>1, <2>1, ElementOfSeq DEF SendWire
        <3>6. p + 1 \in Int /\ p + r \in Int /\ ((p + r) - (p + 1)) + 1 = r /\ p + 1 <= p + r
              /\ \A k \in 1..r : ((p + 1) + k) - 1 = p + k
            OBVIOUS
        <3>7. PICK s : s = SubSeq(w_accepted, p + 1, p + r)
            OBVIOUS
        <3>8. /\ s \in Seq(Byte)
              /\ Len(s) = IF p + 1 <= p + r THEN ((p + r) - (p + 1)) + 1 ELSE 0
              /\ \A k \in 1..(((p + r) - (p + 1)) + 1) : s[k] = w_accepted[((p + 1) + k) - 1]
            BY <3>5, <3>6, <3>7, SubSeqProperties
        <3>9. Len(s) = r /\ \A k \in 1..r : s[k] = R[k]
            BY <3>4, <3>6, <3>8
        <3>10. s = R
            BY <3>3, <3>8, <3>9, SeqEqual
        <3> QED BY <3>1, <3>3, <3>4, <3>7, <3>10
    <2>4. Send!Cut(Len(w_queue) + 1) = Len(w_accepted)
        BY <2>1 DEF SendNodes
    <2>5. /\ Cardinality(Send!Writes) = IF w_send /\ ~w_failed THEN 1 ELSE 0
          /\ \A op \in Send!Writes : op.data = Send!Rest(w_queue[1])
        <3>1. CASE w_send /\ ~w_failed
            <4>1. PICK w \in w_ops : Send!Writes = {w} /\ w.data = Send!Rest(w_queue[1])
                BY <2>1, <3>1 DEF SendWrites
            <4> QED BY <3>1, <4>1, FS_Singleton
        <3>2. CASE ~(w_send /\ ~w_failed)
            <4>1. Send!Writes = {}
                BY <2>1, <3>2 DEF SendWrites
            <4> QED BY <3>2, <4>1, FS_EmptySet
        <3> QED BY <3>1, <3>2
    <2>6. \A S : Send!Cardinality(S) = Cardinality(S)
        BY Zenon DEF Send!Cardinality, Cardinality
    <2>7. Send!Cardinality(Send!Writes) = IF w_send /\ ~w_failed THEN 1 ELSE 0
        BY <2>5, <2>6
    <2>8. (w_send <=> w_queue # <<>>) /\ ~w_undef
        BY <2>1 DEF SendWrites
    <2> QED BY <2>2, <2>3, <2>4, <2>5, <2>7, <2>8 DEF Send!Correct
<1> QED BY <1>1, <1>2

-----------------------------------------------------------------------------
(* The echo server on select. *)

EchoByte == [nr : Nat, newline : BOOLEAN]

EchoType ==
    /\ s_clientfd \in [Echo!Slot -> EchoConn \cup {"-1"}]
    /\ s_maxi \in -1..(EchoSlots - 1) /\ s_nready \in Int /\ s_i \in Nat
    /\ s_at \in {"select", "check", "line", "dead"}
    /\ s_rio \in Seq(EchoByte) /\ s_buf \in Seq(EchoByte)
    /\ s_peer \in [EchoConn -> {"new", "connecting", "open", "gone", "reset", "closed"}]
    /\ s_sock \in [EchoConn -> Seq(EchoByte)] /\ s_sent \in [EchoConn -> Seq(EchoByte)]
    /\ s_echoed \in [EchoConn -> Seq(EchoByte)] /\ s_dropped \in [EchoConn -> Seq(EchoByte)]

\* A slot's client is accepted, not closed, and in no other slot.
EchoPool ==
    /\ s_read = {s_clientfd[k] : k \in Echo!Slot} \ {"-1"}
    /\ \A k \in Echo!Slot : s_clientfd[k] # "-1" =>
        /\ k <= s_maxi /\ s_peer[s_clientfd[k]] \in {"open", "gone", "reset"}
        /\ \A l \in Echo!Slot : s_clientfd[l] = s_clientfd[k] => l = k

\* The walk is on a client while it reads a line, and has nothing in hand between lines.
EchoWalk ==
    /\ s_at = "check" => s_nready = Cardinality(Echo!Ahead(s_i))
    /\ s_at = "line" => /\ s_nready = Cardinality(Echo!Ahead(s_i + 1))
                        /\ s_i \in Echo!Slot /\ s_clientfd[s_i] # "-1"
    /\ s_at \in {"select", "check"} => s_rio = <<>> /\ s_buf = <<>>

\* What the server has of a peer's bytes: sent back, in hand, or waiting in the socket.
Kept(c) == (s_echoed[c] \o Echo!InHand(c)) \o s_sock[c]

\* They are all of them until some are dropped, and in order always.
EchoOrder ==
    \A c \in EchoConn :
        /\ s_dropped[c] = <<>> => Kept(c) = s_sent[c]
        /\ \A k, l \in 1..Len(Kept(c)) : k < l => Kept(c)[k].nr < Kept(c)[l].nr
        /\ \A k \in 1..Len(Kept(c)) : Kept(c)[k].nr <= Len(s_sent[c])

EchoInv == EchoType /\ EchoPool /\ EchoWalk /\ EchoOrder

\* A set of natural numbers has a least member.
LEMMA Least ==
    ASSUME NEW S \in SUBSET Nat, S # {}
    PROVE  \E n \in S : \A m \in S : n <= m
<1>1. IsWellFoundedOn(OpToRel(<, Nat), Nat)
    BY NatLessThanWellFounded, Zenon
<1>2. PICK n \in S : \A m \in S : ~(<<m, n>> \in OpToRel(<, Nat))
    BY <1>1, WFMin, Zenon
<1>3. \A m \in S : ~(m < n)
    BY <1>2 DEF OpToRel
<1> QED BY <1>3

\* The module's own copy of Cardinality.
LEMMA EchoCard == \A S : Echo!Cardinality(S) = Cardinality(S)
BY Zenon DEF Echo!Cardinality, Cardinality

\* The walk has a finite way ahead.
LEMMA AheadFinite ==
    ASSUME EchoType, NEW n \in Nat
    PROVE  IsFiniteSet(Echo!Ahead(n)) /\ Cardinality(Echo!Ahead(n)) \in Nat
<1>1. n \in Int /\ s_maxi \in Int /\ Echo!Ahead(n) \in SUBSET (n..s_maxi)
    BY StreamAssumption DEF EchoType, Echo!Ahead
<1>2. IsFiniteSet(n..s_maxi)
    BY <1>1, FS_Interval
<1>3. IsFiniteSet(Echo!Ahead(n))
    BY <1>1, <1>2, FS_Subset
<1> QED BY <1>3, FS_CardinalityType

\* As many slots are ready as clients, no client being in two.
LEMMA ReadySlots ==
    ASSUME EchoType, EchoPool, NEW R \in SUBSET s_read
    PROVE  Cardinality({k \in Echo!Slot : s_clientfd[k] \in R}) = Cardinality(R)
<1>1. PICK T : T = {k \in Echo!Slot : s_clientfd[k] \in R}
    OBVIOUS
<1>2. IsFiniteSet(T)
    <2>1. IsFiniteSet(Echo!Slot)
        BY StreamAssumption, FS_Interval DEF Echo!Slot
    <2> QED BY <2>1, <1>1, FS_Subset
<1>3. PICK f : f = [k \in T |-> s_clientfd[k]]
    OBVIOUS
<1>4. f \in [T -> R] /\ \A k \in T : f[k] = s_clientfd[k]
    BY <1>1, <1>3
<1>5. \A k, l \in T : f[k] = f[l] => k = l
    BY <1>1, <1>4 DEF EchoPool
<1>6. \A c \in R : \E k \in T : f[k] = c
    <2> TAKE c \in R
    <2>1. PICK k \in Echo!Slot : s_clientfd[k] = c
        BY DEF EchoPool
    <2> QED BY <2>1, <1>1, <1>4
<1>7. f \in Bijection(T, R)
    BY <1>4, <1>5, <1>6 DEF Bijection, Injection, Surjection, IsInjective
<1>8. ExistsBijection(T, R)
    BY <1>7 DEF ExistsBijection
<1> QED BY <1>1, <1>2, <1>8, FS_Bijection

\* The parts of Kept are sequences of bytes.
LEMMA KeptBytes ==
    ASSUME EchoType, NEW c \in EchoConn
    PROVE  /\ s_echoed[c] \in Seq(EchoByte) /\ s_sock[c] \in Seq(EchoByte)
           /\ s_sent[c] \in Seq(EchoByte) /\ s_dropped[c] \in Seq(EchoByte)
           /\ Echo!InHand(c) \in Seq(EchoByte) /\ Kept(c) \in Seq(EchoByte)
<1>1. /\ s_echoed[c] \in Seq(EchoByte) /\ s_sock[c] \in Seq(EchoByte)
      /\ s_sent[c] \in Seq(EchoByte) /\ s_dropped[c] \in Seq(EchoByte)
    BY DEF EchoType
<1>2. s_buf \o s_rio \in Seq(EchoByte) /\ <<>> \in Seq(EchoByte)
    BY ConcatProperties DEF EchoType
<1>3. Echo!InHand(c) \in Seq(EchoByte)
    BY <1>2 DEF Echo!InHand
<1>4. s_echoed[c] \o Echo!InHand(c) \in Seq(EchoByte)
    BY <1>1, <1>3, ConcatProperties
<1>5. Kept(c) \in Seq(EchoByte)
    BY <1>1, <1>4, ConcatProperties DEF Kept
<1> QED BY <1>1, <1>3, <1>5

\* Between lines nothing is in hand.
LEMMA EmptyHand ==
    ASSUME s_at \in {"select", "check"} \/ (s_rio = <<>> /\ s_buf = <<>>), NEW c
    PROVE  Echo!InHand(c) = <<>>
<1>1. <<>> \in Seq(EchoByte)
    OBVIOUS
<1>2. <<>> \o <<>> = <<>>
    BY <1>1, ConcatEmptySeq
<1> QED BY <1>2 DEF Echo!InHand

\* The same after a step.
LEMMA EmptyHandNext ==
    ASSUME s_at' \in {"select", "check"} \/ (s_rio' = <<>> /\ s_buf' = <<>>), NEW c
    PROVE  Echo!InHand(c)' = <<>>
<1>1. <<>> \in Seq(EchoByte)
    OBVIOUS
<1>2. <<>> \o <<>> = <<>>
    BY <1>1, ConcatEmptySeq
<1> QED BY <1>2 DEF Echo!InHand

\* A step that only moves a peer's bytes along keeps their order.
LEMMA SameOrder ==
    ASSUME EchoOrder, NEW c \in EchoConn, Kept(c)' = Kept(c),
           s_dropped'[c] = s_dropped[c], s_sent'[c] = s_sent[c]
    PROVE  /\ s_dropped'[c] = <<>> => Kept(c)' = s_sent'[c]
           /\ \A k, l \in 1..Len(Kept(c)') : k < l => Kept(c)'[k].nr < Kept(c)'[l].nr
           /\ \A k \in 1..Len(Kept(c)') : Kept(c)'[k].nr <= Len(s_sent'[c])
<1>1. PICK K : K = Kept(c) /\ K = Kept(c)'
    OBVIOUS
<1>2. /\ s_dropped[c] = <<>> => K = s_sent[c]
      /\ \A k, l \in 1..Len(K) : k < l => K[k].nr < K[l].nr
      /\ \A k \in 1..Len(K) : K[k].nr <= Len(s_sent[c])
    BY <1>1 DEF EchoOrder
<1> QED BY <1>1, <1>2

\* Bytes in order stay in order when some in the middle are taken out.
LEMMA Gap ==
    ASSUME NEW P \in Seq(EchoByte), NEW Y \in Seq(EchoByte), NEW Z \in Seq(EchoByte), NEW m,
           \A k, l \in 1..Len((P \o Y) \o Z) : k < l => ((P \o Y) \o Z)[k].nr < ((P \o Y) \o Z)[l].nr,
           \A k \in 1..Len((P \o Y) \o Z) : ((P \o Y) \o Z)[k].nr <= m
    PROVE  /\ \A k, l \in 1..Len(P \o Z) : k < l => (P \o Z)[k].nr < (P \o Z)[l].nr
           /\ \A k \in 1..Len(P \o Z) : (P \o Z)[k].nr <= m
<1>9. PICK K, L : K = (P \o Y) \o Z /\ L = P \o Z
    OBVIOUS
<1>10. /\ \A k, l \in 1..Len(K) : k < l => K[k].nr < K[l].nr
      /\ \A k \in 1..Len(K) : K[k].nr <= m
    BY <1>9
<1>1. PICK p \in Nat, y \in Nat, z \in Nat : p = Len(P) /\ y = Len(Y) /\ z = Len(Z)
    OBVIOUS
<1>2. /\ Len(L) = p + z
      /\ \A k \in 1..(p + z) : L[k] = IF k <= p THEN P[k] ELSE Z[k - p]
    BY <1>9, <1>1, ConcatProperties
<1>3. /\ P \o Y \in Seq(EchoByte) /\ Len(P \o Y) = p + y
      /\ \A k \in 1..(p + y) : (P \o Y)[k] = IF k <= p THEN P[k] ELSE Y[k - p]
    BY <1>1, ConcatProperties
<1>4. /\ Len(K) = (p + y) + z
      /\ \A k \in 1..((p + y) + z) : K[k] = IF k <= p + y THEN (P \o Y)[k] ELSE Z[k - (p + y)]
    BY <1>9, <1>1, <1>3, ConcatProperties
<1> DEFINE g(k) == IF k <= p THEN k ELSE k + y
<1>5. ASSUME NEW k \in 1..(p + z)
      PROVE  g(k) \in 1..Len(K) /\ L[k] = K[g(k)]
    <2>1. CASE k <= p
        <3>1. k \in 1..(p + y) /\ k \in 1..((p + y) + z) /\ k <= p + y
            BY <2>1
        <3> QED BY <2>1, <3>1, <1>2, <1>3, <1>4
    <2>2. CASE ~(k <= p)
        <3>1. /\ k + y \in 1..((p + y) + z) /\ ~(k + y <= p + y)
              /\ (k + y) - (p + y) = k - p
            BY <2>2
        <3> QED BY <2>2, <3>1, <1>2, <1>4
    <2> QED BY <2>1, <2>2
<1>6. \A k, l \in 1..(p + z) : k < l => g(k) < g(l)
    OBVIOUS
<1> HIDE DEF g
<1>7. ASSUME NEW k \in 1..(p + z), NEW l \in 1..(p + z), k < l
      PROVE  L[k].nr < L[l].nr
    <2>1. g(k) \in 1..Len(K) /\ g(l) \in 1..Len(K) /\ L[k] = K[g(k)] /\ L[l] = K[g(l)]
        BY <1>5
    <2>2. g(k) < g(l)
        BY <1>6, <1>7
    <2> QED BY <2>1, <2>2, <1>10
<1>8. ASSUME NEW k \in 1..(p + z)
      PROVE  L[k].nr <= m
    BY <1>5, <1>10
<1> QED BY <1>9, <1>2, <1>7, <1>8

\* The server starts with an empty pool.
LEMMA EchoInit ==
    ASSUME Echo!Init
    PROVE  EchoInv
<1> USE DEF Echo!Init, Echo!Free
<1>1. EchoType
    BY StreamAssumption DEF EchoType, Echo!Slot
<1>2. EchoPool
    BY DEF EchoPool
<1>3. EchoWalk
    BY DEF EchoWalk
<1>4. ASSUME NEW c \in EchoConn
      PROVE  Kept(c) = <<>> /\ s_sent[c] = <<>>
    <2>1. Echo!InHand(c) = <<>>
        BY EmptyHand
    <2>2. <<>> \o <<>> = <<>>
        <3>1. <<>> \in Seq(EchoByte)
            OBVIOUS
        <3> QED BY <3>1, ConcatEmptySeq
    <2> QED BY <2>1, <2>2 DEF Kept
<1>5. EchoOrder
    BY <1>4 DEF EchoOrder
<1> QED BY <1>1, <1>2, <1>3, <1>5 DEF EchoInv

\* What a peer does leaves the pool and the walk alone.
LEMMA EchoPeerStep ==
    ASSUME EchoInv, NEW c \in EchoConn,
           \/ Echo!Connect(c) \/ Echo!Leave(c, "gone") \/ Echo!Leave(c, "reset")
           \/ \E newline \in BOOLEAN : Echo!Say(c, newline)
    PROVE  EchoInv'
<1> USE DEF EchoInv
<1>1. UNCHANGED <<s_clientfd, s_maxi, s_read, s_ready, s_nready, s_at, s_i, s_rio, s_buf, s_echoed, s_dropped>>
    BY DEF Echo!Connect, Echo!Leave, Echo!Say, Echo!pool
<1>2. /\ s_peer' \in [EchoConn -> {"new", "connecting", "open", "gone", "reset", "closed"}]
      /\ \A d \in EchoConn : s_peer[d] \in {"open", "gone", "reset"} =>
                             s_peer'[d] \in {"open", "gone", "reset"}
    BY DEF Echo!Connect, Echo!Leave, Echo!Say, EchoType
<1>3. \A d : Echo!InHand(d)' = Echo!InHand(d)
    BY <1>1 DEF Echo!InHand, Echo!Client
<1>4. \A n : Echo!Ahead(n)' = Echo!Ahead(n)
    BY <1>1 DEF Echo!Ahead
<1>5. EchoPool' /\ EchoWalk'
    <2>1. EchoPool'
        <3>1. \A k \in Echo!Slot : s_clientfd[k] # "-1" => s_clientfd[k] \in EchoConn
            BY DEF EchoType
        <3> QED BY <1>1, <1>2, <3>1 DEF EchoPool
    <2>2. Echo!Ahead(s_i)' = Echo!Ahead(s_i) /\ Echo!Ahead(s_i + 1)' = Echo!Ahead(s_i + 1)
        BY <1>1 DEF Echo!Ahead
    <2>3. EchoWalk'
        BY <1>1, <2>2 DEF EchoWalk
    <2> QED BY <2>1, <2>3
<1>6. CASE UNCHANGED <<s_sock, s_sent>>
    <2>1. EchoType'
        BY <1>1, <1>2, <1>6 DEF EchoType
    <2>2. \A d : Kept(d)' = Kept(d)
        BY <1>1, <1>3, <1>6 DEF Kept
    <2>3. EchoOrder'
        BY <1>1, <1>6, <2>2, SameOrder DEF EchoOrder
    <2> QED BY <1>5, <2>1, <2>3
<1>7. ASSUME NEW newline \in BOOLEAN, Echo!Say(c, newline)
      PROVE  EchoInv'
    <2>1. PICK n \in Nat, byte \in EchoByte :
            /\ n = Len(s_sent[c]) /\ byte = [nr |-> n + 1, newline |-> newline]
            /\ s_sent' = [s_sent EXCEPT ![c] = Append(s_sent[c], byte)]
            /\ s_sock' = [s_sock EXCEPT ![c] = Append(s_sock[c], byte)]
        <3>1. PICK n \in Nat : n = Len(s_sent[c])
            BY DEF EchoType
        <3>2. [nr |-> n + 1, newline |-> newline] \in EchoByte
            BY DEF EchoByte
        <3> QED BY <1>7, <3>1, <3>2 DEF Echo!Say
    <2>2. /\ s_sent' \in [EchoConn -> Seq(EchoByte)] /\ s_sock' \in [EchoConn -> Seq(EchoByte)]
          /\ s_sent'[c] = Append(s_sent[c], byte) /\ s_sock'[c] = Append(s_sock[c], byte)
          /\ \A d \in EchoConn : d # c => s_sent'[d] = s_sent[d] /\ s_sock'[d] = s_sock[d]
        <3>1. Append(s_sent[c], byte) \in Seq(EchoByte) /\ Append(s_sock[c], byte) \in Seq(EchoByte)
            BY KeptBytes, AppendProperties
        <3>2. s_sent \in [EchoConn -> Seq(EchoByte)] /\ s_sock \in [EchoConn -> Seq(EchoByte)]
            BY DEF EchoType
        <3> QED BY <2>1, <3>1, <3>2
    <2>3. EchoType'
        BY <1>1, <1>2, <2>2 DEF EchoType
    <2>4. PICK K \in Seq(EchoByte) : K = Kept(c)
        BY KeptBytes
    <2>5. Kept(c)' = Append(K, byte)
        <3>1. PICK x \in Seq(EchoByte), s \in Seq(EchoByte) :
                x = s_echoed[c] \o Echo!InHand(c) /\ s = s_sock[c]
            BY KeptBytes, ConcatProperties
        <3>2. x \o Append(s, byte) = Append(x \o s, byte)
            <4>1. Append(s, byte) = s \o <<byte>> /\ Append(x \o s, byte) = (x \o s) \o <<byte>>
                BY AppendIsConcat, ConcatProperties
            <4>2. <<byte>> \in Seq(EchoByte)
                OBVIOUS
            <4> QED BY <4>1, <4>2, ConcatAssociative
        <3> QED BY <1>1, <1>3, <2>2, <2>4, <3>1, <3>2 DEF Kept
    <2>6. PICK m \in Nat : /\ m = Len(K) /\ Len(Append(K, byte)) = m + 1
                           /\ \A k \in 1..m : Append(K, byte)[k] = K[k]
                           /\ Append(K, byte)[m + 1] = byte
        BY <2>4, AppendProperties
    <2>7. /\ s_dropped[c] = <<>> => K = s_sent[c]
          /\ \A k, l \in 1..m : k < l => K[k].nr < K[l].nr
          /\ \A k \in 1..m : K[k].nr <= n /\ K[k].nr \in Nat
        <3>1. \A k \in 1..m : K[k] \in EchoByte
            BY <2>6, ElementOfSeq
        <3>2. \A k \in 1..m : K[k].nr \in Nat
            BY <3>1 DEF EchoByte
        <3> QED BY <2>1, <2>4, <2>6, <3>2 DEF EchoOrder
    <2>8. Len(s_sent'[c]) = n + 1 /\ byte.nr = n + 1
        BY <2>1, <2>2, KeptBytes, AppendProperties
    <2>9. ASSUME NEW k \in 1..(m + 1)
          PROVE  /\ Append(K, byte)[k].nr <= n + 1
                 /\ \A l \in 1..(m + 1) : k < l => Append(K, byte)[k].nr < Append(K, byte)[l].nr
        <3>1. CASE k = m + 1
            BY <3>1, <2>6, <2>8
        <3>2. CASE k # m + 1
            <4>1. k \in 1..m
                BY <3>2
            <4>2. Append(K, byte)[k].nr = K[k].nr /\ K[k].nr \in Nat /\ K[k].nr <= n
                BY <4>1, <2>6, <2>7
            <4>3. ASSUME NEW l \in 1..(m + 1), k < l
                  PROVE  Append(K, byte)[k].nr < Append(K, byte)[l].nr
                <5>1. CASE l = m + 1
                    BY <5>1, <4>2, <2>6, <2>8
                <5>2. CASE l # m + 1
                    <6>1. l \in 1..m
                        BY <5>2
                    <6> QED BY <6>1, <4>1, <4>2, <4>3, <2>6, <2>7
                <5> QED BY <5>1, <5>2
            <4>4. K[k].nr <= n + 1
                BY <4>2
            <4> QED BY <4>2, <4>3, <4>4
        <3> QED BY <3>1, <3>2
    <2>10. EchoOrder'
        <3>1. ASSUME NEW d \in EchoConn, d # c
              PROVE  Kept(d)' = Kept(d) /\ s_dropped'[d] = s_dropped[d] /\ s_sent'[d] = s_sent[d]
            BY <1>1, <1>3, <2>2, <3>1 DEF Kept
        <3>2. /\ s_dropped'[c] = <<>> => Kept(c)' = s_sent'[c]
              /\ \A k, l \in 1..Len(Kept(c)') : k < l => Kept(c)'[k].nr < Kept(c)'[l].nr
              /\ \A k \in 1..Len(Kept(c)') : Kept(c)'[k].nr <= Len(s_sent'[c])
            BY <1>1, <2>2, <2>5, <2>6, <2>7, <2>8, <2>9
        <3> QED BY <3>1, <3>2, SameOrder DEF EchoOrder
    <2> QED BY <1>5, <2>3, <2>10
<1>8. UNCHANGED <<s_sock, s_sent>> \/ \E newline \in BOOLEAN : Echo!Say(c, newline)
    BY DEF Echo!Connect, Echo!Leave
<1> QED BY <1>6, <1>7, <1>8

\* Select gives the walk its ready clients, and add_client a new one that is not among them.
LEMMA EchoSelectStep ==
    ASSUME EchoInv, Echo!Select
    PROVE  EchoInv'
<1> USE DEF EchoInv
<1>1. /\ s_at = "select" /\ s_ready' = Echo!Readable /\ s_i' = 0
      /\ UNCHANGED <<s_rio, s_buf, s_sock, s_sent, s_echoed, s_dropped>>
    BY DEF Echo!Select
<1>2. s_rio = <<>> /\ s_buf = <<>>
    BY <1>1 DEF EchoWalk
<1>3. PICK R \in SUBSET s_read : R = Echo!Readable
    BY DEF Echo!Readable
<1>4. EchoOrder'
    <2>1. ASSUME NEW c \in EchoConn
          PROVE  Kept(c)' = Kept(c)
        <3>1. Echo!InHand(c) = <<>>
            BY <1>1, EmptyHand
        <3>2. Echo!InHand(c)' = <<>>
            BY <1>1, <1>2, EmptyHandNext
        <3> QED BY <3>1, <3>2, <1>1 DEF Kept
    <2> QED BY <2>1, <1>1, SameOrder DEF EchoOrder
<1>5. PICK T : T = {k \in Echo!Slot : s_clientfd[k] \in R}
    OBVIOUS
<1>6. Cardinality(T) = Cardinality(R) /\ Cardinality(R) \in Nat
    <2>1. Cardinality(T) = Cardinality(R)
        BY <1>5, ReadySlots
    <2>2. IsFiniteSet(T)
        <3>1. IsFiniteSet(Echo!Slot)
            BY StreamAssumption, FS_Interval DEF Echo!Slot
        <3> QED BY <3>1, <1>5, FS_Subset
    <2> QED BY <2>1, <2>2, FS_CardinalityType
<1>7. Echo!Cardinality(Echo!Readable) = Cardinality(T)
    BY <1>3, <1>6, EchoCard
<1>8. "-1" \notin R /\ "-1" \notin EchoConn /\ \A k \in Echo!Slot : s_clientfd[k] # "-1" => k <= s_maxi
    BY <1>3, StreamAssumption DEF EchoPool
<1>9. Echo!Slot = 0..(EchoSlots - 1) /\ s_maxi \in -1..(EchoSlots - 1) /\ EchoSlots \in Nat
    BY StreamAssumption DEF Echo!Slot, EchoType
<1>10. CASE /\ s_nready' = Echo!Cardinality(Echo!Readable) /\ s_at' = "check"
            /\ UNCHANGED <<s_clientfd, s_maxi, s_read, s_peer>>
    <2>1. Echo!Ahead(s_i)' = T
        <3>1. Echo!Ahead(s_i)' = {k \in 0..s_maxi : s_clientfd[k] # "-1" /\ s_clientfd[k] \in R}
            BY <1>1, <1>3, <1>10 DEF Echo!Ahead, Echo!Free
        <3>2. \A k \in 0..s_maxi : k \in Echo!Slot
            BY <1>9
        <3>3. \A k \in T : k \in 0..s_maxi /\ s_clientfd[k] # "-1"
            BY <1>5, <1>8, <1>9
        <3> QED BY <3>1, <3>2, <3>3, <1>5
    <2>2. EchoWalk'
        BY <2>1, <1>1, <1>2, <1>7, <1>10 DEF EchoWalk
    <2>3. EchoType'
        BY <1>1, <1>6, <1>7, <1>10 DEF EchoType
    <2>4. EchoPool'
        BY <1>10 DEF EchoPool
    <2> QED BY <1>4, <2>2, <2>3, <2>4
<1>11. ASSUME NEW c \in EchoConn, s_peer[c] = "connecting",
              s_nready' = (Echo!Cardinality(Echo!Readable) + 1) - 1, Echo!add_client(c)
       PROVE  EchoInv'
    <2>1. s_nready' = Cardinality(T)
        BY <1>6, <1>7, <1>11
    <2>2. PICK free : free = {k \in Echo!Slot : s_clientfd[k] = "-1"}
        OBVIOUS
    <2>3. \A k \in Echo!Slot : s_clientfd[k] # c
        <3>1. c # "-1"
            BY <1>8
        <3> QED BY <3>1, <1>11 DEF EchoPool
    <2>4. CASE free = {}
        <3>1. s_at' = "dead" /\ UNCHANGED <<s_clientfd, s_read, s_maxi, s_peer>>
            BY <1>11, <2>2, <2>4 DEF Echo!add_client, Echo!Free
        <3>2. EchoWalk'
            BY <3>1 DEF EchoWalk
        <3>3. EchoType'
            BY <3>1, <1>1, <1>6, <2>1 DEF EchoType
        <3>4. EchoPool'
            BY <3>1 DEF EchoPool
        <3> QED BY <1>4, <3>2, <3>3, <3>4
    <2>5. CASE free # {}
        <3>1. PICK k0 : k0 = CHOOSE n \in free : \A l \in free : n <= l
            OBVIOUS
        <3>2. k0 \in free
            <4>1. free \in SUBSET Nat
                BY <2>2, <1>9
            <4>2. \E n \in free : \A l \in free : n <= l
                BY <4>1, <2>5, Least
            <4> QED BY <3>1, <4>2
        <3>3. /\ s_clientfd' = [s_clientfd EXCEPT ![k0] = c] /\ s_read' = s_read \cup {c}
              /\ s_maxi' = IF k0 > s_maxi THEN k0 ELSE s_maxi
              /\ s_peer' = [s_peer EXCEPT ![c] = "open"] /\ s_at' = "check"
            BY <1>11, <2>2, <2>5, <3>1 DEF Echo!add_client, Echo!Free
        <3>4. /\ s_clientfd' \in [Echo!Slot -> EchoConn \cup {"-1"}] /\ s_clientfd'[k0] = c
              /\ k0 \in Echo!Slot /\ s_clientfd[k0] = "-1"
              /\ \A k \in Echo!Slot : k # k0 => s_clientfd'[k] = s_clientfd[k]
            BY <2>2, <3>2, <3>3 DEF EchoType
        <3>5. s_maxi' \in -1..(EchoSlots - 1) /\ k0 <= s_maxi' /\ s_maxi <= s_maxi'
            BY <3>3, <3>4, <1>9
        <3>6. EchoType'
            BY <1>1, <1>6, <2>1, <3>3, <3>4, <3>5 DEF EchoType
        <3>7. EchoPool'
            <4>1. s_read' = {s_clientfd'[k] : k \in Echo!Slot} \ {"-1"}
                <5>1. s_read = {s_clientfd[k] : k \in Echo!Slot} \ {"-1"} /\ c # "-1"
                    BY <1>8 DEF EchoPool
                <5> QED BY <5>1, <3>3, <3>4
            <4>2. ASSUME NEW k \in Echo!Slot, s_clientfd'[k] # "-1"
                  PROVE  /\ k <= s_maxi' /\ s_peer'[s_clientfd'[k]] \in {"open", "gone", "reset"}
                         /\ \A l \in Echo!Slot : s_clientfd'[l] = s_clientfd'[k] => l = k
                <5>1. CASE k = k0
                    <6>1. s_peer'[c] = "open"
                        BY <3>3 DEF EchoType
                    <6> QED BY <5>1, <6>1, <3>4, <3>5, <2>3
                <5>2. CASE k # k0
                    <6>1. s_clientfd'[k] = s_clientfd[k] /\ s_clientfd[k] # "-1" /\ s_clientfd[k] # c
                        BY <4>2, <5>2, <3>4, <2>3
                    <6>2. /\ k <= s_maxi /\ s_peer[s_clientfd[k]] \in {"open", "gone", "reset"}
                          /\ \A l \in Echo!Slot : s_clientfd[l] = s_clientfd[k] => l = k
                        BY <6>1 DEF EchoPool
                    <6>3. s_peer'[s_clientfd[k]] = s_peer[s_clientfd[k]]
                        BY <6>1, <3>3 DEF EchoType
                    <6>4. k <= s_maxi'
                        BY <6>2, <3>5, <1>9
                    <6> QED BY <6>1, <6>2, <6>3, <6>4, <5>2, <3>4
                <5> QED BY <5>1, <5>2
            <4> QED BY <4>1, <4>2 DEF EchoPool
        <3>8. Echo!Ahead(s_i)' = T
            <4>1. Echo!Ahead(s_i)' = {k \in 0..s_maxi' : s_clientfd'[k] # "-1" /\ s_clientfd'[k] \in R}
                BY <1>1, <1>3 DEF Echo!Ahead, Echo!Free
            <4>2. c \notin R
                BY <1>3, <1>8, <2>3 DEF EchoPool
            <4>3. \A k \in 0..s_maxi' : k \in Echo!Slot
                BY <3>5, <1>9
            <4>4. \A k \in T : k \in 0..s_maxi' /\ k # k0
                <5>1. \A k \in T : k \in Echo!Slot /\ k <= s_maxi /\ s_clientfd[k] # "-1"
                    BY <1>5, <1>8
                <5> QED BY <5>1, <3>4, <3>5, <1>9
            <4>5. \A k \in 0..s_maxi' : s_clientfd'[k] \in R => k \in T
                BY <4>2, <4>3, <3>4, <1>5
            <4>6. \A k \in T : s_clientfd'[k] = s_clientfd[k] /\ s_clientfd[k] \in R /\ s_clientfd[k] # "-1"
                BY <4>4, <3>4, <1>5, <1>8
            <4> QED BY <4>1, <4>4, <4>5, <4>6
        <3>9. EchoWalk'
            BY <3>8, <1>1, <1>2, <2>1, <3>3 DEF EchoWalk
        <3> QED BY <1>4, <3>6, <3>7, <3>9
    <2> QED BY <2>4, <2>5
<1> QED BY <1>10, <1>11 DEF Echo!Select

\* The walk meets a ready client or passes a slot.
LEMMA EchoCheckStep ==
    ASSUME EchoInv, Echo!check_clients
    PROVE  EchoInv'
<1> USE DEF EchoInv
<1>1. /\ s_at = "check" /\ s_rio' = <<>> /\ s_buf' = <<>>
      /\ UNCHANGED <<s_clientfd, s_maxi, s_read, s_ready, s_peer, s_sock, s_sent, s_echoed, s_dropped>>
    BY DEF Echo!check_clients
<1>2. EchoOrder'
    <2>1. ASSUME NEW c \in EchoConn
          PROVE  Kept(c)' = Kept(c)
        <3>1. Echo!InHand(c) = <<>>
            BY <1>1, EmptyHand
        <3>2. Echo!InHand(c)' = <<>>
            BY <1>1, EmptyHandNext
        <3> QED BY <3>1, <3>2, <1>1 DEF Kept
    <2> QED BY <2>1, <1>1, SameOrder DEF EchoOrder
<1>3. EchoPool'
    BY <1>1 DEF EchoPool
<1>4. PICK n \in Nat, r \in Int : n = s_i /\ r = s_nready /\ r = Cardinality(Echo!Ahead(n))
    BY <1>1 DEF EchoType, EchoWalk
<1>5. \A m : Echo!Ahead(m)' = Echo!Ahead(m)
    BY <1>1 DEF Echo!Ahead
<1>6. CASE s_at' = "select" /\ UNCHANGED <<s_i, s_nready>>
    <2>1. EchoWalk'
        BY <1>1, <1>6 DEF EchoWalk
    <2>2. EchoType'
        BY <1>1, <1>6 DEF EchoType
    <2> QED BY <1>2, <1>3, <2>1, <2>2
<1>7. ASSUME ~(s_i > s_maxi)
      PROVE  n \in Echo!Slot /\ n \in n..s_maxi /\ \A k : k \in n..s_maxi <=> k = n \/ k \in (n + 1)..s_maxi
    <2>1. s_maxi \in -1..(EchoSlots - 1) /\ EchoSlots \in Nat /\ n <= s_maxi /\ s_maxi \in Int
        BY <1>4, <1>7, StreamAssumption DEF EchoType
    <2> QED BY <2>1 DEF Echo!Slot
<1>8. ASSUME ~(s_i > s_maxi), s_clientfd[s_i] # "-1", s_clientfd[s_i] \in s_ready,
             s_at' = "line", s_nready' = s_nready - 1, UNCHANGED s_i
      PROVE  EchoInv'
    <2>1. Echo!Ahead(n) = Echo!Ahead(n + 1) \cup {n} /\ n \notin Echo!Ahead(n + 1)
        BY <1>4, <1>7, <1>8 DEF Echo!Ahead, Echo!Free
    <2>2. Cardinality(Echo!Ahead(n)) = Cardinality(Echo!Ahead(n + 1)) + 1
          /\ Cardinality(Echo!Ahead(n + 1)) \in Nat
        <3>1. IsFiniteSet(Echo!Ahead(n + 1)) /\ Cardinality(Echo!Ahead(n + 1)) \in Nat
            BY AheadFinite
        <3> QED BY <2>1, <3>1, FS_AddElement
    <2>3. s_nready' = Cardinality(Echo!Ahead(n + 1))
        <3>1. PICK m \in Nat : m = Cardinality(Echo!Ahead(n + 1)) /\ r = m + 1 /\ s_nready' = r - 1
            BY <2>2, <1>4, <1>8
        <3> QED BY <3>1
    <2>4. Echo!Ahead(s_i + 1)' = Echo!Ahead(n + 1)
        BY <1>1, <1>4, <1>8 DEF Echo!Ahead
    <2>5. EchoWalk'
        BY <2>3, <2>4, <1>1, <1>4, <1>7, <1>8 DEF EchoWalk
    <2>6. EchoType'
        BY <1>1, <1>4, <1>8 DEF EchoType
    <2> QED BY <1>2, <1>3, <2>5, <2>6
<1>9. ASSUME ~(s_i > s_maxi), ~(s_clientfd[s_i] # "-1" /\ s_clientfd[s_i] \in s_ready),
             s_i' = s_i + 1, UNCHANGED <<s_at, s_nready>>
      PROVE  EchoInv'
    <2>1. Echo!Ahead(n) = Echo!Ahead(n + 1)
        BY <1>4, <1>7, <1>9 DEF Echo!Ahead, Echo!Free
    <2>2. Echo!Ahead(s_i)' = Echo!Ahead(n + 1)
        BY <1>1, <1>4, <1>9 DEF Echo!Ahead
    <2>3. EchoWalk'
        BY <2>1, <2>2, <1>1, <1>4, <1>9 DEF EchoWalk
    <2>4. EchoType'
        BY <1>1, <1>4, <1>9 DEF EchoType
    <2> QED BY <1>2, <1>3, <2>3, <2>4
<1> QED BY <1>6, <1>8, <1>9 DEF Echo!check_clients, Echo!Free

\* While a line is read, its client is the only one with bytes in hand.
LEMMA OneInHand ==
    ASSUME EchoInv, s_at = "line"
    PROVE  /\ Echo!Client \in EchoConn /\ s_i \in Echo!Slot /\ s_i \in Nat
           /\ s_rio \in Seq(EchoByte) /\ s_buf \in Seq(EchoByte)
           /\ Echo!InHand(Echo!Client) = s_buf \o s_rio
           /\ \A c : c # Echo!Client => Echo!InHand(c) = <<>>
<1> USE DEF EchoInv
<1>1. s_i \in Echo!Slot /\ s_clientfd[s_i] # "-1"
    BY DEF EchoWalk
<1>2. Echo!Client \in EchoConn
    BY <1>1 DEF EchoType, Echo!Client
<1>3. Echo!InHand(Echo!Client) = s_buf \o s_rio /\ \A c : c # Echo!Client => Echo!InHand(c) = <<>>
    BY <1>1 DEF Echo!InHand
<1> QED BY <1>1, <1>2, <1>3 DEF EchoType

\* A process that an error ends leaves everything where it is.
LEMMA EchoDies ==
    ASSUME EchoInv, s_at = "line", s_at' = "dead",
           UNCHANGED <<s_clientfd, s_maxi, s_read, s_ready, s_nready, s_i, s_rio, s_buf, s_peer, s_sock,
                       s_sent, s_echoed, s_dropped>>
    PROVE  EchoInv'
<1> USE DEF EchoInv
<1>1. EchoType'
    BY DEF EchoType
<1>2. EchoPool'
    BY DEF EchoPool
<1>3. EchoWalk'
    BY DEF EchoWalk
<1>4. \A c : Echo!InHand(c)' = Echo!InHand(c)
    BY DEF Echo!InHand, Echo!Client, Echo!Slot
<1>5. \A c : Kept(c)' = Kept(c)
    BY <1>4 DEF Kept
<1>6. EchoOrder'
    BY <1>5, SameOrder DEF EchoOrder
<1> QED BY <1>1, <1>2, <1>3, <1>6

\* A line goes back to its client, and what was read after it is gone.
LEMMA EchoWritten ==
    ASSUME EchoInv, s_at = "line", NEW line \in Seq(EchoByte), NEW rest \in Seq(EchoByte),
           s_echoed' = [s_echoed EXCEPT ![Echo!Client] = @ \o line],
           s_dropped' = [s_dropped EXCEPT ![Echo!Client] = @ \o rest],
           s_at' = "check", s_i' = s_i + 1, s_rio' = <<>>, s_buf' = <<>>,
           Kept(Echo!Client) = ((s_echoed[Echo!Client] \o line) \o rest) \o s_sock[Echo!Client],
           UNCHANGED <<s_clientfd, s_maxi, s_read, s_ready, s_nready, s_peer, s_sock, s_sent>>
    PROVE  EchoInv'
<1> USE DEF EchoInv
<1>1. PICK c \in EchoConn : c = Echo!Client
    BY OneInHand
<1>2. /\ s_echoed' = [s_echoed EXCEPT ![c] = s_echoed[c] \o line]
      /\ s_dropped' = [s_dropped EXCEPT ![c] = s_dropped[c] \o rest]
      /\ s_at' = "check" /\ s_i' = s_i + 1 /\ s_rio' = <<>> /\ s_buf' = <<>>
    BY <1>1
<1>3. PICK e \in Seq(EchoByte), d \in Seq(EchoByte), z \in Seq(EchoByte), P \in Seq(EchoByte), D \in Seq(EchoByte) :
        e = s_echoed[c] /\ d = s_dropped[c] /\ z = s_sock[c] /\ P = e \o line /\ D = d \o rest
    BY KeptBytes, ConcatProperties
<1>4. /\ s_echoed' \in [EchoConn -> Seq(EchoByte)] /\ s_dropped' \in [EchoConn -> Seq(EchoByte)]
      /\ s_echoed'[c] = P /\ s_dropped'[c] = D
      /\ \A b \in EchoConn : b # c => s_echoed'[b] = s_echoed[b] /\ s_dropped'[b] = s_dropped[b]
    <2>1. s_echoed' = [s_echoed EXCEPT ![c] = P] /\ s_dropped' = [s_dropped EXCEPT ![c] = D]
        BY <1>2, <1>3
    <2>2. s_echoed \in [EchoConn -> Seq(EchoByte)] /\ s_dropped \in [EchoConn -> Seq(EchoByte)]
        BY DEF EchoType
    <2>3. P \in Seq(EchoByte) /\ D \in Seq(EchoByte) /\ c \in EchoConn
        BY <1>1, <1>3
    <2> QED BY ONLY <2>1, <2>2, <2>3
<1>5. s_i \in Nat /\ s_nready = Cardinality(Echo!Ahead(s_i + 1))
    BY DEF EchoType, EchoWalk
<1>6. EchoType'
    <2>1. s_i' \in Nat /\ s_rio' \in Seq(EchoByte) /\ s_buf' \in Seq(EchoByte)
        BY <1>2, <1>5
    <2>2. s_at' \in {"select", "check", "line", "dead"}
        BY <1>2
    <2> QED BY <2>1, <2>2, <1>4 DEF EchoType
<1>7. EchoPool'
    BY DEF EchoPool
<1>8. EchoWalk'
    <2>1. Echo!Ahead(s_i)' = Echo!Ahead(s_i + 1)
        BY <1>2 DEF Echo!Ahead
    <2> QED BY <2>1, <1>2, <1>5 DEF EchoWalk
<1>9. \A b : Echo!InHand(b)' = <<>>
    BY <1>2, EmptyHandNext
<1>10. ASSUME NEW b \in EchoConn, b # c
       PROVE  Kept(b)' = Kept(b)
    <2>1. Echo!InHand(b) = <<>>
        BY <1>1, <1>10, OneInHand
    <2> QED BY <2>1, <1>4, <1>9, <1>10 DEF Kept
<1>11. Kept(c)' = P \o z
    <2>1. P \o <<>> = P
        BY ConcatEmptySeq
    <2> QED BY <2>1, <1>3, <1>4, <1>9 DEF Kept
<1>12. PICK K, L : K = Kept(c) /\ L = P \o z
    OBVIOUS
<1>13. K = (P \o rest) \o z
    BY <1>1, <1>3, <1>12
<1>14. /\ s_dropped[c] = <<>> => K = s_sent[c]
       /\ \A k, l \in 1..Len(K) : k < l => K[k].nr < K[l].nr
       /\ \A k \in 1..Len(K) : K[k].nr <= Len(s_sent[c])
    BY <1>12 DEF EchoOrder
<1>15. /\ \A k, l \in 1..Len(L) : k < l => L[k].nr < L[l].nr
       /\ \A k \in 1..Len(L) : L[k].nr <= Len(s_sent[c])
    <2>1. PICK m : m = Len(s_sent[c])
        OBVIOUS
    <2>2. /\ \A k, l \in 1..Len((P \o rest) \o z) : k < l => ((P \o rest) \o z)[k].nr < ((P \o rest) \o z)[l].nr
          /\ \A k \in 1..Len((P \o rest) \o z) : ((P \o rest) \o z)[k].nr <= m
        BY <2>1, <1>13, <1>14
    <2>3. /\ \A k, l \in 1..Len(P \o z) : k < l => (P \o z)[k].nr < (P \o z)[l].nr
          /\ \A k \in 1..Len(P \o z) : (P \o z)[k].nr <= m
        BY <2>2, Gap
    <2> QED BY <2>1, <2>3, <1>12
<1>16. s_dropped'[c] = <<>> => L = s_sent[c]
    <2> SUFFICES ASSUME D = <<>>
                 PROVE  L = s_sent[c]
        BY <1>4
    <2>1. d = <<>> /\ rest = <<>>
        <3>1. d \o rest = <<>>
            BY <1>3
        <3> QED BY <3>1, ConcatEqualIffEmpty
    <2>2. P \o rest = P
        BY <2>1, ConcatEmptySeq
    <2> QED BY <2>1, <2>2, <1>3, <1>12, <1>13, <1>14
<1>17. EchoOrder'
    <2>1. /\ s_dropped'[c] = <<>> => Kept(c)' = s_sent'[c]
          /\ \A k, l \in 1..Len(Kept(c)') : k < l => Kept(c)'[k].nr < Kept(c)'[l].nr
          /\ \A k \in 1..Len(Kept(c)') : Kept(c)'[k].nr <= Len(s_sent'[c])
        BY <1>11, <1>12, <1>15, <1>16
    <2> QED BY <2>1, <1>4, <1>10, SameOrder DEF EchoOrder
<1> QED BY <1>6, <1>7, <1>8, <1>17

\* The echo of a line, whether Rio_writen succeeds or ends the process.
LEMMA EchoLine ==
    ASSUME EchoInv, s_at = "line", NEW line \in Seq(EchoByte), NEW rest \in Seq(EchoByte),
           Echo!Echo(line, rest),
           Kept(Echo!Client) = ((s_echoed[Echo!Client] \o line) \o rest) \o s_sock[Echo!Client],
           UNCHANGED <<s_clientfd, s_maxi, s_read, s_ready, s_nready, s_peer, s_sock, s_sent>>
    PROVE  EchoInv'
<1>1. CASE s_at' = "dead" /\ UNCHANGED <<s_i, s_rio, s_buf, s_echoed, s_dropped>>
    BY <1>1, EchoDies
<1>2. CASE /\ s_echoed' = [s_echoed EXCEPT ![Echo!Client] = @ \o line]
           /\ s_dropped' = [s_dropped EXCEPT ![Echo!Client] = @ \o rest]
           /\ s_at' = "check" /\ s_i' = s_i + 1 /\ s_rio' = <<>> /\ s_buf' = <<>>
    BY <1>2, EchoWritten
<1> QED BY <1>1, <1>2 DEF Echo!Echo

\* Concatenation is associative, with its quantifiers written out.
LEMMA Associative == \A a, b, c \in Seq(EchoByte) : (a \o b) \o c = a \o (b \o c)
BY ConcatAssociative

\* Bytes that only move from the socket to the buffer or from the buffer to the line.
LEMMA EchoMove ==
    ASSUME EchoInv, s_at = "line", NEW b \in Seq(EchoByte), NEW r \in Seq(EchoByte), NEW z \in Seq(EchoByte),
           s_buf' = b, s_rio' = r, s_sock' = [s_sock EXCEPT ![Echo!Client] = z],
           (b \o r) \o z = (s_buf \o s_rio) \o s_sock[Echo!Client],
           UNCHANGED <<s_clientfd, s_maxi, s_read, s_ready, s_nready, s_at, s_i, s_peer, s_sent, s_echoed, s_dropped>>
    PROVE  EchoInv'
<1> USE DEF EchoInv
<1>1. PICK c \in EchoConn : c = Echo!Client
    BY OneInHand
<1>2. /\ s_sock' \in [EchoConn -> Seq(EchoByte)] /\ s_sock'[c] = z
      /\ \A d \in EchoConn : d # c => s_sock'[d] = s_sock[d]
    BY <1>1 DEF EchoType
<1>3. EchoType'
    BY <1>2 DEF EchoType
<1>4. EchoPool'
    BY DEF EchoPool
<1>5. EchoWalk'
    <2>1. Echo!Ahead(s_i)' = Echo!Ahead(s_i) /\ Echo!Ahead(s_i + 1)' = Echo!Ahead(s_i + 1)
        BY DEF Echo!Ahead
    <2> QED BY <2>1 DEF EchoWalk
<1>6. Echo!InHand(c)' = b \o r /\ \A d : d # c => Echo!InHand(d)' = <<>>
    <2>1. s_i \in Echo!Slot /\ Echo!Slot' = Echo!Slot /\ Echo!Client' = c
        BY <1>1, OneInHand DEF Echo!Client, Echo!Slot
    <2> QED BY <2>1 DEF Echo!InHand
<1>7. ASSUME NEW d \in EchoConn
      PROVE  Kept(d)' = Kept(d)
    <2>1. CASE d = c
        <3>1. PICK e \in Seq(EchoByte), s \in Seq(EchoByte) : e = s_echoed[c] /\ s = s_sock[c]
            BY KeptBytes
        <3>2. PICK o \in Seq(EchoByte), h \in Seq(EchoByte) : o = s_buf \o s_rio /\ h = b \o r
            BY OneInHand, ConcatProperties
        <3>3. Kept(c) = (e \o o) \o s /\ Kept(c)' = (e \o h) \o z
            BY <1>1, <1>2, <1>6, <3>1, <3>2, OneInHand DEF Kept
        <3>4. h \o z = o \o s
            BY <1>1, <3>1, <3>2
        <3>5. (e \o o) \o s = (e \o h) \o z
            <4>1. (e \o o) \o s = e \o (o \o s)
                BY Associative, Zenon
            <4>2. (e \o h) \o z = e \o (h \o z)
                BY Associative, Zenon
            <4> QED BY <3>4, <4>1, <4>2, Zenon
        <3> QED BY <2>1, <3>3, <3>5
    <2>2. CASE d # c
        <3>1. Echo!InHand(d) = <<>>
            BY <2>2, <1>1, OneInHand
        <3> QED BY <2>2, <3>1, <1>2, <1>6 DEF Kept
    <2> QED BY <2>1, <2>2
<1>8. EchoOrder'
    BY <1>7, SameOrder DEF EchoOrder
<1> QED BY <1>3, <1>4, <1>5, <1>8

\* The buffer is refilled from the socket.
LEMMA EchoRefillStep ==
    ASSUME EchoInv, Echo!Refill
    PROVE  EchoInv'
<1>1. PICK c \in EchoConn : c = Echo!Client
    BY OneInHand DEF Echo!Refill
<1>2. PICK s \in Seq(EchoByte), n \in Nat : s = s_sock[c] /\ n = Len(s)
    BY KeptBytes DEF EchoInv
<1>3. PICK k \in Nat : k <= n /\ s_rio' = SubSeq(s, 1, k)
                       /\ s_sock' = [s_sock EXCEPT ![c] = SubSeq(s, k + 1, n)]
    <2>1. EchoBuf \in Nat
        BY StreamAssumption
    <2>2. PICK k : /\ k = IF n < EchoBuf THEN n ELSE EchoBuf
                   /\ s_rio' = SubSeq(s, 1, k)
                   /\ s_sock' = [s_sock EXCEPT ![c] = SubSeq(s, k + 1, n)]
        BY <1>1, <1>2 DEF Echo!Refill
    <2>3. k \in Nat /\ k <= n
        BY <2>1, <2>2
    <2> QED BY <2>2, <2>3
<1>4. PICK r \in Seq(EchoByte), z \in Seq(EchoByte) :
        r = SubSeq(s, 1, k) /\ z = SubSeq(s, k + 1, n) /\ r \o z = s
    <2>1. 1 \in 1..(Len(s) + 1) /\ k \in (1 - 1)..Len(s) /\ n \in k..Len(s)
        BY <1>2, <1>3
    <2>2. SubSeq(s, 1, k) \o SubSeq(s, k + 1, n) = SubSeq(s, 1, n)
        BY <2>1, ConcatAdjacentSubSeq
    <2>3. SubSeq(s, 1, n) = s
        BY <1>2, SubSeqFull
    <2>4. \A j \in 1..n : s[j] \in EchoByte
        BY <1>2, ElementOfSeq
    <2>5. (\A j \in 1..k : s[j] \in EchoByte) /\ (\A j \in (k + 1)..n : s[j] \in EchoByte)
        <3>1. (\A j \in 1..k : j \in 1..n) /\ (\A j \in (k + 1)..n : j \in 1..n)
            BY <1>3
        <3> QED BY <2>4, <3>1
    <2>6. SubSeq(s, 1, k) \in Seq(EchoByte) /\ SubSeq(s, k + 1, n) \in Seq(EchoByte)
        BY <2>5, SubSeqProperties
    <2> QED BY <2>2, <2>3, <2>6
<1>5. /\ s_at = "line" /\ s_rio = <<>> /\ s_buf' = s_buf
      /\ UNCHANGED <<s_clientfd, s_maxi, s_read, s_ready, s_nready, s_at, s_i, s_peer, s_sent, s_echoed, s_dropped>>
    BY DEF Echo!Refill, Echo!pool
<1>6. PICK b \in Seq(EchoByte) : b = s_buf
    BY <1>5, OneInHand
<1>7. (b \o r) \o z = (b \o <<>>) \o s
    <2>1. (b \o r) \o z = b \o (r \o z) /\ b \o <<>> = b
        BY ConcatAssociative, ConcatEmptySeq
    <2> QED BY <2>1, <1>4
<1> QED BY <1>1, <1>2, <1>3, <1>4, <1>5, <1>6, <1>7, EchoMove

\* rio_readlineb takes a byte, which may end the line.
LEMMA EchoReadStep ==
    ASSUME EchoInv, Echo!rio_readlineb
    PROVE  EchoInv'
<1>1. /\ s_at = "line" /\ s_rio # <<>>
      /\ UNCHANGED <<s_clientfd, s_maxi, s_read, s_ready, s_nready, s_peer, s_sock, s_sent>>
    BY DEF Echo!rio_readlineb, Echo!pool
<1>2. PICK c \in EchoConn : c = Echo!Client
    BY <1>1, OneInHand
<1>3. PICK b \in Seq(EchoByte), r \in Seq(EchoByte) : b = s_buf /\ r = s_rio
    BY <1>1, OneInHand
<1>4. PICK h \in EchoByte, t \in Seq(EchoByte), a \in Seq(EchoByte) :
        h = Head(r) /\ t = Tail(r) /\ a = Append(b, h)
    BY <1>1, <1>3, HeadTailProperties, AppendProperties
<1>5. a \o t = b \o r
    <2>1. <<h>> \in Seq(EchoByte) /\ a = b \o <<h>>
        BY <1>4, AppendIsConcat
    <2>2. r = <<h>> \o t
        <3>1. 1 \in 1..Len(r) /\ Len(r) \in 1..Len(r) /\ 1 + 1 = 2
            BY <1>1, <1>3
        <3>2. SubSeq(r, 1, Len(r)) = <<r[1]>> \o SubSeq(r, 1 + 1, Len(r))
            BY <3>1, SubSeqRecursiveFirst
        <3>3. SubSeq(r, 1, Len(r)) = r /\ Tail(r) = SubSeq(r, 2, Len(r)) /\ Head(r) = r[1]
            BY <1>1, <1>3, SubSeqFull, TailIsSubSeq
        <3> QED BY <3>1, <3>2, <3>3, <1>4
    <2>3. (b \o <<h>>) \o t = b \o (<<h>> \o t)
        BY <2>1, ConcatAssociative
    <2> QED BY <2>1, <2>2, <2>3
<1>6. PICK e \in Seq(EchoByte), z \in Seq(EchoByte) : e = s_echoed[c] /\ z = s_sock[c]
    BY KeptBytes DEF EchoInv
<1>7. CASE h.newline
    <2>1. Echo!Echo(a, t)
        BY <1>3, <1>4, <1>7 DEF Echo!rio_readlineb
    <2>2. Kept(c) = (e \o (b \o r)) \o z
        BY <1>1, <1>2, <1>3, <1>6, OneInHand DEF Kept
    <2>3. (e \o a) \o t = e \o (a \o t)
        BY ConcatAssociative
    <2>4. Kept(c) = ((e \o a) \o t) \o z
        BY <2>2, <2>3, <1>5
    <2> QED BY <2>1, <2>4, <1>1, <1>2, <1>6, EchoLine
<1>8. CASE ~h.newline
    <2>1. /\ s_buf' = a /\ s_rio' = t /\ UNCHANGED <<s_at, s_i, s_echoed, s_dropped>>
        BY <1>3, <1>4, <1>8 DEF Echo!rio_readlineb
    <2>2. s_sock' = [s_sock EXCEPT ![c] = z]
        BY <1>1, <1>6 DEF EchoInv, EchoType
    <2>3. (a \o t) \o z = (s_buf \o s_rio) \o s_sock[c]
        BY <1>3, <1>5, <1>6
    <2> QED BY <2>1, <2>2, <2>3, <1>1, <1>2, EchoMove
<1> QED BY <1>7, <1>8

\* The end of the file ends the line, or takes the client out of the pool.
LEMMA EchoEndStep ==
    ASSUME EchoInv, Echo!EndOfFile
    PROVE  EchoInv'
<1>1. /\ s_at = "line" /\ s_rio = <<>>
      /\ UNCHANGED <<s_maxi, s_ready, s_nready, s_sock, s_sent>>
    BY DEF Echo!EndOfFile
<1>2. PICK c \in EchoConn : c = Echo!Client /\ c = s_clientfd[s_i] /\ s_i \in Echo!Slot
    BY <1>1, OneInHand DEF Echo!Client
<1>3. PICK b \in Seq(EchoByte) : b = s_buf
    BY <1>1, OneInHand
<1>4. CASE b # <<>>
    <2>1. Echo!Echo(b, <<>>) /\ UNCHANGED <<s_clientfd, s_read, s_peer>>
        BY <1>3, <1>4 DEF Echo!EndOfFile
    <2>2. PICK e \in Seq(EchoByte), z \in Seq(EchoByte) : e = s_echoed[c] /\ z = s_sock[c]
        BY KeptBytes DEF EchoInv
    <2>3. Kept(c) = (e \o (b \o <<>>)) \o z
        BY <1>1, <1>2, <1>3, <2>2, OneInHand DEF Kept
    <2>4. <<>> \in Seq(EchoByte) /\ b \o <<>> = b /\ (e \o b) \in Seq(EchoByte) /\ (e \o b) \o <<>> = e \o b
        BY ConcatEmptySeq, ConcatProperties
    <2>5. Kept(c) = ((e \o b) \o <<>>) \o z
        BY <2>3, <2>4
    <2> QED BY <2>1, <2>2, <2>4, <2>5, <1>1, <1>2, EchoLine
<1>5. CASE b = <<>>
    <2> USE DEF EchoInv
    <2>1. /\ s_clientfd' = [s_clientfd EXCEPT ![s_i] = "-1"] /\ s_read' = s_read \ {c}
          /\ s_peer' = [s_peer EXCEPT ![c] = "closed"]
          /\ s_at' = "check" /\ s_i' = s_i + 1 /\ UNCHANGED <<s_rio, s_buf, s_echoed, s_dropped>>
        BY <1>2, <1>3, <1>5 DEF Echo!EndOfFile, Echo!Free
    <2>2. PICK n \in Nat : n = s_i /\ n \in Echo!Slot
        BY <1>2 DEF EchoType
    <2>3. /\ s_clientfd' \in [Echo!Slot -> EchoConn \cup {"-1"}] /\ s_clientfd'[n] = "-1"
          /\ \A k \in Echo!Slot : k # n => s_clientfd'[k] = s_clientfd[k]
        BY <2>1, <2>2 DEF EchoType
    <2>4. EchoType'
        BY <1>1, <2>1, <2>2, <2>3 DEF EchoType
    <2>5. \A k \in Echo!Slot : s_clientfd[k] = c => k = n
        BY <1>2, <2>2, StreamAssumption DEF EchoPool
    <2>6. EchoPool'
        <3>1. s_read' = {s_clientfd'[k] : k \in Echo!Slot} \ {"-1"}
            BY <1>2, <2>1, <2>2, <2>3, <2>5 DEF EchoPool
        <3>2. ASSUME NEW k \in Echo!Slot, s_clientfd'[k] # "-1"
              PROVE  /\ k <= s_maxi /\ s_peer'[s_clientfd'[k]] \in {"open", "gone", "reset"}
                     /\ \A l \in Echo!Slot : s_clientfd'[l] = s_clientfd'[k] => l = k
            <4>1. k # n /\ s_clientfd'[k] = s_clientfd[k] /\ s_clientfd[k] # c
                BY <3>2, <2>3, <2>5
            <4>2. /\ k <= s_maxi /\ s_peer[s_clientfd[k]] \in {"open", "gone", "reset"}
                  /\ \A l \in Echo!Slot : s_clientfd[l] = s_clientfd[k] => l = k
                BY <3>2, <4>1 DEF EchoPool
            <4>3. s_peer'[s_clientfd[k]] = s_peer[s_clientfd[k]]
                BY <3>2, <4>1, <2>1 DEF EchoType
            <4> QED BY <3>2, <4>1, <4>2, <4>3, <2>3
        <3> QED BY <3>1, <3>2, <1>1 DEF EchoPool
    <2>7. Echo!Ahead(s_i)' = Echo!Ahead(s_i + 1)
        <3>1. /\ Echo!Ahead(s_i)' = {k \in (n + 1)..s_maxi : s_clientfd'[k] # "-1" /\ s_clientfd'[k] \in s_ready}
              /\ Echo!Ahead(s_i + 1) = {k \in (n + 1)..s_maxi : s_clientfd[k] # "-1" /\ s_clientfd[k] \in s_ready}
            BY <1>1, <2>1, <2>2 DEF Echo!Ahead, Echo!Free
        <3>2. \A k \in (n + 1)..s_maxi : k \in Echo!Slot /\ k # n
            <4>1. s_maxi \in -1..(EchoSlots - 1) /\ EchoSlots \in Nat
                BY StreamAssumption DEF EchoType
            <4> QED BY <4>1 DEF Echo!Slot
        <3> QED BY <3>1, <3>2, <2>3
    <2>8. EchoWalk'
        BY <2>7, <1>1, <1>3, <1>5, <2>1 DEF EchoWalk
    <2>9. ASSUME NEW d \in EchoConn
          PROVE  Kept(d)' = Kept(d)
        <3>1. Echo!InHand(d) = <<>>
            BY <1>1, <1>3, <1>5, EmptyHand
        <3>2. Echo!InHand(d)' = <<>>
            BY <2>1, EmptyHandNext
        <3> QED BY <3>1, <3>2, <1>1, <2>1 DEF Kept
    <2>10. EchoOrder'
        BY <2>9, <1>1, <2>1, SameOrder DEF EchoOrder
    <2> QED BY <2>4, <2>6, <2>8, <2>10
<1> QED BY <1>4, <1>5

\* An error ends the process where it is.
LEMMA EchoErrorStep ==
    ASSUME EchoInv, Echo!unix_error
    PROVE  EchoInv'
BY EchoDies DEF Echo!unix_error, Echo!pool

\* Every step of the echo server keeps its invariant.
LEMMA EchoStep ==
    ASSUME EchoInv, Echo!Next
    PROVE  EchoInv'
BY EchoPeerStep, EchoSelectStep, EchoCheckStep, EchoRefillStep, EchoReadStep, EchoEndStep, EchoErrorStep
   DEF Echo!Next

\* The invariant gives what the runs check of the echo server.
LEMMA EchoPromise ==
    ASSUME EchoInv
    PROVE  Echo!Correct
<1> USE DEF EchoInv
<1>1. s_at \in {"check", "line"} =>
        s_nready = Echo!Cardinality(Echo!Ahead(IF s_at = "line" THEN s_i + 1 ELSE s_i))
    <2>1. s_at = "check" => s_nready = Echo!Cardinality(Echo!Ahead(s_i))
        BY EchoCard DEF EchoWalk
    <2>2. s_at = "line" => s_nready = Echo!Cardinality(Echo!Ahead(s_i + 1))
        BY EchoCard DEF EchoWalk
    <2> QED BY <2>1, <2>2
<1>2. /\ s_read = {s_clientfd[k] : k \in Echo!Slot} \ {Echo!Free}
      /\ \A k \in Echo!Slot : s_clientfd[k] # Echo!Free => k <= s_maxi
    BY DEF EchoPool, Echo!Free
<1>3. ASSUME NEW c \in EchoConn
      PROVE  /\ s_dropped[c] = <<>> => (s_echoed[c] \o Echo!InHand(c)) \o s_sock[c] = s_sent[c]
             /\ \A k, l \in 1..Len(s_echoed[c]) : k < l => s_echoed[c][k].nr < s_echoed[c][l].nr
    <2>1. PICK e \in Seq(EchoByte), h \in Seq(EchoByte), z \in Seq(EchoByte), K \in Seq(EchoByte) :
            e = s_echoed[c] /\ h = Echo!InHand(c) /\ z = s_sock[c] /\ K = Kept(c)
        BY KeptBytes
    <2>2. /\ K = (e \o h) \o z /\ (s_dropped[c] = <<>> => K = s_sent[c])
          /\ \A k, l \in 1..Len(K) : k < l => K[k].nr < K[l].nr
        BY <2>1 DEF EchoOrder, Kept
    <2>3. \A k \in 1..Len(e) : k \in 1..Len(K) /\ K[k] = e[k]
        <3>1. /\ e \o h \in Seq(EchoByte) /\ Len(e \o h) = Len(e) + Len(h)
              /\ \A k \in 1..(Len(e) + Len(h)) : (e \o h)[k] = IF k <= Len(e) THEN e[k] ELSE h[k - Len(e)]
            BY ConcatProperties
        <3>2. /\ Len(K) = Len(e \o h) + Len(z)
              /\ \A k \in 1..(Len(e \o h) + Len(z)) :
                   K[k] = IF k <= Len(e \o h) THEN (e \o h)[k] ELSE z[k - Len(e \o h)]
            BY <2>2, <3>1, ConcatProperties
        <3>3. PICK x \in Nat, y \in Nat, w \in Nat : x = Len(e) /\ y = Len(h) /\ w = Len(z)
            OBVIOUS
        <3>4. \A k \in 1..x : k \in 1..(x + y) /\ k \in 1..((x + y) + w) /\ k <= x /\ k <= x + y
            OBVIOUS
        <3> QED BY <3>1, <3>2, <3>3, <3>4
    <2>4. \A k, l \in 1..Len(e) : k < l => e[k].nr < e[l].nr
        BY <2>2, <2>3
    <2> QED BY <2>1, <2>2, <2>4
<1> QED BY <1>1, <1>2, <1>3 DEF Echo!Correct

\* The session with a send queue and the echo server on select: for any sizes, slots, peers and
\* numbers of bytes, what is accepted is sent whole, once and in order with one write
\* outstanding until a handler strays, and bytes come back in order, none missing but those
\* read past the end of a line, with no ready client skipped.
THEOREM StreamsHold == Spec => []StreamsCorrect
<1>1. Init => SendInv /\ EchoInv
    BY SendInit, EchoInit DEF Init
<1>2. SendInv /\ EchoInv /\ [Next]_vars => SendInv' /\ EchoInv'
    <2> SUFFICES ASSUME SendInv, EchoInv, [Next]_vars
                 PROVE  SendInv' /\ EchoInv'
        OBVIOUS
    <2>1. ASSUME UNCHANGED send
          PROVE  SendInv'
        <3>1. UNCHANGED <<w_queue, w_ops, w_send, w_wire, w_accepted, w_ids, w_ends, w_failed, w_strayed, w_undef>>
            BY <2>1 DEF send
        <3>2. \A j : Send!Cut(j)' = Send!Cut(j)
            BY <3>1 DEF Send!Cut
        <3>3. Send!Writes' = Send!Writes /\ Send!Rest(w_queue[1])' = Send!Rest(w_queue[1])
            BY <3>1 DEF Send!Writes, Send!Rest, Send!Bytes
        <3>4. \A j : NodeAt(j) => NodeAt(j)'
            BY <3>1, <3>2 DEF NodeAt
        <3>5. SendNodes => SendNodes'
            BY <3>1, <3>2, <3>4 DEF SendNodes
        <3>6. (SendOps => SendOps') /\ (SendWire => SendWire') /\ (SendWrites => SendWrites')
            BY <3>1, <3>3 DEF SendOps, SendWire, SendWrites
        <3> QED BY <3>1, <3>5, <3>6 DEF SendInv
    <2>2. ASSUME UNCHANGED echo
          PROVE  EchoInv'
        <3>1. UNCHANGED <<s_clientfd, s_maxi, s_read, s_ready, s_nready, s_at, s_i, s_rio, s_buf, s_peer,
                          s_sock, s_sent, s_echoed, s_dropped>>
            BY <2>2 DEF echo
        <3>2. \A c : Kept(c)' = Kept(c)
            <4>1. \A c : Echo!InHand(c)' = Echo!InHand(c)
                BY <3>1 DEF Echo!InHand, Echo!Client, Echo!Slot
            <4> QED BY <3>1, <4>1 DEF Kept
        <3>3. EchoOrder'
            BY <3>1, <3>2, SameOrder DEF EchoOrder, EchoInv
        <3>4. Echo!Ahead(s_i)' = Echo!Ahead(s_i) /\ Echo!Ahead(s_i + 1)' = Echo!Ahead(s_i + 1)
            BY <3>1 DEF Echo!Ahead
        <3>5. EchoWalk'
            BY <3>1, <3>4 DEF EchoInv, EchoWalk
        <3>6. EchoType' /\ EchoPool'
            BY <3>1 DEF EchoInv, EchoType, EchoPool
        <3> QED BY <3>3, <3>5, <3>6 DEF EchoInv
    <2>3. CASE Send!Next /\ UNCHANGED echo
        BY <2>2, <2>3, SendStep
    <2>4. CASE Echo!Next /\ UNCHANGED send
        BY <2>1, <2>4, EchoStep
    <2>5. CASE UNCHANGED send /\ UNCHANGED echo
        BY <2>1, <2>2, <2>5
    <2> QED BY <2>3, <2>4, <2>5 DEF Next, vars
<1>3. SendInv /\ EchoInv => StreamsCorrect
    BY SendPromise, EchoPromise DEF StreamsCorrect
<1> QED BY <1>1, <1>2, <1>3, PTL DEF Spec
=============================================================================
