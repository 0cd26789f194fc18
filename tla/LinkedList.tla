----------------------------- MODULE LinkedList -----------------------------
(***************************************************************************)
(* sen_stl::list: a doubly linked list between a head and a tail sentinel. *)
(* node is the heap: its domain is the sentinels and the allocated nodes.  *)
(***************************************************************************)
EXTENDS Naturals, SequencesExt

CONSTANTS
    Val,        \* the elements
    MaxLen      \* bound on the length

VARIABLES
    node,       \* the nodes, with _next, _prev and _data
    abs         \* history: the sequence that the calls describe

vars == <<node, abs>>

Head0 == 0              \* _head
Tail0 == MaxLen + 1     \* _tail
Null == MaxLen + 2      \* nullptr
NoData == 0             \* T(), the sentinels' data

Linked(n, p, d) == [next |-> n, prev |-> p, data |-> d]
Sentinels == [a \in {Head0, Tail0} |->
    IF a = Head0 THEN Linked(Tail0, Null, NoData) ELSE Linked(Null, Head0, NoData)]

Init == node = Sentinels /\ abs = <<>>

\* The i-th node of a heap from its front, and where it stands in abs.
At(h) == LET at[i \in 0..MaxLen + 1] == IF i = 0 THEN Head0 ELSE h[at[i - 1]].next IN at
index(pos) == CHOOSE i \in 1..(Len(abs) + 1) : At(node)[i] = pos

insert(pos, v) ==
    /\ Len(abs) < MaxLen
    /\ LET new == CHOOSE a \in 1..MaxLen : a \notin DOMAIN node
           before == node[pos].prev
       IN  node' = [a \in DOMAIN node \cup {new} |->
                        IF a = new THEN Linked(pos, before, v)
                        ELSE IF a = before THEN [node[a] EXCEPT !.next = new]
                        ELSE IF a = pos THEN [node[a] EXCEPT !.prev = new] ELSE node[a]]
    /\ abs' = InsertAt(abs, index(pos), v)

\* Mutant: only the forward link is cut.
Unlink_forward(h, n) ==
    Restrict([h EXCEPT ![h[n].prev].next = h[n].next], DOMAIN h \ {n})

\* The heap h without the node n: the body of erase.
Unlink(h, n) ==
    LET m == [h EXCEPT ![h[n].prev].next = h[n].next, ![h[n].next].prev = h[n].prev]
    IN  Restrict(m, DOMAIN h \ {n})

erase(pos) ==
    /\ pos \notin {Head0, Tail0}
    /\ node' = Unlink(node, pos)
    /\ abs' = RemoveAt(abs, index(pos))

push_front(v) == insert(node[Head0].next, v)
push_back(v) == insert(Tail0, v)
empty == node[Head0].next = Tail0
pop_front == ~empty /\ erase(node[Head0].next)
pop_back == ~empty /\ erase(node[Tail0].prev)

clear == node' = Sentinels /\ abs' = <<>>

\* remove erases, front to back, the nodes that hold v.
remove(v) ==
    /\ node' = FoldLeft(LAMBDA h, n : IF h[n].data = v THEN Unlink(h, n) ELSE h, node,
                        [i \in 1..Len(abs) |-> At(node)[i]])
    /\ abs' = SelectSeq(abs, LAMBDA d : d # v)

Next ==
    \/ \E v \in Val : push_front(v) \/ push_back(v) \/ remove(v)
    \/ \E pos \in DOMAIN node \ {Head0}, v \in Val : insert(pos, v)
    \/ \E pos \in DOMAIN node : erase(pos)
    \/ pop_front
    \/ pop_back
    \/ clear

-----------------------------------------------------------------------------
\* Walking forward from begin() and backward from end() shows the sequence that
\* the calls describe, and every allocated node is on the way (insert, erase
\* and remove keep both links of every node).
Correct ==
    /\ Cardinality(DOMAIN node) = Len(abs) + 2
    /\ At(node)[Len(abs) + 1] = Tail0
    /\ \A i \in 1..Len(abs) : node[At(node)[i]].data = abs[i]
    /\ \A i \in 1..(Len(abs) + 1) : node[At(node)[i]].prev = At(node)[i - 1]
=============================================================================
