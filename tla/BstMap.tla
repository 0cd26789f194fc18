------------------------------- MODULE BstMap -------------------------------
(***************************************************************************)
(* sen_std::bst_map::map, an unbalanced search tree whose nodes have       *)
(* parent pointers: insert, operator[], find, erase, clear and the         *)
(* iterator's walk.  node is the heap: the addresses in its domain are the *)
(* nodes that are allocated.                                               *)
(***************************************************************************)
EXTENDS Integers, FiniteSets, Functions

CONSTANTS
    Key,        \* a finite set of integers
    Val         \* the values; 0 among them is V()

VARIABLES
    root,       \* _root
    node,       \* the allocated tree_nodes
    abs         \* history: the map that the calls made so far describe

vars == <<root, node, abs>>

Null == 0
Addr == 1..Cardinality(Key)
Absent == -1
tree_node(k, v, p) == [key |-> k, val |-> v, left |-> Null, right |-> Null, parent |-> p]

Init ==
    /\ root = Null
    /\ node = <<>>
    /\ abs = [k \in Key |-> Absent]

-----------------------------------------------------------------------------
(* The walks over the tree. *)

\* The last node of insert's and find's descent for k: k's node, or the one it would hang from.
Descent(k) ==
    LET toward(n) == IF k < node[n].key THEN node[n].left ELSE node[n].right
        last[n \in DOMAIN node] ==
            IF node[n].key = k \/ toward(n) = Null THEN n ELSE last[toward(n)]
    IN  last[root]

find(k) == IF root # Null /\ node[Descent(k)].key = k THEN Descent(k) ELSE Null

minium(top) ==
    LET min[n \in DOMAIN node] == IF node[n].left = Null THEN n ELSE min[node[n].left]
    IN  IF top = Null THEN Null ELSE min[top]

\* Mutant: the way up stops at the parent.
successor_parent(n) ==
    IF node[n].right # Null THEN minium(node[n].right) ELSE node[n].parent

successor(n) ==
    LET up[m \in DOMAIN node] ==
            LET p == node[m].parent
            IN  IF p # Null /\ m = node[p].right THEN up[p] ELSE p
    IN  IF node[n].right # Null THEN minium(node[n].right) ELSE up[n]

\* The node the iterator is at after i - 1 steps of ++ from begin().
begin_plus ==
    [i \in 1..(Cardinality(DOMAIN node) + 1) |->
        LET at[j \in 1..i] ==
                IF j = 1 THEN minium(root)
                ELSE IF at[j - 1] = Null THEN Null ELSE successor(at[j - 1])
        IN  at[i]]

-----------------------------------------------------------------------------
(* The operations. *)

\* The heap with the new tree_node n below p, on the side of its key.
Attach(n, k, v, p) ==
    LET side == IF k < node[p].key THEN "left" ELSE "right"
    IN  [a \in DOMAIN node \cup {n} |->
            IF a = n THEN tree_node(k, v, p)
            ELSE IF a = p THEN [node[p] EXCEPT ![side] = n] ELSE node[a]]

insert(k, v) ==
    LET new == CHOOSE a \in Addr : a \notin DOMAIN node
        at  == Descent(k)
    IN  /\ abs' = [abs EXCEPT ![k] = v]
        /\ IF root = Null
           THEN root' = new /\ node' = [a \in {new} |-> tree_node(k, v, Null)]
           ELSE /\ UNCHANGED root
                /\ node' = IF node[at].key = k THEN [node EXCEPT ![at].val = v]
                           ELSE Attach(new, k, v, at)

\* operator[] of a key that is not there inserts V().
operator_index(k) == find(k) = Null /\ insert(k, 0)

\* A node with two children takes the data of its successor, which is unlinked in its place.
erase(k) ==
    /\ find(k) # Null
    /\ LET target == find(k)
           n == IF node[target].left # Null /\ node[target].right # Null
                THEN successor(target) ELSE target
           p == node[n].parent
           child == IF node[n].left # Null THEN node[n].left ELSE node[n].right
           side == IF p # Null /\ n = node[p].left THEN "left" ELSE "right"
           moved == [node EXCEPT ![target].key = node[n].key, ![target].val = node[n].val]
           linked == IF p = Null THEN moved ELSE [moved EXCEPT ![p][side] = child]
           lifted == IF child = Null THEN linked ELSE [linked EXCEPT ![child].parent = p]
       IN  /\ root' = IF p = Null THEN child ELSE root
           /\ node' = Restrict(lifted, DOMAIN node \ {n})
           /\ abs' = [abs EXCEPT ![k] = Absent]

clear ==
    /\ root' = Null
    /\ node' = <<>>
    /\ abs' = [k \in Key |-> Absent]

Next ==
    \/ \E k \in Key, v \in Val : insert(k, v)
    \/ \E k \in Key : operator_index(k) \/ erase(k)
    \/ clear

-----------------------------------------------------------------------------
Present == {k \in Key : abs[k] # Absent}

\* After any sequence of calls, find returns what a map would; ++ from begin()
\* visits every key once, in ascending order, and then is end(); and every
\* allocated node holds a key of the map (insert, erase, successor).
Correct ==
    /\ \A k \in Key : find(k) = Null <=> abs[k] = Absent
    /\ \A k \in Present : node[find(k)].val = abs[k]
    /\ Cardinality(DOMAIN node) = Cardinality(Present)
    /\ \A k \in Present :
           LET rank == Cardinality({j \in Present : j <= k})
           IN  begin_plus[rank] = find(k)
    /\ begin_plus[Cardinality(Present) + 1] = Null
=============================================================================
