------------------------------- MODULE AvlMap -------------------------------
(***************************************************************************)
(* sen_std::avl_map::map: put, get, remove and inorder_traversal over a    *)
(* tree that is rebalanced by rotations.  A subtree is a value, since      *)
(* every operation of the code returns the subtree's new root and no node  *)
(* has two owners.                                                         *)
(***************************************************************************)
EXTENDS Integers, Sequences, FiniteSetsExt

CONSTANTS
    Key,        \* a finite set of integers
    Val         \* the values; 0 is none of them

VARIABLES
    root,       \* _root
    abs,        \* history: the map that the calls made so far describe; 0 for no value
    removed     \* history: a key that was present has been removed

vars == <<root, abs, removed>>

Null == [height |-> 0]      \* nullptr, whose get_height is 0
new(k, v) == [key |-> k, value |-> v, height |-> 1, left |-> Null, right |-> Null]

Init == root = Null /\ abs = [k \in Key |-> 0] /\ removed = FALSE

get_balance(t) == IF t = Null THEN 0 ELSE t.left.height - t.right.height
update(t) == [t EXCEPT !.height = 1 + Max({t.left.height, t.right.height})]

right_rotate(y) ==
    update([y.left EXCEPT !.right = update([y EXCEPT !.left = y.left.right])])

\* Mutant: the lower node keeps its old height.
left_rotate_stale(y) == update([y.right EXCEPT !.left = [y EXCEPT !.right = y.right.left]])

left_rotate(y) ==
    update([y.right EXCEPT !.left = update([y EXCEPT !.right = y.right.left])])

\* The four cases of insert's rebalancing after k was added below t.
insert_balance(t, k) ==
    LET b == get_balance(t)
    IN  CASE b > 1 /\ k < t.left.key -> right_rotate(t)
          [] b < -1 /\ k > t.right.key -> left_rotate(t)
          [] b > 1 /\ k > t.left.key -> right_rotate([t EXCEPT !.left = left_rotate(t.left)])
          [] b < -1 /\ k < t.right.key -> left_rotate([t EXCEPT !.right = right_rotate(t.right)])
          [] OTHER -> t

RECURSIVE insert(_, _, _)
insert(t, k, v) ==
    IF t = Null THEN new(k, v)
    ELSE IF k = t.key THEN [t EXCEPT !.value = v]
    ELSE insert_balance(update(IF k < t.key THEN [t EXCEPT !.left = insert(t.left, k, v)]
                               ELSE [t EXCEPT !.right = insert(t.right, k, v)]), k)

\* The four cases of erase's rebalancing; a right child in balance is rotated too.
erase_balance(t) ==
    LET b == get_balance(t)
    IN  CASE b > 1 /\ get_balance(t.left) >= 0 -> right_rotate(t)
          [] b > 1 /\ get_balance(t.left) < 0 ->
                right_rotate([t EXCEPT !.left = left_rotate(t.left)])
          [] b < -1 /\ get_balance(t.right) < 0 -> left_rotate(t)
          [] b < -1 /\ get_balance(t.right) >= 0 ->
                left_rotate([t EXCEPT !.right = right_rotate(t.right)])
          [] OTHER -> t

RECURSIVE get_min(_)
get_min(t) == IF t.left = Null THEN t ELSE get_min(t.left)

RECURSIVE erase(_, _)
erase(t, k) ==
    IF t = Null \/ (k = t.key /\ t.left = Null /\ t.right = Null) THEN Null
    ELSE erase_balance(update(
        IF k < t.key THEN [t EXCEPT !.left = erase(t.left, k)]
        ELSE IF k > t.key THEN [t EXCEPT !.right = erase(t.right, k)]
        ELSE IF t.left = Null THEN t.right
        ELSE IF t.right = Null THEN t.left
        ELSE LET succ == get_min(t.right)
             IN  [t EXCEPT !.key = succ.key, !.value = succ.value,
                           !.right = erase(t.right, succ.key)]))

RECURSIVE find(_, _)
find(t, k) ==
    IF t = Null THEN 0
    ELSE IF k = t.key THEN t.value ELSE find(IF k < t.key THEN t.left ELSE t.right, k)

RECURSIVE inorder_helper(_)
inorder_helper(t) ==
    IF t = Null THEN <<>>
    ELSE inorder_helper(t.left) \o <<<<t.key, t.value>>>> \o inorder_helper(t.right)

put(k, v) ==
    /\ root' = insert(root, k, v)
    /\ abs' = [abs EXCEPT ![k] = v]
    /\ UNCHANGED removed

remove(k) ==
    /\ root' = erase(root, k)
    /\ abs' = [abs EXCEPT ![k] = 0]
    /\ removed' = (removed \/ abs[k] # 0)

Next == \E k \in Key : remove(k) \/ \E v \in Val : put(k, v)

-----------------------------------------------------------------------------
RECURSIVE Depth(_)
Depth(t) == IF t = Null THEN 0 ELSE 1 + Max({Depth(t.left), Depth(t.right)})

RECURSIVE Subtrees(_)
Subtrees(t) == IF t = Null THEN {} ELSE {t} \cup Subtrees(t.left) \cup Subtrees(t.right)

Balanced == \A t \in Subtrees(root) : get_balance(t) \in -1..1

\* get and inorder_traversal show the map after any sequence of put and remove,
\* _height is the height of every subtree, and as long as nothing was removed
\* put keeps the tree balanced (the rotations of insert and erase).
Correct ==
    /\ \A k \in Key : find(root, k) = abs[k]
    /\ LET shown == inorder_helper(root)
       IN  /\ Len(shown) = Cardinality({k \in Key : abs[k] # 0})
           /\ \A i \in 2..Len(shown) : shown[i - 1][1] < shown[i][1]
    /\ \A t \in Subtrees(root) : t.height = Depth(t)
    /\ ~removed => Balanced
=============================================================================
