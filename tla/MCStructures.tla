---------------------------- MODULE MCStructures ----------------------------
(***************************************************************************)
(* The containers and the allocators side by side.  They share             *)
(* nothing, so a behaviour exercises one of them, chosen at the start.     *)
(***************************************************************************)
EXTENDS Naturals

VARIABLES which,
    bst_root, bst_node, bst_abs,
    avl_root, avl_abs, avl_removed,
    h_buckets, h_count, h_elems, h_abs,
    d_buffer, d_capacity, d_count, d_front, d_back, d_abs, d_fitted, d_undef,
    l_node, l_abs,
    m_mem, m_brk, m_listp, m_live,
    r_blocks, r_regions, r_live

bst == <<bst_root, bst_node, bst_abs>>
avl == <<avl_root, avl_abs, avl_removed>>
hash == <<h_buckets, h_count, h_elems, h_abs>>
deque == <<d_buffer, d_capacity, d_count, d_front, d_back, d_abs, d_fitted, d_undef>>
list == <<l_node, l_abs>>
mm == <<m_mem, m_brk, m_listp, m_live>>
region == <<r_blocks, r_regions, r_live>>

Bst == INSTANCE BstMap WITH Key <- 1..4, Val <- {0, 1},
    root <- bst_root, node <- bst_node, abs <- bst_abs
Avl == INSTANCE AvlMap WITH Key <- 1..8, Val <- {1},
    root <- avl_root, abs <- avl_abs, removed <- avl_removed
Hash == INSTANCE HashMap WITH Key <- {0, 1, 2, 4, 6}, Val <- {1, 2}, MinBuckets <- 2,
    buckets <- h_buckets, bucket_count <- h_count, elem_count <- h_elems, abs <- h_abs
Deque == INSTANCE RingDeque WITH Val <- {1, 2}, InitCapacity <- 2, MaxCapacity <- 6,
    buffer <- d_buffer, capacity <- d_capacity, count <- d_count, front_index <- d_front,
    back_index <- d_back, abs <- d_abs, fitted <- d_fitted, undefined <- d_undef
List == INSTANCE LinkedList WITH Val <- {1, 2}, MaxLen <- 4, node <- l_node, abs <- l_abs
Mm == INSTANCE MmHeap WITH Request <- {0, 4, 20}, Chunk <- 8, MaxHeap <- 20, MaxLive <- 2,
    mem <- m_mem, brk <- m_brk, listp <- m_listp, live <- m_live
Region == INSTANCE RegionHeap WITH Request <- {0, 1, 5}, Page <- 14, MaxPages <- 2,
    blocks <- r_blocks, regions <- r_regions, live <- r_live

Init ==
    /\ which \in {"bst", "avl", "hash", "deque", "list", "mm", "region"}
    /\ Bst!Init /\ Avl!Init /\ Hash!Init /\ Deque!Init /\ List!Init
    /\ Mm!Init /\ Region!Init

Next ==
    /\ UNCHANGED which
    /\ \/ which = "bst" /\ Bst!Next /\ UNCHANGED <<avl, hash, deque, list, mm, region>>
       \/ which = "avl" /\ Avl!Next /\ UNCHANGED <<bst, hash, deque, list, mm, region>>
       \/ which = "hash" /\ Hash!Next /\ UNCHANGED <<bst, avl, deque, list, mm, region>>
       \/ which = "deque" /\ Deque!Next /\ UNCHANGED <<bst, avl, hash, list, mm, region>>
       \/ which = "list" /\ List!Next /\ UNCHANGED <<bst, avl, hash, deque, mm, region>>
       \/ which = "mm" /\ Mm!Next /\ UNCHANGED <<bst, avl, hash, deque, list, region>>
       \/ which = "region" /\ Region!Next /\ UNCHANGED <<bst, avl, hash, deque, list, mm>>

Spec == Init /\ [][Next]_<<which, bst, avl, hash, deque, list, mm, region>>

-----------------------------------------------------------------------------
\* bst_map::map answers and iterates as a map does (insert, erase, successor).
BstCorrect == Bst!Correct

\* avl_map::map answers as a map does, with true heights, and put keeps it balanced.
AvlCorrect == Avl!Correct

\* unordered_map answers and iterates as a map does through every rehash.
HashCorrect == Hash!Correct

\* deque and list hold the sequence their calls describe, wrapped, resized or
\* relinked (push, pop, resize, insert, erase); the iterators of list go through
\* it, those of deque through a rotation of it given by its first value.
SequencesCorrect == Deque!Correct /\ List!Correct

\* mm.c: the blocks tile the heap, the tags agree, nothing free stays unmerged
\* and every client's data is its own (mm_malloc, mm_free, mm_realloc).
MmCorrect == Mm!Correct

\* my_realloc.cpp: blocks stay apart until one grows out of its region, and in
\* a single region none does (my_malloc, my_free, my_realloc).
RegionCorrect == Region!Correct

\* What the rotations of avl_map are for: no subtree is more than one level
\* deeper than its sibling, after remove as well as after put.
AvlBalanced == Avl!Balanced
=============================================================================
