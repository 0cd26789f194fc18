----------------------------- MODULE RegionHeap -----------------------------
(***************************************************************************)
(* my_malloc, my_free and my_realloc of my_realloc.cpp: blocks with a      *)
(* header in front, on one singly linked list that grows at its tail by    *)
(* regions that mmap places anywhere.  The unit is ALIGNMENT (16 bytes),   *)
(* to which every request is rounded up, and HEADER_SIZE is 2 of them.     *)
(***************************************************************************)
EXTENDS Naturals, SequencesExt

CONSTANTS
    Request,    \* the sizes asked for, in units; 0 among them
    Page,       \* MMAP_THRESHOLED, in units
    MaxPages    \* bound: the pages of the address space

VARIABLES
    blocks,     \* the list from g_heap_head: address of the header, size, is_free
    regions,    \* the regions mapped so far: address and size
    live        \* history: per block a client holds, the units it asked for

vars == <<blocks, regions, live>>

HEADER == 2
Block(a, s, f) == [addr |-> a, size |-> s, free |-> f]

Init == blocks = <<>> /\ regions = {} /\ live = <<>>

Span(b) == b.addr..(b.addr + HEADER + b.size - 1)
Mapped(r) == r.addr..(r.addr + r.size - 1)

-----------------------------------------------------------------------------
\* The first block that is free and large enough; 0 if there is none.
find_free_block(bs, size) == SelectInSeq(bs, LAMBDA b : b.free /\ b.size >= size)

\* The regions mmap may return for a payload; it may also fail.
init_new_region(size) ==
    LET total == Page * ((HEADER + size + Page - 1) \div Page)
    IN  {r \in [addr : {Page * p : p \in 0..(MaxPages - 1)}, size : {total}] :
            /\ r.addr + r.size <= Page * MaxPages
            /\ \A q \in regions : Mapped(q) \cap Mapped(r) = {}}

\* Mutant: the header of the rest is not paid for.
split_block_free_header(bs, i, needed) ==
    LET b == bs[i]
        rest == b.size - needed
    IN  IF rest > HEADER + 1
        THEN InsertAt([bs EXCEPT ![i].size = needed], i + 1, Block(b.addr + HEADER + needed, rest, TRUE))
        ELSE bs

\* A rest that holds more than a header and one unit becomes a free block.
split_block(bs, i, needed) ==
    LET b == bs[i]
        rest == b.size - needed
    IN  IF rest > HEADER + 1
        THEN InsertAt([bs EXCEPT ![i].size = needed], i + 1,
                      Block(b.addr + HEADER + needed, rest - HEADER, TRUE))
        ELSE bs

\* A free block swallows the free blocks that follow it on the list.
coalesce(bs) ==
    FoldLeft(LAMBDA done, b :
                 IF done # <<>> /\ Last(done).free /\ b.free
                 THEN [done EXCEPT ![Len(done)].size = @ + HEADER + b.size]
                 ELSE Append(done, b),
             <<>>, bs)

Taken(bs, i, size) == split_block([bs EXCEPT ![i].free = FALSE], i, size)

Held(a, size) == [p \in DOMAIN live \cup {a} |-> IF p = a THEN size ELSE live[p]]
Without(l, a) == [p \in DOMAIN l \ {a} |-> l[p]]
place(a) == SelectInSeq(blocks, LAMBDA b : b.addr = a)

\* What my_malloc(size) may leave, and the block it returns; none when mmap fails.
Allocations(size) ==
    LET i == find_free_block(blocks, size)
        grown(r) == Append(blocks, Block(r.addr, r.size - HEADER, TRUE))
    IN  IF i # 0 THEN {[bs |-> Taken(blocks, i, size), rs |-> regions, addr |-> blocks[i].addr]}
        ELSE {[bs |-> Taken(grown(r), Len(blocks) + 1, size),
               rs |-> regions \cup {r}, addr |-> r.addr] : r \in init_new_region(size)}

Freed(bs, a) == coalesce([bs EXCEPT ![SelectInSeq(bs, LAMBDA b : b.addr = a)].free = TRUE])

my_malloc(size) ==
    \E r \in Allocations(size) :
        blocks' = r.bs /\ regions' = r.rs /\ live' = Held(r.addr, size)

my_free(a) == blocks' = Freed(blocks, a) /\ live' = Without(live, a) /\ UNCHANGED regions

\* Case A: the block is large enough, its rest is split off.
realloc_shrink(a, size) ==
    /\ blocks[place(a)].size >= size
    /\ blocks' = split_block(blocks, place(a), size)
    /\ live' = Held(a, size)
    /\ UNCHANGED regions

Combined(a) ==
    LET i == place(a)
    IN  IF i < Len(blocks) /\ blocks[i + 1].free
        THEN blocks[i].size + HEADER + blocks[i + 1].size ELSE 0

\* Case B: the next block of the list is free, and with it the block is large enough.
realloc_extend(a, size) ==
    LET i == place(a)
        left == Combined(a) - size
        bs == [blocks EXCEPT ![i].size = size]
    IN  /\ blocks[i].size < size /\ Combined(a) >= size
        /\ blocks' = IF left > HEADER + 1
                     THEN [bs EXCEPT ![i + 1] = Block(a + HEADER + size, left - HEADER, TRUE)]
                     ELSE RemoveAt(bs, i + 1)
        /\ live' = Held(a, size)
        /\ UNCHANGED regions

\* Case C: a new block, a copy, and the old block is freed.
realloc_move(a, size) ==
    /\ blocks[place(a)].size < size /\ Combined(a) < size
    /\ \E r \in Allocations(size) :
           /\ blocks' = Freed(r.bs, a)
           /\ regions' = r.rs
           /\ live' = Without(Held(r.addr, size), a)

my_realloc(a, size) ==
    IF size = 0 THEN my_free(a)
    ELSE realloc_shrink(a, size) \/ realloc_extend(a, size) \/ realloc_move(a, size)

\* Every block lies in one region.  A block that has grown out of its region owns memory
\* that is not its own: what the program does then is not modelled.
InRegion == \A i \in DOMAIN blocks : \E r \in regions : Span(blocks[i]) \subseteq Mapped(r)

Next ==
    /\ InRegion
    /\ \/ \E size \in Request \ {0} : my_malloc(size)
       \/ \E a \in DOMAIN live, size \in Request : my_realloc(a, size)

-----------------------------------------------------------------------------
\* No block of the list reaches into another one, nor out of the mapped memory.
BlocksApart ==
    /\ \A i, j \in DOMAIN blocks : i # j => Span(blocks[i]) \cap Span(blocks[j]) = {}
    /\ \A i \in DOMAIN blocks : Span(blocks[i]) \subseteq UNION {Mapped(r) : r \in regions}

\* Splitting, merging and growing in place keep the blocks apart, and every
\* client's block on the list, taken, and as large as the client asked for, as
\* long as no block has grown out of its region; with a single region, where
\* the next block of the list is the next one in memory, none ever does
\* (split_block, coalesce, my_realloc).
Correct ==
    /\ Cardinality(regions) <= 1 => InRegion
    /\ InRegion =>
           /\ BlocksApart
           /\ {blocks[i].addr : i \in {j \in DOMAIN blocks : ~blocks[j].free}} = DOMAIN live
           /\ \A a \in DOMAIN live : blocks[place(a)].size >= live[a]
=============================================================================
