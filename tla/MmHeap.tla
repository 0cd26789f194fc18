------------------------------- MODULE MmHeap -------------------------------
(***************************************************************************)
(* mm.c over memlib.c: an implicit free list with boundary tags, first fit *)
(* placement and immediate coalescing, on a heap that mem_sbrk extends up  *)
(* to MAX_HEAP.  Memory is a function from word addresses (WSIZE is 1) to  *)
(* words; a word is a tag <<size in words, allocated bit>> or a client's   *)
(* data.  A client fills the payload it asked for with a mark of its own   *)
(* and clears it before it frees the block.                                *)
(***************************************************************************)
EXTENDS Integers, FiniteSetsExt

CONSTANTS
    Request,    \* the sizes asked for, in bytes: multiples of 4, 0 among them
    Chunk,      \* CHUNKSIZE, in words
    MaxHeap,    \* MAX_HEAP, in words
    MaxLive     \* bound on the blocks a client holds

VARIABLES
    mem,        \* the words of the heap
    brk,        \* mem_brk
    listp,      \* heap_listp
    live        \* history: per block a client holds, the words asked for and the mark

vars == <<mem, brk, listp, live>>

NULL == 0
DSIZE == 2
PACK(size, alloc) == <<size, alloc>>
Data(mark) == <<-mark, 1>>
Uninit == <<0, 0>>

Init ==
    /\ mem = [a \in 0..(MaxHeap - 1) |-> Uninit]
    /\ brk = 0 /\ listp = NULL /\ live = <<>>

-----------------------------------------------------------------------------
(* The macros, over a memory m. *)

HDRP(bp) == bp - 1
SIZE(m, bp) == m[HDRP(bp)][1]
ALLOC(m, bp) == m[HDRP(bp)][2]
FTRP(m, bp) == bp + SIZE(m, bp) - DSIZE
NEXT_BLKP(m, bp) == bp + SIZE(m, bp)
PREV_BLKP(m, bp) == bp - m[bp - DSIZE][1]

\* The PUTs of a header and of the footer that goes with it.
Tagged(m, bp, size, alloc) ==
    [m EXCEPT ![HDRP(bp)] = PACK(size, alloc), ![bp + size - DSIZE] = PACK(size, alloc)]

\* Mutant: a free block before this one is not looked at.
coalesce_forward(m, bp) ==
    LET next == NEXT_BLKP(m, bp)
        size == SIZE(m, bp) + (IF ALLOC(m, next) = 1 THEN 0 ELSE SIZE(m, next))
    IN  [mem |-> Tagged(m, bp, size, 0), bp |-> bp]

\* The four cases differ in which neighbours the new tags take in.
coalesce(m, bp) ==
    LET prev == PREV_BLKP(m, bp)
        next == NEXT_BLKP(m, bp)
        first == IF m[FTRP(m, prev)][2] = 1 THEN bp ELSE prev
        size == SIZE(m, bp) + (IF first = bp THEN 0 ELSE SIZE(m, prev))
                            + (IF ALLOC(m, next) = 1 THEN 0 ELSE SIZE(m, next))
    IN  [mem |-> Tagged(m, first, size, 0), bp |-> first]

\* extend_heap, when mem_sbrk has the words: the old epilogue becomes the header of the
\* new free block.
extend_heap(m, b, words) ==
    LET size == words + (words % 2)
    IN  coalesce([Tagged(m, b, size, 0) EXCEPT ![HDRP(b + size)] = PACK(0, 1)], b)

place(m, bp, asize) ==
    LET csize == SIZE(m, bp)
    IN  IF csize - asize >= 2 * DSIZE
        THEN Tagged(Tagged(m, bp, asize, 1), bp + asize, csize - asize, 0)
        ELSE Tagged(m, bp, csize, 1)

\* First fit from heap_listp on; NULL when the epilogue is reached.
find_fit(m, start, asize) ==
    LET fit[bp \in start..MaxHeap] ==
            IF SIZE(m, bp) = 0 THEN NULL
            ELSE IF ALLOC(m, bp) = 0 /\ asize <= SIZE(m, bp) THEN bp
            ELSE fit[NEXT_BLKP(m, bp)]
    IN  fit[start]

\* A request with its overhead, rounded up to double words.
adjusted(size) == IF size <= 8 THEN 2 * DSIZE ELSE DSIZE * ((size + 15) \div 8)

-----------------------------------------------------------------------------
(* What a call of mm_malloc leaves: memory, break, list pointer, and the block or NULL. *)

Outcome(m, b, l, bp) == [mem |-> m, brk |-> b, listp |-> l, bp |-> bp]
Current == Outcome(mem, brk, listp, NULL)

\* mm_init: padding, prologue and epilogue, and the first chunk.
mm_init(s) ==
    LET base == s.brk
        m == [s.mem EXCEPT ![base] = Uninit, ![base + 1] = PACK(DSIZE, 1),
                           ![base + 2] = PACK(DSIZE, 1), ![base + 3] = PACK(0, 1)]
    IN  Outcome(extend_heap(m, base + 4, Chunk).mem, base + 4 + Chunk, base + 2, NULL)

mm_malloc(size) ==
    LET s == IF listp = NULL THEN mm_init(Current) ELSE Current
        asize == adjusted(size)
        bp == find_fit(s.mem, s.listp, asize)
        more == Max({asize, Chunk})
        grown == extend_heap(s.mem, s.brk, more)
    IN  IF size = 0 THEN s
        ELSE IF bp # NULL THEN Outcome(place(s.mem, bp, asize), s.brk, s.listp, bp)
        ELSE IF s.brk + more > MaxHeap THEN s
        ELSE Outcome(place(grown.mem, grown.bp, asize), s.brk + more, s.listp, grown.bp)

mm_free(m, bp) == coalesce(Tagged(m, bp, SIZE(m, bp), 0), bp).mem

-----------------------------------------------------------------------------
(* The clients. *)

words(size) == size \div 4
Filled(m, bp, from, n, w) ==
    [a \in DOMAIN m |-> IF a \in (bp + from)..(bp + n - 1) THEN w ELSE m[a]]
Adopt(bp, n, mark) == [p \in DOMAIN live \cup {bp} |->
                          IF p = bp THEN [n |-> n, mark |-> mark] ELSE live[p]]
Dropped(l, bp) == [p \in DOMAIN l \ {bp} |-> l[p]]

Malloc(size) ==
    LET r == mm_malloc(size)
        mark == CHOOSE k \in 1..MaxLive : \A p \in DOMAIN live : live[p].mark # k
    IN  /\ Cardinality(DOMAIN live) < MaxLive
        /\ brk' = r.brk /\ listp' = r.listp
        /\ IF r.bp = NULL THEN mem' = r.mem /\ UNCHANGED live
           ELSE /\ mem' = Filled(r.mem, r.bp, 0, words(size), Data(mark))
                /\ live' = Adopt(r.bp, words(size), mark)

Free(bp) ==
    /\ mem' = mm_free(Filled(mem, bp, 0, live[bp].n, Uninit), bp)
    /\ live' = Dropped(live, bp)
    /\ UNCHANGED <<brk, listp>>

\* mm_realloc of a block: malloc, copy of as many words as the old block or the request
\* has, free.  Size 0 is a free, and a failed malloc leaves the block alone.
mm_realloc(bp, size) ==
    LET r == mm_malloc(size)
        n == Min({words(size), SIZE(r.mem, bp)})
        copied == [a \in DOMAIN mem |->
                      IF a \in r.bp..(r.bp + n - 1) THEN r.mem[bp + (a - r.bp)] ELSE r.mem[a]]
        kept == Min({words(size), live[bp].n})
    IN  /\ brk' = r.brk /\ listp' = r.listp
        /\ IF r.bp = NULL THEN mem' = r.mem /\ UNCHANGED live
           ELSE /\ mem' = Filled(mm_free(copied, bp), r.bp, kept, words(size), Data(live[bp].mark))
                /\ live' = Dropped(Adopt(r.bp, words(size), live[bp].mark), bp)

Realloc(bp, size) == IF size = 0 THEN Free(bp) ELSE mm_realloc(bp, size)

Next ==
    \/ \E size \in Request : Malloc(size)
    \/ \E bp \in DOMAIN live, size \in Request : Realloc(bp, size)

-----------------------------------------------------------------------------
\* The blocks that the walk of checkheap meets, prologue first, epilogue last.
Blocks ==
    LET from[bp \in 2..MaxHeap] ==
            {bp} \cup (IF SIZE(mem, bp) = 0 THEN {} ELSE from[NEXT_BLKP(mem, bp)])
    IN  from[listp]

\* What checkheap and checkblock look for, and what they do not: the blocks tile
\* the heap up to the epilogue at mem_brk, header and footer agree, no two free
\* blocks are neighbours, the allocated blocks are the clients', and every
\* client finds its own data in all of the payload it asked for, after a
\* realloc too (place, coalesce, extend_heap, mm_realloc).
Correct ==
    listp # NULL =>
        /\ mem[HDRP(listp)] = PACK(DSIZE, 1)
        /\ brk \in Blocks /\ mem[HDRP(brk)] = PACK(0, 1)
        /\ \A bp \in Blocks \ {brk} :
               /\ bp % DSIZE = 0
               /\ mem[HDRP(bp)] = mem[FTRP(mem, bp)]
               /\ ALLOC(mem, bp) = 0 => ALLOC(mem, NEXT_BLKP(mem, bp)) = 1
        /\ {bp \in Blocks \ {listp, brk} : ALLOC(mem, bp) = 1} = DOMAIN live
        /\ \A bp \in DOMAIN live :
               /\ live[bp].n <= SIZE(mem, bp) - DSIZE
               /\ \A i \in 0..(live[bp].n - 1) : mem[bp + i] = Data(live[bp].mark)
=============================================================================
