------------------------------- MODULE HashMap -------------------------------
(***************************************************************************)
(* sen_std::unordered_map: chained buckets that are rehashed to twice the  *)
(* count when the load exceeds _max_load_factor (1.00, the default) and to *)
(* half of it, never below _MIN_BUCKETS, when the load falls under a       *)
(* quarter of that.  A chain is the sequence of its nodes, head first; the *)
(* hash of an integer is the integer, as std::hash<int> has it.            *)
(***************************************************************************)
EXTENDS Naturals, SequencesExt

CONSTANTS
    Key,            \* a finite set of natural numbers
    Val,            \* the values; 0 is none of them
    MinBuckets      \* _MIN_BUCKETS and the default capacity (8 in the code)

VARIABLES
    buckets,        \* _buckets
    bucket_count,   \* _bucket_count
    elem_count,     \* _elem_count
    abs             \* history: the map that the calls describe; 0 for no value

vars == <<buckets, bucket_count, elem_count, abs>>

Empty(n) == [i \in 0..(n - 1) |-> <<>>]

Init ==
    /\ buckets = Empty(MinBuckets)
    /\ bucket_count = MinBuckets
    /\ elem_count = 0
    /\ abs = [k \in Key |-> 0]

-----------------------------------------------------------------------------
idx(k) == k % bucket_count

\* The place of k in its chain; 0 if it is not there.
position(k) == SelectInSeq(buckets[idx(k)], LAMBDA n : n[1] = k)
find(k) == IF position(k) = 0 THEN 0 ELSE buckets[idx(k)][position(k)][2]

\* Mutant: the nodes keep the bucket they were in.
rehash_unmoved(bs, n) ==
    [i \in 0..(n - 1) |-> IF i \in DOMAIN bs THEN bs[i] ELSE <<>>]

\* Every node is pushed on the front of its new chain, bucket by bucket.
rehash(bs, n) ==
    LET nodes == FlattenSeq([i \in 1..bucket_count |-> bs[i - 1]])
    IN  [i \in 0..(n - 1) |-> Reverse(SelectSeq(nodes, LAMBDA e : e[1] % n = i))]

\* The table bs with n buckets, rehashed unless it has them already.
Resized(bs, n) ==
    /\ bucket_count' = n
    /\ buckets' = IF n = bucket_count THEN bs ELSE rehash(bs, n)

insert(k, v) ==
    /\ abs' = [abs EXCEPT ![k] = v]
    /\ IF position(k) # 0
       THEN /\ buckets' = [buckets EXCEPT ![idx(k)][position(k)] = <<k, v>>]
            /\ UNCHANGED <<bucket_count, elem_count>>
       ELSE /\ elem_count' = elem_count + 1
            /\ Resized([buckets EXCEPT ![idx(k)] = <<<<k, v>>>> \o @],
                       IF elem_count + 1 > bucket_count THEN 2 * bucket_count ELSE bucket_count)

erase(k) ==
    /\ position(k) # 0
    /\ abs' = [abs EXCEPT ![k] = 0]
    /\ elem_count' = elem_count - 1
    /\ LET half == Max({bucket_count \div 2, MinBuckets})
           shrink == elem_count' > 0 /\ 4 * elem_count' < bucket_count /\ half < bucket_count
       IN  Resized([buckets EXCEPT ![idx(k)] = RemoveAt(@, position(k))],
                   IF shrink THEN half ELSE bucket_count)

clear ==
    /\ abs' = [k \in Key |-> 0]
    /\ elem_count' = 0
    /\ Resized(Empty(bucket_count), Min({bucket_count, MinBuckets}))

Next ==
    \/ \E k \in Key : erase(k) \/ \E v \in Val : insert(k, v)
    \/ clear

-----------------------------------------------------------------------------
(* The iterator: a bucket and a place in its chain, end() after the last bucket. *)

end == <<bucket_count, 0>>

\* The first node in a bucket from b on.
first_from(b) ==
    LET full == {i \in b..(bucket_count - 1) : buckets[i] # <<>>}
    IN  IF full = {} THEN end ELSE <<Min(full), 1>>

advance(it) ==
    IF it[2] < Len(buckets[it[1]]) THEN <<it[1], it[2] + 1>> ELSE first_from(it[1] + 1)

Visited ==
    LET at[i \in 1..(elem_count + 1)] == IF i = 1 THEN first_from(0)
                                         ELSE IF at[i - 1] = end THEN end ELSE advance(at[i - 1])
    IN  at

Present == {k \in Key : abs[k] # 0}

\* Across every growing and shrinking rehash, find shows the last value put in,
\* size() is the number of keys, iterating from begin() meets each key once and
\* then end(), and the load stays within _max_load_factor.
Correct ==
    /\ \A k \in Key : find(k) = abs[k]
    /\ elem_count = Cardinality(Present)
    /\ elem_count <= bucket_count
    /\ bucket_count >= MinBuckets
    /\ Visited[elem_count + 1] = end
    /\ {buckets[Visited[i][1]][Visited[i][2]][1] : i \in 1..elem_count} = Present
=============================================================================
