--------------------------- MODULE ServicesProofs ---------------------------
(***************************************************************************)
(* Proofs about the small programs: the bounded buffer, the task queue,    *)
(* the coroutine loop and the shared pointers, each with its inductive     *)
(* invariant.                                                              *)
(***************************************************************************)
EXTENDS MCServices, SequenceTheorems, FiniteSetTheorems, TLAPS

\* 1 while a thread is at one of the places, for counting.
One(at, places) == IF at \in places THEN 1 ELSE 0

-----------------------------------------------------------------------------
(* The bounded buffer. *)

Index == 0..(RingSize - 1)

\* The index k places after the front, for a k of at most one turn.
Place(k) == IF b_front + k >= RingSize THEN b_front + k - RingSize ELSE b_front + k

\* The items in the ring: announced, about to be, or claimed by the consumer.
InRing == b_items + One(b_p, {"post"}) + One(b_c, {"lock", "get"})

BufferType ==
    /\ b_buffer \in [Index -> Nat] /\ b_front \in Index /\ b_rear \in Index
    /\ b_mutex \in Nat /\ b_slots \in Nat /\ b_items \in Nat
    /\ b_p \in {"wait", "lock", "put", "post"} /\ b_c \in {"wait", "lock", "get", "post"}
    /\ b_made \in Nat /\ b_taken \in Seq(Nat)

\* What the semaphores count: one thread at most is between P(&mutex) and
\* V(&mutex); what was made is taken or in the ring; a slot is free, filled, or
\* claimed by one of the threads.
Semaphores ==
    /\ b_mutex + One(b_p, {"put"}) + One(b_c, {"get"}) = 1
    /\ b_made = Len(b_taken) + InRing
    /\ b_slots + One(b_p, {"lock", "put"}) + One(b_c, {"post"}) + InRing = RingSize

\* The items in the ring stand in order from the front, and the rear is where
\* the next one goes.
RingOrder ==
    /\ b_rear = Place(InRing)
    /\ \A k \in 0..(InRing - 1) : b_buffer[Place(k)] = Len(b_taken) + 1 + k
    /\ \A k \in 1..Len(b_taken) : b_taken[k] = k

BufferInv == BufferType /\ Semaphores /\ RingOrder

\* The ring's index arithmetic: adding one goes to the next place or wraps.
LEMMA NextIndex ==
    ASSUME NEW n \in Index
    PROVE  (n + 1) % RingSize = IF n + 1 = RingSize THEN 0 ELSE n + 1
BY ServicesAssumption DEF Index

\* init_buffer and the semaphores' first values satisfy the buffer's invariant.
LEMMA BufferInit ==
    ASSUME Buffer!Init
    PROVE  BufferInv
<1> USE ServicesAssumption DEF Index, One, Place, InRing
<1>1. BufferType
    BY DEF Buffer!Init, BufferType
<1>2. Semaphores
    BY DEF Buffer!Init, Semaphores
<1>3. RingOrder
    BY DEF Buffer!Init, RingOrder
<1> QED BY <1>1, <1>2, <1>3 DEF BufferInv

\* A step of the producer keeps the buffer's invariant.
LEMMA ProducerStep ==
    ASSUME BufferInv, Buffer!Produce
    PROVE  BufferInv'
<1> USE ServicesAssumption DEF Index, BufferInv
<1>1. CASE b_p = "put"
    <2>1. /\ b_p' = "post" /\ b_mutex' = b_mutex + 1 /\ b_made' = b_made + 1
          /\ b_buffer' = [b_buffer EXCEPT ![b_rear] = b_made + 1]
          /\ UNCHANGED <<b_slots, b_items, b_front, b_c, b_taken>>
        BY <1>1 DEF Buffer!Produce
    <2>2. b_rear' = IF b_rear + 1 = RingSize THEN 0 ELSE b_rear + 1
        BY <1>1, NextIndex DEF BufferType, Buffer!Produce
    <2>3. BufferType'
        BY <2>1, <2>2 DEF BufferType
    <2>4. InRing \in Nat /\ InRing' = InRing + 1
        BY <1>1, <2>1 DEF BufferType, InRing, One
    <2>5. Semaphores' /\ InRing < RingSize
        <3>1. (b_mutex + One(b_p, {"put"}) + One(b_c, {"get"}) = 1)'
            BY <1>1, <2>1 DEF BufferType, Semaphores, One
        <3>2. (b_made = Len(b_taken) + InRing)'
            BY <2>1, <2>4 DEF BufferType, Semaphores
        <3>3. /\ (b_slots + One(b_p, {"lock", "put"}) + One(b_c, {"post"}) + InRing = RingSize)'
              /\ InRing < RingSize
            BY <1>1, <2>1, <2>4 DEF BufferType, Semaphores, One
        <3> QED BY <3>1, <3>2, <3>3 DEF Semaphores
    <2>6. b_rear' = Place(InRing)'
        BY <2>1, <2>2, <2>4, <2>5 DEF BufferType, RingOrder, Place
    <2>7. ASSUME NEW k \in 0..(InRing' - 1)
          PROVE  b_buffer'[Place(k)'] = Len(b_taken)' + 1 + k
        <3>1. Place(k)' = Place(k) /\ Place(k) \in Index /\ (Place(k) = b_rear <=> k = InRing)
            BY <2>1, <2>4, <2>5 DEF BufferType, RingOrder, Place
        <3>2. b_made = Len(b_taken) + InRing
            BY DEF Semaphores
        <3>3. CASE k = InRing
            BY <3>1, <3>2, <3>3, <2>1 DEF BufferType
        <3>4. CASE k # InRing
            <4>1. k \in 0..(InRing - 1) /\ b_buffer'[Place(k)] = b_buffer[Place(k)]
                BY <3>1, <3>4, <2>1, <2>4 DEF BufferType
            <4> QED BY <3>1, <4>1, <2>1 DEF RingOrder
        <3> QED BY <3>3, <3>4
    <2> QED BY <2>1, <2>3, <2>5, <2>6, <2>7 DEF RingOrder
<1>2. CASE b_p # "put"
    <2>1. /\ UNCHANGED <<b_buffer, b_rear, b_made, b_front, b_c, b_taken>>
          /\ \/ /\ b_p = "wait" /\ b_slots > 0 /\ b_slots' = b_slots - 1 /\ b_p' = "lock"
                /\ UNCHANGED <<b_mutex, b_items>>
             \/ /\ b_p = "lock" /\ b_mutex > 0 /\ b_mutex' = b_mutex - 1 /\ b_p' = "put"
                /\ UNCHANGED <<b_slots, b_items>>
             \/ /\ b_p = "post" /\ b_items' = b_items + 1 /\ b_p' = "wait"
                /\ UNCHANGED <<b_slots, b_mutex>>
        BY <1>2 DEF Buffer!Produce
    <2>2. BufferType'
        BY <2>1 DEF BufferType
    <2>3. /\ InRing \in Nat /\ InRing' = InRing
          /\ (b_slots + One(b_p, {"lock", "put"}) + One(b_c, {"post"}))'
             = b_slots + One(b_p, {"lock", "put"}) + One(b_c, {"post"})
        <3>1. CASE b_p = "wait"
            BY <2>1, <3>1 DEF BufferType, InRing, One
        <3>2. CASE b_p = "lock"
            BY <2>1, <3>2 DEF BufferType, InRing, One
        <3>3. CASE b_p = "post"
            BY <2>1, <3>3 DEF BufferType, InRing, One
        <3> QED BY <2>1, <3>1, <3>2, <3>3
    <2>4. (b_mutex + One(b_p, {"put"}) + One(b_c, {"get"}) = 1)'
        BY <2>1 DEF BufferType, Semaphores, One
    <2>5. (b_slots + One(b_p, {"lock", "put"}) + One(b_c, {"post"}) + InRing = RingSize)'
        <3>1. b_slots + One(b_p, {"lock", "put"}) + One(b_c, {"post"}) + InRing = RingSize
            BY DEF Semaphores
        <3> HIDE DEF BufferInv
        <3> QED BY <2>3, <3>1
    <2>6. Semaphores'
        BY <2>1, <2>3, <2>4, <2>5 DEF Semaphores
    <2>7. RingOrder'
        BY <2>1, <2>3 DEF RingOrder, Place
    <2> QED BY <2>2, <2>6, <2>7
<1> QED BY <1>1, <1>2

\* A step of the consumer keeps the buffer's invariant.
LEMMA ConsumerStep ==
    ASSUME BufferInv, Buffer!Consume
    PROVE  BufferInv'
<1> USE ServicesAssumption DEF Index, BufferInv
<1>1. CASE b_c = "get"
    <2>1. /\ b_c' = "post" /\ b_mutex' = b_mutex + 1
          /\ b_taken' = Append(b_taken, b_buffer[b_front])
          /\ UNCHANGED <<b_slots, b_items, b_buffer, b_rear, b_p, b_made>>
        BY <1>1 DEF Buffer!Consume
    <2>2. b_front' = IF b_front + 1 = RingSize THEN 0 ELSE b_front + 1
        BY <1>1, NextIndex DEF BufferType, Buffer!Consume
    <2>3. /\ BufferType'
          /\ Len(b_taken') = Len(b_taken) + 1 /\ Len(b_taken) \in Nat
        BY <2>1, <2>2 DEF BufferType
    <2>4. InRing \in Nat /\ InRing >= 1 /\ InRing' = InRing - 1
        BY <1>1, <2>1 DEF BufferType, InRing, One
    <2>5. Semaphores' /\ InRing <= RingSize
        <3>1. (b_mutex + One(b_p, {"put"}) + One(b_c, {"get"}) = 1)'
            BY <1>1, <2>1 DEF BufferType, Semaphores, One
        <3>2. (b_made = Len(b_taken) + InRing)'
            BY <2>1, <2>3, <2>4 DEF BufferType, Semaphores
        <3>3. /\ One(b_c, {"post"}) = 0 /\ One(b_c', {"post"}) = 1
              /\ One(b_p, {"lock", "put"}) \in Nat
            BY <1>1, <2>1 DEF One
        <3>4. /\ (b_slots + One(b_p, {"lock", "put"}) + One(b_c, {"post"}) + InRing = RingSize)'
              /\ InRing <= RingSize
            <4>1. b_slots + One(b_p, {"lock", "put"}) + One(b_c, {"post"}) + InRing = RingSize
                BY DEF Semaphores
            <4>2. b_slots \in Nat
                BY DEF BufferType
            <4> HIDE DEF BufferInv
            <4> QED BY <2>1, <2>4, <3>3, <4>1, <4>2
        <3> QED BY <3>1, <3>2, <3>4 DEF Semaphores
    <2>a. b_front \in Nat /\ b_front < RingSize /\ RingSize \in Nat
        BY DEF BufferType
    <2>6. b_buffer[b_front] = Len(b_taken) + 1
        <3>1. Place(0) = b_front /\ 0 \in 0..(InRing - 1)
            BY <2>4, <2>a DEF Place
        <3> QED BY <2>3, <3>1 DEF RingOrder
    <2>7. b_rear' = Place(InRing)'
        BY <2>1, <2>2, <2>4, <2>5, <2>a DEF RingOrder, Place
    <2>8. ASSUME NEW k \in 0..(InRing' - 1)
          PROVE  b_buffer'[Place(k)'] = Len(b_taken)' + 1 + k
        <3>1. k + 1 \in 0..(InRing - 1) /\ Place(k)' = Place(k + 1)
            BY <2>2, <2>4, <2>5, <2>a DEF Place
        <3>2. b_buffer[Place(k + 1)] = Len(b_taken) + 1 + (k + 1)
            BY <3>1 DEF RingOrder
        <3> QED BY <3>1, <3>2, <2>1, <2>3
    <2>9. \A k \in 1..Len(b_taken') : b_taken'[k] = k
        BY <2>1, <2>3, <2>6 DEF BufferType, RingOrder
    <2> QED BY <2>3, <2>5, <2>7, <2>8, <2>9 DEF RingOrder
<1>2. CASE b_c # "get"
    <2>1. /\ UNCHANGED <<b_buffer, b_rear, b_made, b_front, b_p, b_taken>>
          /\ \/ /\ b_c = "wait" /\ b_items > 0 /\ b_items' = b_items - 1 /\ b_c' = "lock"
                /\ UNCHANGED <<b_mutex, b_slots>>
             \/ /\ b_c = "lock" /\ b_mutex > 0 /\ b_mutex' = b_mutex - 1 /\ b_c' = "get"
                /\ UNCHANGED <<b_slots, b_items>>
             \/ /\ b_c = "post" /\ b_slots' = b_slots + 1 /\ b_c' = "wait"
                /\ UNCHANGED <<b_items, b_mutex>>
        BY <1>2 DEF Buffer!Consume
    <2>2. BufferType'
        BY <2>1 DEF BufferType
    <2>3. /\ InRing \in Nat /\ InRing' = InRing
          /\ (b_slots + One(b_p, {"lock", "put"}) + One(b_c, {"post"}))'
             = b_slots + One(b_p, {"lock", "put"}) + One(b_c, {"post"})
        <3>1. CASE b_c = "wait"
            BY <2>1, <3>1 DEF BufferType, InRing, One
        <3>2. CASE b_c = "lock"
            BY <2>1, <3>2 DEF BufferType, InRing, One
        <3>3. CASE b_c = "post"
            BY <2>1, <3>3 DEF BufferType, InRing, One
        <3> QED BY <2>1, <3>1, <3>2, <3>3
    <2>4. (b_mutex + One(b_p, {"put"}) + One(b_c, {"get"}) = 1)'
        BY <2>1 DEF BufferType, Semaphores, One
    <2>5. (b_slots + One(b_p, {"lock", "put"}) + One(b_c, {"post"}) + InRing = RingSize)'
        <3>1. b_slots + One(b_p, {"lock", "put"}) + One(b_c, {"post"}) + InRing = RingSize
            BY DEF Semaphores
        <3> HIDE DEF BufferInv
        <3> QED BY <2>3, <3>1
    <2>6. Semaphores'
        BY <2>1, <2>3, <2>4, <2>5 DEF Semaphores
    <2>7. RingOrder'
        BY <2>1, <2>3 DEF RingOrder, Place
    <2> QED BY <2>2, <2>6, <2>7
<1> QED BY <1>1, <1>2

\* The invariant gives what the buffer promises.
LEMMA BufferPromise ==
    ASSUME BufferInv
    PROVE  Buffer!Correct
<1> USE ServicesAssumption DEF BufferInv, InRing, One
<1>1. Len(b_taken) \in Nat
    BY DEF BufferType
<1>2. b_made - Len(b_taken) \in 0..RingSize
    BY <1>1 DEF BufferType, Semaphores
<1>3. ~(b_p = "put" /\ b_c = "get")
    BY DEF BufferType, Semaphores
<1>4. ASSUME Buffer!ProducerWaits, Buffer!ConsumerWaits
      PROVE  Len(b_taken) = RingItems
    <2>1. b_p = "wait" /\ (b_made = RingItems \/ b_slots = 0)
        BY <1>4 DEF BufferType, Semaphores, Buffer!ProducerWaits, Buffer!ConsumerWaits
    <2>2. b_c = "wait" /\ (Len(b_taken) = RingItems \/ b_items = 0)
        BY <1>4, <2>1 DEF BufferType, Semaphores, Buffer!ConsumerWaits
    <2>3. b_made = Len(b_taken) + b_items /\ b_slots + b_items = RingSize
        BY <1>1, <2>1, <2>2 DEF BufferType, Semaphores
    <2> QED BY <1>1, <2>1, <2>2, <2>3 DEF BufferType
<1>5. b_taken = [k \in 1..Len(b_taken) |-> k]
    <2>1. b_taken = [k \in 1..Len(b_taken) |-> b_taken[k]]
        BY DEF BufferType
    <2> QED BY <2>1, Zenon DEF RingOrder
<1> QED BY <1>2, <1>3, <1>4, <1>5 DEF Buffer!Correct

-----------------------------------------------------------------------------
(* The task queue. *)

\* The first task that the worker has not taken.
First == Len(q_done) + One(q_worker, {"run"}) + 1

QueueType ==
    /\ q_head \in 0..QueueTasks /\ q_tail \in 0..QueueTasks
    /\ q_next \in [1..QueueTasks -> 0..QueueTasks]
    /\ q_stop \in BOOLEAN /\ q_joined \in BOOLEAN
    /\ q_worker \in {"lock", "waiting", "woken", "run", "end"}
    /\ q_added \in 0..QueueTasks /\ q_done \in Seq(Nat)

\* The list from head to tail is the tasks that were added and not taken.
ListInv ==
    /\ First <= q_added + 1
    /\ q_head = IF First > q_added THEN 0 ELSE First
    /\ q_tail = IF First > q_added THEN 0 ELSE q_added
    /\ \A t \in 1..QueueTasks : First <= t /\ t < q_added => q_next[t] = t + 1
    /\ \A t \in 1..QueueTasks : t >= q_added => q_next[t] = 0
    /\ q_alive = (Len(q_done) + 1)..q_added
    /\ q_task = IF q_worker = "run" THEN Len(q_done) + 1 ELSE 0
    /\ \A k \in 1..Len(q_done) : q_done[k] = k

WorkerInv ==
    /\ q_worker = "waiting" => q_head = 0 /\ ~q_stop
    /\ q_worker = "end" => q_head = 0 /\ q_stop
    /\ q_stop => q_added = QueueTasks
    /\ q_joined => q_worker = "end"

QueueInv == QueueType /\ ListInv /\ WorkerInv

\* An empty queue with its worker on the way satisfies the queue's invariant.
LEMMA QueueInit ==
    ASSUME Queue!Init
    PROVE  QueueInv
<1> USE ServicesAssumption DEF Queue!Init, Queue!Null, Queue!Node
<1>1. QueueType
    <2>1. q_next \in [1..QueueTasks -> 0..QueueTasks]
        OBVIOUS
    <2>2. q_head \in 0..QueueTasks /\ q_tail \in 0..QueueTasks /\ q_added \in 0..QueueTasks
        OBVIOUS
    <2>3. q_stop \in BOOLEAN /\ q_joined \in BOOLEAN
        BY Zenon
    <2>4. q_worker \in {"lock", "waiting", "woken", "run", "end"} /\ q_done \in Seq(Nat)
        OBVIOUS
    <2> HIDE DEF Queue!Init
    <2> QED BY <2>1, <2>2, <2>3, <2>4 DEF QueueType
<1>2. Len(q_done) = 0 /\ First = 1
    BY DEF First, One
<1>3. ListInv
    <2>1. q_alive = (Len(q_done) + 1)..q_added
        BY <1>2
    <2> QED BY <1>2, <2>1 DEF ListInv
<1>4. WorkerInv
    BY DEF WorkerInv
<1> QED BY <1>1, <1>3, <1>4 DEF QueueInv

\* A step of the task queue keeps its invariant: a new task goes behind the last
\* one, and the worker takes the first.
LEMMA QueueStep ==
    ASSUME QueueInv, Queue!Next
    PROVE  QueueInv'
<1> USE ServicesAssumption DEF QueueInv, Queue!Null
<1>0. Len(q_done) \in Nat /\ First \in Nat /\ First >= 1
    BY DEF QueueType, First, One
<1>1. CASE Queue!enqueue
    <2>1. /\ q_added < QueueTasks /\ ~q_stop
          /\ q_alive' = q_alive \cup {q_added + 1} /\ q_added' = q_added + 1
          /\ q_next' = IF q_tail # 0 THEN [q_next EXCEPT ![q_tail] = q_added + 1] ELSE q_next
          /\ q_head' = IF q_tail # 0 THEN q_head ELSE q_added + 1
          /\ q_tail' = q_added + 1
          /\ q_worker' = IF q_worker = "waiting" THEN "woken" ELSE q_worker
          /\ UNCHANGED <<q_stop, q_task, q_joined, q_done>>
        BY <1>1 DEF Queue!enqueue, Queue!Signal
    <2>2. First' = First /\ (q_worker' = "run" <=> q_worker = "run")
        BY <2>1 DEF First, One
    <2>3. QueueType'
        BY <2>1 DEF QueueType
    <2>4. WorkerInv'
        BY <2>1 DEF WorkerInv, QueueType
    <2>5. /\ First' <= q_added' + 1
          /\ q_head' = IF First' > q_added' THEN 0 ELSE First'
          /\ q_tail' = IF First' > q_added' THEN 0 ELSE q_added'
        BY <1>0, <2>1, <2>2 DEF ListInv, QueueType
    <2>6. ASSUME NEW t \in 1..QueueTasks
          PROVE  /\ First' <= t /\ t < q_added' => q_next'[t] = t + 1
                 /\ t >= q_added' => q_next'[t] = 0
        BY <1>0, <2>1, <2>2 DEF ListInv, QueueType
    <2>7. q_alive' = (Len(q_done') + 1)..q_added'
        <3>1. Len(q_done) <= q_added /\ q_added \in Nat
            BY <1>0 DEF ListInv, QueueType, First, One
        <3>2. q_alive = (Len(q_done) + 1)..q_added
            BY DEF ListInv
        <3> HIDE DEF QueueInv
        <3> QED BY <1>0, <2>1, <3>1, <3>2
    <2>8. q_task' = IF q_worker' = "run" THEN Len(q_done') + 1 ELSE 0
        BY <2>1, <2>2 DEF ListInv
    <2>9. \A k \in 1..Len(q_done') : q_done'[k] = k
        BY <2>1 DEF ListInv
    <2> QED BY <2>3, <2>4, <2>5, <2>6, <2>7, <2>8, <2>9 DEF ListInv
<1>2. CASE Queue!RequestStop
    <2>1. First' = First
        BY <1>2 DEF Queue!RequestStop, Queue!Signal, First, One
    <2>2. QueueType' /\ WorkerInv'
        BY <1>2 DEF Queue!RequestStop, Queue!Signal, QueueType, WorkerInv
    <2>3. ListInv'
        BY <1>2, <2>1 DEF Queue!RequestStop, Queue!Signal, ListInv
    <2> QED BY <2>2, <2>3
<1>3. CASE Queue!SpuriousWake
    <2>1. First' = First
        BY <1>3 DEF Queue!SpuriousWake, First, One
    <2>2. QueueType' /\ WorkerInv'
        BY <1>3 DEF Queue!SpuriousWake, QueueType, WorkerInv
    <2>3. ListInv'
        BY <1>3, <2>1 DEF Queue!SpuriousWake, ListInv
    <2> QED BY <2>2, <2>3
<1>4. CASE Queue!Locked /\ q_head = 0
    <2>1. First' = First
        BY <1>4 DEF Queue!Locked, First, One
    <2>2. QueueType' /\ WorkerInv'
        BY <1>4 DEF Queue!Locked, QueueType, WorkerInv
    <2>3. ListInv'
        BY <1>4, <2>1 DEF Queue!Locked, ListInv
    <2> QED BY <2>2, <2>3
<1>5. CASE Queue!Locked /\ q_head # 0
    <2>1. /\ q_worker \in {"lock", "woken"} /\ q_worker' = "run"
          /\ q_task' = q_head /\ q_head' = q_next[q_head]
          /\ q_tail' = IF q_next[q_head] = 0 THEN 0 ELSE q_tail
          /\ UNCHANGED <<q_next, q_alive, q_stop, q_added, q_joined, q_done>>
        BY <1>5 DEF Queue!Locked, Queue!dequeue
    <2>2. First' = First + 1 /\ First = Len(q_done) + 1
        BY <1>0, <2>1 DEF First, One
    <2>3. First <= q_added /\ q_head = First /\ q_tail = q_added /\ First \in 1..QueueTasks
        BY <1>0, <1>5 DEF ListInv, QueueType
    <2>4. q_next[First] = IF First < q_added THEN First + 1 ELSE 0
        BY <2>3 DEF ListInv, QueueType
    <2>5. QueueType'
        BY <2>1, <2>3 DEF QueueType
    <2>6. WorkerInv'
        BY <2>1 DEF WorkerInv
    <2>7. /\ First' <= q_added' + 1
          /\ q_head' = IF First' > q_added' THEN 0 ELSE First'
          /\ q_tail' = IF First' > q_added' THEN 0 ELSE q_added'
        BY <2>1, <2>2, <2>3, <2>4 DEF QueueType
    <2>8. ASSUME NEW t \in 1..QueueTasks
          PROVE  /\ First' <= t /\ t < q_added' => q_next'[t] = t + 1
                 /\ t >= q_added' => q_next'[t] = 0
        BY <2>1, <2>2, <2>3 DEF ListInv, QueueType
    <2> QED BY <2>1, <2>2, <2>3, <2>5, <2>6, <2>7, <2>8 DEF ListInv
<1>6. CASE Queue!Run
    <2>1. /\ q_worker = "run" /\ q_worker' = "lock"
          /\ q_done' = Append(q_done, q_task) /\ q_alive' = q_alive \ {q_task}
          /\ q_task' = 0
          /\ UNCHANGED <<q_head, q_tail, q_next, q_stop, q_added, q_joined>>
        BY <1>6 DEF Queue!Run
    <2>2. q_task = Len(q_done) + 1
        BY <2>1 DEF ListInv
    <2>3. QueueType' /\ Len(q_done') = Len(q_done) + 1
        BY <1>0, <2>1, <2>2 DEF QueueType
    <2>4. First' = First
        BY <1>0, <2>1, <2>3 DEF First, One
    <2>5. WorkerInv'
        BY <2>1 DEF WorkerInv
    <2>6. q_alive' = (Len(q_done') + 1)..q_added'
        BY <1>0, <2>1, <2>2, <2>3 DEF ListInv, QueueType
    <2>7. \A k \in 1..Len(q_done') : q_done'[k] = k
        BY <1>0, <2>1, <2>2, <2>3 DEF ListInv, QueueType
    <2> QED BY <2>1, <2>3, <2>4, <2>5, <2>6, <2>7 DEF ListInv
<1>7. CASE Queue!Join
    <2>1. First' = First
        BY <1>7 DEF Queue!Join, First
    <2>2. QueueType' /\ WorkerInv'
        BY <1>7 DEF Queue!Join, QueueType, WorkerInv
    <2>3. ListInv'
        <3>1. UNCHANGED <<q_head, q_tail, q_next, q_alive, q_task, q_added, q_done, q_worker>>
            BY <1>7 DEF Queue!Join
        <3>2. ListInv
            OBVIOUS
        <3> HIDE DEF QueueInv
        <3> QED BY <2>1, <3>1, <3>2, Zenon DEF ListInv
    <2> QED BY <2>2, <2>3
<1> QED BY <1>1, <1>2, <1>3, <1>4, <1>5, <1>6, <1>7 DEF Queue!Next

\* The invariant gives what the task queue promises.
LEMMA QueuePromise ==
    ASSUME QueueInv
    PROVE  Queue!Correct
<1> USE ServicesAssumption DEF QueueInv, Queue!Null
<1>0. Len(q_done) \in Nat /\ First \in Nat /\ First >= 1
    BY DEF QueueType, First, One
<1>1. q_worker = "waiting" => q_head = 0 /\ ~q_stop
    BY DEF WorkerInv
<1>2. /\ q_head # 0 => q_head \in q_alive
      /\ q_tail # 0 => q_tail \in q_alive /\ q_next[q_tail] = 0
      /\ q_head = 0 <=> q_tail = 0
    <2>1. First >= Len(q_done) + 1
        BY <1>0 DEF First, One
    <2> QED BY <1>0, <2>1 DEF ListInv, QueueType
<1>3. q_done = [k \in 1..Len(q_done) |-> k]
    <2>1. q_done = [k \in 1..Len(q_done) |-> q_done[k]]
        BY DEF QueueType
    <2> QED BY <2>1, Zenon DEF ListInv
<1>4. q_joined => Len(q_done) = QueueTasks /\ q_alive = {}
    <2> SUFFICES ASSUME q_joined PROVE Len(q_done) = QueueTasks /\ q_alive = {}
        OBVIOUS
    <2>1. q_worker = "end" /\ q_head = 0 /\ q_added = QueueTasks
        BY DEF WorkerInv
    <2>2. First = Len(q_done) + 1
        BY <1>0, <2>1 DEF First, One
    <2>3. Len(q_done) = QueueTasks
        BY <1>0, <2>1, <2>2 DEF ListInv, QueueType
    <2> QED BY <2>1, <2>3 DEF ListInv
<1> QED BY <1>1, <1>2, <1>3, <1>4, Zenon DEF Queue!Correct, Queue!Null

-----------------------------------------------------------------------------
(* The coroutine loop. *)

LoopType ==
    /\ e_next \in Nat \ {0}
    /\ e_state \in [LoopTask -> {"created", "suspended", "running", "done", "destroyed"}]
    /\ e_token \in [LoopTask -> Nat]
    /\ e_waiting \in [DOMAIN e_waiting -> [fd : LoopFd, task : LoopTask]]
    /\ e_epoll \in [DOMAIN e_epoll -> DOMAIN e_waiting]
    /\ e_seen \in [DOMAIN e_seen -> [fd : LoopFd, task : LoopTask]]
    /\ e_batch \in Seq(DOMAIN e_seen)

\* waiting_, the kernel and the suspended coroutines agree.
Registered ==
    /\ DOMAIN e_waiting = {e_token[t] : t \in Loop!Suspended}
    /\ \A t \in Loop!Suspended : e_waiting[e_token[t]].task = t
    /\ \A k \in DOMAIN e_waiting : /\ e_waiting[k].fd \in DOMAIN e_epoll
                                   /\ e_epoll[e_waiting[k].fd] = k
    /\ DOMAIN e_epoll = {e_waiting[k].fd : k \in DOMAIN e_waiting}

\* Tokens are used once: a token that the batch was filled with is below the
\* next one, so if it is in waiting_ it is for the wait it was filled for.
Fresh ==
    /\ \A k \in DOMAIN e_waiting \cup DOMAIN e_seen : k \in Nat /\ k < e_next
    /\ \A k \in DOMAIN e_waiting \cap DOMAIN e_seen : e_waiting[k] = e_seen[k]
    /\ ~e_stale

Phases ==
    /\ e_at \in {"run", "ended"} => \A t \in LoopTask : e_state[t] # "created"
    /\ e_at = "ended" => /\ DOMAIN e_waiting = {}
                         /\ \A t \in LoopTask : e_state[t] # "running"

LoopInv == LoopType /\ Registered /\ Fresh /\ Phases

\* The waits, their registrations and the events of the batch.
waits == <<e_waiting, e_epoll, e_token, e_batch, e_seen, e_stale>>

\* Before main starts the first task nothing is awaited.
LEMMA LoopInit ==
    ASSUME Loop!Init
    PROVE  LoopInv
<1> USE DEF Loop!Init, Loop!Empty
<1>1. LoopType
    BY DEF LoopType
<1>2. DOMAIN e_waiting = {} /\ DOMAIN e_epoll = {} /\ DOMAIN e_seen = {}
    OBVIOUS
<1>3. Loop!Suspended = {}
    BY DEF Loop!Suspended
<1>4. Registered
    BY <1>2, <1>3 DEF Registered
<1>5. Fresh
    BY <1>2 DEF Fresh
<1>6. Phases
    BY DEF Phases
<1> QED BY <1>1, <1>4, <1>5, <1>6 DEF LoopInv

\* A step that leaves the waits and the suspended coroutines alone keeps the
\* registrations, and the tokens stay fresh when the next one does not fall.
LEMMA SameWaits ==
    ASSUME LoopInv, UNCHANGED waits, Loop!Suspended' = Loop!Suspended,
           e_next' \in Nat, e_next' >= e_next,
           e_state' \in [LoopTask -> {"created", "suspended", "running", "done", "destroyed"}]
    PROVE  LoopType' /\ Registered' /\ Fresh'
<1> USE DEF LoopInv, waits
<1>1. LoopType'
    BY DEF LoopType
<1>2. Registered'
    BY DEF Registered
<1>3. Fresh'
    BY DEF Fresh, LoopType
<1> QED BY <1>1, <1>2, <1>3

\* The coroutine that a suspended one becomes leaves the others suspended.
LEMMA LeavesSuspended ==
    ASSUME NEW u \in LoopTask, NEW s \in {"running", "done", "destroyed"},
           e_state \in [LoopTask -> {"created", "suspended", "running", "done", "destroyed"}],
           e_state' = [e_state EXCEPT ![u] = s]
    PROVE  /\ e_state' \in [LoopTask -> {"created", "suspended", "running", "done", "destroyed"}]
           /\ Loop!Suspended' = Loop!Suspended \ {u}
           /\ \A t \in LoopTask : e_state'[t] = "created" => e_state[t] = "created"
BY DEF Loop!Suspended

\* cancel() of a suspended coroutine's wait takes its entry out of waiting_ and of
\* the kernel and leaves every other one.
LEMMA Cancelled ==
    ASSUME LoopInv, NEW u \in Loop!Suspended,
           Loop!cancel(e_token[u]), e_token' = e_token,
           Loop!Suspended' = Loop!Suspended \ {u}
    PROVE  /\ Registered'
           /\ DOMAIN e_waiting' = DOMAIN e_waiting \ {e_token[u]}
           /\ \A k \in DOMAIN e_waiting' : e_waiting'[k] = e_waiting[k]
           /\ e_waiting' \in [DOMAIN e_waiting' -> [fd : LoopFd, task : LoopTask]]
           /\ e_epoll' \in [DOMAIN e_epoll' -> DOMAIN e_waiting']
<1> DEFINE g == e_token[u]
<1> USE DEF LoopInv
<1>1. u \in LoopTask /\ g \in DOMAIN e_waiting
    BY DEF Registered, Loop!Suspended
<1>2. /\ e_waiting' = [k \in DOMAIN e_waiting \ {g} |-> e_waiting[k]]
      /\ e_epoll' = [f \in DOMAIN e_epoll \ {e_waiting[g].fd} |-> e_epoll[f]]
    BY <1>1 DEF Loop!cancel, Loop!Without, Loop!Restrict
<1> HIDE DEF g
<1>3. \A t \in Loop!Suspended : t # u => e_token[t] # g
    BY DEF Registered, g
<1>4. DOMAIN e_waiting' = {e_token[t] : t \in Loop!Suspended \ {u}}
    BY <1>2, <1>3 DEF Registered, g
<1>5. \A k \in DOMAIN e_waiting' : e_waiting'[k] = e_waiting[k] /\ k \in DOMAIN e_waiting /\ k # g
    BY <1>2
<1>6. \A k \in DOMAIN e_waiting' : /\ e_waiting[k].fd # e_waiting[g].fd
                                   /\ e_waiting[k].fd \in DOMAIN e_epoll
                                   /\ e_epoll[e_waiting[k].fd] = k
    BY <1>1, <1>5 DEF Registered
<1>7. DOMAIN e_epoll' = {e_waiting'[k].fd : k \in DOMAIN e_waiting'}
    <2>1. ASSUME NEW f \in DOMAIN e_epoll'
          PROVE  \E k \in DOMAIN e_waiting' : f = e_waiting'[k].fd
        <3>1. f \in DOMAIN e_epoll /\ f # e_waiting[g].fd
            BY <1>2
        <3>2. PICK k \in DOMAIN e_waiting : f = e_waiting[k].fd
            BY <3>1 DEF Registered
        <3> QED BY <1>2, <3>1, <3>2
    <2>2. ASSUME NEW k \in DOMAIN e_waiting'
          PROVE  e_waiting'[k].fd \in DOMAIN e_epoll'
        BY <1>2, <1>5, <1>6
    <2> QED BY <2>1, <2>2
<1>8. Registered'
    <2>1. \A t \in Loop!Suspended' : e_waiting'[e_token'[t]].task = t
        BY <1>3, <1>4, <1>5 DEF Registered
    <2>2. \A k \in DOMAIN e_waiting' : /\ e_waiting'[k].fd \in DOMAIN e_epoll'
                                       /\ e_epoll'[e_waiting'[k].fd] = k
        BY <1>2, <1>5, <1>6
    <2> QED BY <1>4, <1>7, <2>1, <2>2 DEF Registered
<1>9. e_waiting' \in [DOMAIN e_waiting' -> [fd : LoopFd, task : LoopTask]]
    BY <1>2 DEF LoopType
<1>10. e_epoll' \in [DOMAIN e_epoll' -> DOMAIN e_waiting']
    <2>1. ASSUME NEW f \in DOMAIN e_epoll'
          PROVE  e_epoll'[f] \in DOMAIN e_waiting'
        <3>1. PICK k \in DOMAIN e_waiting' : f = e_waiting'[k].fd
            BY <1>7
        <3> QED BY <3>1, <1>8 DEF Registered
    <2> QED BY <1>2, <2>1
<1> QED BY <1>2, <1>5, <1>8, <1>9, <1>10 DEF g

\* watch() enters a token that no wait and no event of the batch has had.
LEMMA Awaited ==
    ASSUME LoopInv, NEW t \in LoopTask, NEW fd \in LoopFd, Loop!Await(t, fd)
    PROVE  LoopType' /\ Registered' /\ Fresh'
<1> USE DEF LoopInv
<1>1. /\ e_state[t] = "running" /\ fd \notin DOMAIN e_epoll
      /\ e_next' = e_next + 1
      /\ e_waiting' = [k \in DOMAIN e_waiting \cup {e_next} |->
                         IF k = e_next THEN [fd |-> fd, task |-> t] ELSE e_waiting[k]]
      /\ e_epoll' = [f \in DOMAIN e_epoll \cup {fd} |-> IF f = fd THEN e_next ELSE e_epoll[f]]
      /\ e_token' = [e_token EXCEPT ![t] = e_next]
      /\ e_state' = [e_state EXCEPT ![t] = "suspended"]
      /\ UNCHANGED <<e_batch, e_seen, e_stale>>
    BY DEF Loop!Await, Loop!watch, Loop!With
<1>2. e_next \notin DOMAIN e_waiting /\ e_next \notin DOMAIN e_seen /\ e_next \in Nat
    BY DEF Fresh, LoopType
<1>3. Loop!Suspended' = Loop!Suspended \cup {t} /\ t \notin Loop!Suspended
    BY <1>1 DEF LoopType, Loop!Suspended
<1>4. /\ e_token'[t] = e_next
      /\ \A u \in Loop!Suspended : e_token'[u] = e_token[u] /\ u # t /\ u \in LoopTask
    BY <1>1, <1>3 DEF LoopType, Loop!Suspended
<1>5. /\ DOMAIN e_waiting' = DOMAIN e_waiting \cup {e_next}
      /\ e_waiting'[e_next] = [fd |-> fd, task |-> t]
      /\ \A k \in DOMAIN e_waiting : e_waiting'[k] = e_waiting[k]
    BY <1>1, <1>2
<1>6. /\ DOMAIN e_epoll' = DOMAIN e_epoll \cup {fd}
      /\ e_epoll'[fd] = e_next
      /\ \A f \in DOMAIN e_epoll : e_epoll'[f] = e_epoll[f] /\ f # fd
    BY <1>1
<1>7. Registered'
    <2>1. DOMAIN e_waiting' = {e_token'[u] : u \in Loop!Suspended'}
        <3>1. {e_token'[u] : u \in Loop!Suspended'} = {e_token'[u] : u \in Loop!Suspended} \cup {e_token'[t]}
            BY <1>3
        <3>2. {e_token'[u] : u \in Loop!Suspended} = {e_token[u] : u \in Loop!Suspended}
            BY <1>4
        <3> QED BY <1>4, <1>5, <3>1, <3>2 DEF Registered
    <2>2. \A u \in Loop!Suspended' : e_waiting'[e_token'[u]].task = u
        <3>1. \A u \in Loop!Suspended : e_token[u] \in DOMAIN e_waiting /\ e_waiting[e_token[u]].task = u
            BY DEF Registered
        <3> QED BY <1>3, <1>4, <1>5, <3>1
    <2>3. \A k \in DOMAIN e_waiting' : /\ e_waiting'[k].fd \in DOMAIN e_epoll'
                                       /\ e_epoll'[e_waiting'[k].fd] = k
        BY <1>5, <1>6 DEF Registered
    <2>4. DOMAIN e_epoll' = {e_waiting'[k].fd : k \in DOMAIN e_waiting'}
        <3>1. {e_waiting'[k].fd : k \in DOMAIN e_waiting'}
              = {e_waiting'[k].fd : k \in DOMAIN e_waiting} \cup {e_waiting'[e_next].fd}
            BY <1>5
        <3>2. {e_waiting'[k].fd : k \in DOMAIN e_waiting} = {e_waiting[k].fd : k \in DOMAIN e_waiting}
            BY <1>5
        <3> QED BY <1>5, <1>6, <3>1, <3>2 DEF Registered
    <2> QED BY <2>1, <2>2, <2>3, <2>4 DEF Registered
<1>8. LoopType'
    <2>1. e_waiting' \in [DOMAIN e_waiting' -> [fd : LoopFd, task : LoopTask]]
        BY <1>1, <1>5 DEF LoopType
    <2>2. e_epoll' \in [DOMAIN e_epoll' -> DOMAIN e_waiting']
        BY <1>1, <1>5, <1>6 DEF LoopType
    <2> QED BY <1>1, <2>1, <2>2 DEF LoopType
<1>9. Fresh'
    BY <1>1, <1>2, <1>5 DEF Fresh, LoopType
<1> QED BY <1>7, <1>8, <1>9

\* A step of the loop keeps its invariant.
LEMMA LoopStep ==
    ASSUME LoopInv, Loop!Next
    PROVE  LoopInv'
<1> DEFINE States == {"created", "suspended", "running", "done", "destroyed"}
<1>0. LoopType /\ Registered /\ Fresh /\ Phases /\ e_next \in Nat
    BY DEF LoopInv, LoopType
<1>1. CASE Loop!StartRun
    <2>1. UNCHANGED waits /\ Loop!Suspended' = Loop!Suspended /\ e_next' = e_next /\ e_state' = e_state
        BY <1>1 DEF Loop!StartRun, waits, Loop!Suspended
    <2>2. LoopType' /\ Registered' /\ Fresh'
        BY <1>0, <2>1, SameWaits DEF LoopType
    <2>3. Phases'
        BY <1>1 DEF Loop!StartRun, Phases
    <2> QED BY <2>2, <2>3 DEF LoopInv
<1>2. CASE Loop!EpollWait
    <2>1. /\ e_seen' = e_waiting /\ e_at = "run"
          /\ UNCHANGED <<e_next, e_waiting, e_epoll, e_state, e_token, e_at, e_stale>>
        BY <1>2 DEF Loop!EpollWait
    <2>2. PICK n \in Int :
            \E perm \in Loop!Injection(1..n, DOMAIN e_epoll) :
                e_batch' = [k \in 1..n |-> e_epoll[perm[k]]] /\ n >= 1
        BY <1>2 DEF Loop!EpollWait
    <2>3. PICK perm \in [1..n -> DOMAIN e_epoll] : e_batch' = [k \in 1..n |-> e_epoll[perm[k]]]
        BY <2>2 DEF Loop!Injection
    <2>4. e_batch' \in Seq(DOMAIN e_waiting)
        <3>1. \A k \in 1..n : e_epoll[perm[k]] \in DOMAIN e_waiting
            BY <1>0 DEF LoopType
        <3> QED BY <2>2, <2>3, <3>1
    <2>5. LoopType' /\ Fresh' /\ Phases'
        BY <1>0, <2>1, <2>4 DEF LoopType, Fresh, Phases
    <2>6. Registered'
        BY <1>0, <2>1 DEF Registered, Loop!Suspended
    <2> QED BY <2>5, <2>6 DEF LoopInv
<1>3. CASE Loop!Timeout
    <2>1. UNCHANGED waits /\ Loop!Suspended' = Loop!Suspended /\ e_next' = e_next /\ e_state' = e_state
        BY <1>3 DEF Loop!Timeout, waits, Loop!Suspended
    <2>2. LoopType' /\ Registered' /\ Fresh'
        BY <1>0, <2>1, SameWaits DEF LoopType
    <2>3. Phases'
        BY <1>3 DEF Loop!Timeout, Phases
    <2> QED BY <2>2, <2>3 DEF LoopInv
<1>4. CASE Loop!EndRun
    <2>1. UNCHANGED waits /\ Loop!Suspended' = Loop!Suspended /\ e_next' = e_next /\ e_state' = e_state
        BY <1>4 DEF Loop!EndRun, waits, Loop!Suspended
    <2>2. LoopType' /\ Registered' /\ Fresh'
        BY <1>0, <2>1, SameWaits DEF LoopType
    <2>3. Phases'
        <3>1. e_at = "run" /\ e_waiting' = Loop!Empty /\ e_state' = e_state
              /\ \A t \in LoopTask : e_state[t] # "running"
            BY <1>4 DEF Loop!EndRun, Loop!Idle
        <3>2. DOMAIN e_waiting' = {}
            BY <3>1 DEF Loop!Empty
        <3> QED BY <1>0, <3>1, <3>2 DEF Phases
    <2> QED BY <2>2, <2>3 DEF LoopInv
<1>5. CASE Loop!Handle
    <2> DEFINE k == e_batch[1]
    <2>1. /\ e_at = "run" /\ e_batch # <<>> /\ e_batch' = Tail(e_batch)
          /\ UNCHANGED <<e_next, e_token, e_at, e_seen>>
        BY <1>5 DEF Loop!Handle
    <2>2. k \in DOMAIN e_seen /\ e_batch' \in Seq(DOMAIN e_seen')
        BY <1>0, <2>1 DEF LoopType
    <2>3. CASE k \notin DOMAIN e_waiting
        <3>1. UNCHANGED <<e_waiting, e_epoll, e_state, e_stale>>
            BY <1>5, <2>3 DEF Loop!Handle
        <3>2. LoopType' /\ Fresh' /\ Phases'
            BY <1>0, <2>1, <2>2, <3>1 DEF LoopType, Fresh, Phases
        <3>3. Registered'
            BY <1>0, <2>1, <3>1 DEF Registered, Loop!Suspended
        <3> QED BY <3>2, <3>3 DEF LoopInv
    <2>4. CASE k \in DOMAIN e_waiting
        <3>1. PICK u \in Loop!Suspended : k = e_token[u] /\ e_waiting[k].task = u /\ u \in LoopTask
            BY <1>0, <2>4 DEF Registered, Loop!Suspended
        <3>2. /\ Loop!cancel(e_token[u])
              /\ e_state' = [e_state EXCEPT ![u] = "running"]
              /\ e_stale' = (e_stale \/ e_waiting[k] # e_seen[k])
            BY <1>5, <2>4, <3>1 DEF Loop!Handle
        <3>3. /\ e_state' \in [LoopTask -> States]
              /\ Loop!Suspended' = Loop!Suspended \ {u}
              /\ \A t \in LoopTask : e_state'[t] = "created" => e_state[t] = "created"
            BY <1>0, <3>1, <3>2, LeavesSuspended DEF LoopType
        <3>4. /\ Registered'
              /\ DOMAIN e_waiting' = DOMAIN e_waiting \ {e_token[u]}
              /\ \A l \in DOMAIN e_waiting' : e_waiting'[l] = e_waiting[l]
              /\ e_waiting' \in [DOMAIN e_waiting' -> [fd : LoopFd, task : LoopTask]]
              /\ e_epoll' \in [DOMAIN e_epoll' -> DOMAIN e_waiting']
            BY <2>1, <3>1, <3>2, <3>3, Cancelled
        <3>5. ~e_stale'
            BY <1>0, <2>2, <2>4, <3>2 DEF Fresh
        <3>6. LoopType'
            BY <1>0, <2>1, <2>2, <3>3, <3>4 DEF LoopType
        <3>7. Fresh'
            BY <1>0, <2>1, <3>4, <3>5 DEF Fresh
        <3>8. Phases'
            BY <1>0, <2>1, <3>3 DEF Phases
        <3> QED BY <3>4, <3>6, <3>7, <3>8 DEF LoopInv
    <2> QED BY <2>3, <2>4
<1>6. ASSUME NEW t \in LoopTask, e_at \in {"start", "run"}, Loop!Start(t) \/ Loop!Finish(t)
      PROVE  LoopInv'
    <2>1. /\ UNCHANGED waits /\ e_next' = e_next /\ e_at' = e_at
          /\ e_state[t] # "suspended"
          /\ \/ e_state' = [e_state EXCEPT ![t] = "running"]
             \/ e_state' = [e_state EXCEPT ![t] = "done"]
        BY <1>6 DEF Loop!Start, Loop!Finish, waits
    <2>2. /\ e_state' \in [LoopTask -> States]
          /\ Loop!Suspended' = Loop!Suspended \ {t}
          /\ \A u \in LoopTask : e_state'[u] = "created" => e_state[u] = "created"
        BY <1>0, <2>1, LeavesSuspended DEF LoopType
    <2>3. Loop!Suspended' = Loop!Suspended
        BY <2>1, <2>2 DEF Loop!Suspended
    <2>4. LoopType' /\ Registered' /\ Fresh'
        BY <1>0, <2>1, <2>2, <2>3, SameWaits
    <2>5. Phases'
        BY <1>0, <1>6, <2>1, <2>2 DEF Phases
    <2> QED BY <2>4, <2>5 DEF LoopInv
<1>7. ASSUME NEW t \in LoopTask, NEW fd \in LoopFd, e_at \in {"start", "run"}, Loop!Await(t, fd)
      PROVE  LoopInv'
    <2>1. e_state' = [e_state EXCEPT ![t] = "suspended"] /\ e_at' = e_at
        BY <1>7 DEF Loop!Await
    <2>2. Phases'
        BY <1>0, <1>7, <2>1 DEF Phases, LoopType
    <2> QED BY <1>7, <2>2, Awaited DEF LoopInv
<1>8. ASSUME NEW t \in LoopTask, NEW fd \in LoopFd, Loop!AwaitFails(t, fd)
      PROVE  LoopInv'
    <2>1. /\ UNCHANGED waits /\ e_next' = e_next + 1 /\ e_at' = "failed"
          /\ e_state[t] = "running" /\ e_state' = [e_state EXCEPT ![t] = "done"]
        BY <1>8 DEF Loop!AwaitFails, waits
    <2>2. e_state' \in [LoopTask -> States] /\ Loop!Suspended' = Loop!Suspended \ {t}
        BY <1>0, <2>1, LeavesSuspended DEF LoopType
    <2>3. Loop!Suspended' = Loop!Suspended
        BY <2>1, <2>2 DEF Loop!Suspended
    <2>4. LoopType' /\ Registered' /\ Fresh'
        BY <1>0, <2>1, <2>2, <2>3, SameWaits
    <2>5. Phases'
        BY <2>1 DEF Phases
    <2> QED BY <2>4, <2>5 DEF LoopInv
<1>9. ASSUME NEW t \in LoopTask, NEW u \in LoopTask, e_at \in {"start", "run"}, Loop!Destroy(t, u)
      PROVE  LoopInv'
    <2>1. /\ u \in Loop!Suspended /\ Loop!cancel(e_token[u])
          /\ e_state' = [e_state EXCEPT ![u] = "destroyed"]
          /\ UNCHANGED <<e_next, e_batch, e_token, e_at, e_seen, e_stale>>
        BY <1>9 DEF Loop!Destroy, Loop!Suspended
    <2>2. /\ e_state' \in [LoopTask -> States]
          /\ Loop!Suspended' = Loop!Suspended \ {u}
          /\ \A v \in LoopTask : e_state'[v] = "created" => e_state[v] = "created"
        BY <1>0, <2>1, LeavesSuspended DEF LoopType
    <2>3. /\ Registered'
          /\ DOMAIN e_waiting' = DOMAIN e_waiting \ {e_token[u]}
          /\ \A l \in DOMAIN e_waiting' : e_waiting'[l] = e_waiting[l]
          /\ e_waiting' \in [DOMAIN e_waiting' -> [fd : LoopFd, task : LoopTask]]
          /\ e_epoll' \in [DOMAIN e_epoll' -> DOMAIN e_waiting']
        BY <2>1, <2>2, Cancelled
    <2>4. LoopType'
        BY <1>0, <2>1, <2>2, <2>3 DEF LoopType
    <2>5. Fresh'
        BY <1>0, <2>1, <2>3 DEF Fresh
    <2>6. Phases'
        BY <1>0, <1>9, <2>1, <2>2 DEF Phases
    <2> QED BY <2>3, <2>4, <2>5, <2>6 DEF LoopInv
<1> QED BY <1>1, <1>2, <1>3, <1>4, <1>5, <1>6, <1>7, <1>8, <1>9 DEF Loop!Next

\* The invariant gives what the loop promises.
LEMMA LoopPromise ==
    ASSUME LoopInv
    PROVE  Loop!Correct
<1> USE DEF LoopInv
<1>1. ASSUME e_at = "ended", NEW t \in LoopTask
      PROVE  e_state[t] \in {"done", "destroyed"}
    <2>1. t \notin Loop!Suspended
        BY <1>1 DEF Phases, Registered
    <2>2. e_state[t] # "created" /\ e_state[t] # "running"
        BY <1>1 DEF Phases
    <2>3. e_state[t] \in {"created", "suspended", "running", "done", "destroyed"}
        BY DEF LoopType
    <2> QED BY <2>1, <2>2, <2>3 DEF Loop!Suspended
<1> QED BY <1>1 DEF Registered, Fresh, Loop!Correct

-----------------------------------------------------------------------------
(* The programs side by side. *)

ServicesInv == BufferInv /\ QueueInv /\ LoopInv

\* Whatever program a behaviour runs, the three invariants hold throughout.
LEMMA ServicesSafe == Spec => []ServicesInv
<1>1. Init => ServicesInv
    BY BufferInit, QueueInit, LoopInit DEF Init, ServicesInv
<1>2. ServicesInv /\ [Next]_vars => ServicesInv'
    <2> SUFFICES ASSUME ServicesInv, [Next]_vars
                 PROVE  ServicesInv'
        OBVIOUS
    <2>1. BufferInv'
        <3>1. CASE Buffer!Next
            BY <3>1, ProducerStep, ConsumerStep DEF ServicesInv, Buffer!Next
        <3>2. CASE UNCHANGED buffer
            BY <3>2 DEF ServicesInv, buffer, BufferInv, BufferType, Semaphores, RingOrder, InRing,
                        Place, One
        <3> QED BY <3>1, <3>2 DEF Next, vars
    <2>2. QueueInv'
        <3>1. CASE Queue!Next
            BY <3>1, QueueStep DEF ServicesInv
        <3>2. CASE UNCHANGED queue
            BY <3>2 DEF ServicesInv, queue, QueueInv, QueueType, ListInv, WorkerInv, First, One
        <3> QED BY <3>1, <3>2 DEF Next, vars
    <2>3. LoopInv'
        <3>1. CASE Loop!Next
            BY <3>1, LoopStep DEF ServicesInv
        <3>2. CASE UNCHANGED loop
            <4>1. UNCHANGED waits /\ UNCHANGED <<e_next, e_state, e_at>>
                BY <3>2 DEF loop, waits
            <4>2. Loop!Suspended' = Loop!Suspended
                BY <4>1 DEF Loop!Suspended
            <4>3. LoopType' /\ Registered' /\ Fresh'
                BY <4>1, <4>2, SameWaits DEF ServicesInv, LoopInv, LoopType
            <4>4. Phases'
                BY <4>1 DEF waits, ServicesInv, LoopInv, Phases
            <4> QED BY <4>3, <4>4 DEF LoopInv
        <3> QED BY <3>1, <3>2 DEF Next, vars
    <2> QED BY <2>1, <2>2, <2>3 DEF ServicesInv
<1> QED BY <1>1, <1>2, PTL DEF Spec

\* Of any length of ring, number of items and number of tasks: the bounded buffer
\* and the task queue hand over everything in order, never wait for each other
\* or on work that is there, and never use a freed node.
THEOREM QueuesHold == Spec => []QueuesCorrect
<1>1. ServicesInv => QueuesCorrect
    BY BufferPromise, QueuePromise DEF ServicesInv, QueuesCorrect
<1> QED BY <1>1, ServicesSafe, PTL

\* With any coroutines and descriptors: a suspended coroutine is registered under
\* one token, no event resumes a wait that it was not for, and the loop does not
\* end on a suspended coroutine.
THEOREM LoopHolds == Spec => []LoopCorrect
<1>1. ServicesInv => LoopCorrect
    BY LoopPromise DEF ServicesInv, LoopCorrect
<1> QED BY <1>1, ServicesSafe, PTL

-----------------------------------------------------------------------------
(* The shared pointers. *)

Holding == PtrObject \cup {"null"}
Job == [at : Shared!Pointer \cup {<<>>}, obj : Holding, from : Shared!Pointer \cup {<<>>},
        move : BOOLEAN, new : Holding]

PtrType ==
    /\ r_ptr \in [Shared!Pointer -> Holding] /\ r_pending \in [PtrThread -> Job]
    /\ r_cnt \in [PtrObject -> Nat] /\ r_deletes \in [PtrObject -> Nat]
    /\ r_created \subseteq PtrObject

\* The pointers that _ref_cnt counts: a release has given its own up already.
Counted(o) == {p \in Shared!Pointer : r_ptr[p] = o /\ r_pending[p[1]].at # p}

\* What j lets its pointer have.
Gets(j) == IF j.from # <<>> THEN r_ptr[j.from] ELSE j.new

\* An assignment of thread t reads a pointer that has an object and is not itself being
\* assigned to, and a new object is in no pointer.
GoodJob(t, j) ==
    /\ j \in Job /\ j.at \in Shared!Own(t)
    /\ \/ j.from = <<>> /\ j.move = FALSE
       \/ /\ j.from \in Shared!Pointer /\ j.from # j.at /\ r_ptr[j.from] # "null"
          /\ j.new = "null" /\ r_pending[j.from[1]].at # j.from
          /\ j.move = TRUE => j.from \in Shared!Own(t)
    /\ j.new # "null" => \A q \in Shared!Pointer : r_ptr[q] # j.new

JobInv ==
    \A t \in PtrThread : r_pending[t] # Shared!Idle =>
        /\ GoodJob(t, r_pending[t])
        /\ r_pending[t].obj \in PtrObject /\ r_ptr[r_pending[t].at] = r_pending[t].obj
        /\ r_pending[t].from # <<>> => r_pending[t].from \in Shared!Own(t)

\* The object's count is right, and it is deleted only when the count is 0.
CountInv ==
    \A o \in PtrObject : /\ r_cnt[o] = Cardinality(Counted(o))
                         /\ r_deletes[o] > 0 => Counted(o) = {}

\* Without two releases of o at a time, the one there is finds it alive.
RaceInv ==
    \A o \in PtrObject : o \notin r_raced =>
        /\ \A t, u \in PtrThread : r_pending[t].obj = o /\ r_pending[u].obj = o => t = u
        /\ \A t \in PtrThread : r_pending[t].obj = o => r_deletes[o] = 0
        /\ r_deletes[o] <= 1

\* An object is nowhere before it is created, and once it is in no pointer a thread still has
\* to delete it or to take it.
LifeInv ==
    /\ \A o \in PtrObject \ r_created :
        /\ r_deletes[o] = 0 /\ \A p \in Shared!Pointer : r_ptr[p] # o
        /\ \A t \in PtrThread : r_pending[t].new # o
    /\ \A o \in r_created : r_deletes[o] = 0 /\ Counted(o) = {} =>
        \E t \in PtrThread : r_pending[t].obj = o \/ r_pending[t].new = o
    /\ \A t \in PtrThread, o \in PtrObject : r_pending[t].new = o =>
        r_deletes[o] = 0 /\ \A u \in PtrThread : r_pending[u].new = o => u = t

SharedInv == PtrType /\ JobInv /\ CountInv /\ RaceInv /\ LifeInv

\* The set of pointers is finite, and so is what a count counts.
LEMMA CountedFinite ==
    ASSUME NEW o
    PROVE  IsFiniteSet(Counted(o))
<1>1. IsFiniteSet({1, 2})
    <2>1. IsFiniteSet({1} \cup {2})
        BY FS_Singleton, FS_AddElement
    <2>2. {1, 2} = {1} \cup {2}
        OBVIOUS
    <2> QED BY <2>1, <2>2
<1>2. IsFiniteSet(Shared!Pointer)
    BY <1>1, PtrAssumption, FS_Product DEF Shared!Pointer
<1>3. Counted(o) \in SUBSET Shared!Pointer
    BY DEF Counted
<1> QED BY <1>2, <1>3, FS_Subset

\* Idle is a job that holds no object and has no target.
LEMMA IdleJob ==
    /\ Shared!Idle \in Job /\ Shared!Idle.at = <<>> /\ Shared!Idle.obj = "null"
    /\ Shared!Idle.new = "null" /\ Shared!Idle.from = <<>> /\ Shared!Idle.move = FALSE
    /\ \A t \in PtrThread : \A p \in Shared!Own(t) : p # <<>> /\ p \in Shared!Pointer /\ p[1] = t
BY DEF Shared!Idle, Shared!Null, Job, Holding, Shared!Own, Shared!Pointer

\* What the jobs of a thread are: an object that is new, a pointer to read, or neither.
LEMMA JobsGood ==
    ASSUME SharedInv, NEW t \in PtrThread, NEW j \in Shared!Jobs(t), r_pending[t] = Shared!Idle
    PROVE  /\ GoodJob(t, j) /\ j.obj = "null"
           /\ j.new # "null" => j.new \in PtrObject \ r_created
           /\ r_ptr[j.at] # "null" /\ j.from # <<>> => j.from \in Shared!Own(t)
<1> USE DEF SharedInv
<1>1. CASE j \in {[Shared!Idle EXCEPT !.at = p] : p \in Shared!Own(t)}
    <2>1. PICK p \in Shared!Own(t) : j = [Shared!Idle EXCEPT !.at = p]
        BY <1>1
    <2>2. j = [at |-> p, obj |-> "null", from |-> <<>>, move |-> FALSE, new |-> "null"]
        BY <2>1 DEF Shared!Idle, Shared!Null
    <2>3. j \in Job
        BY <2>2, IdleJob DEF Job, Holding
    <2> QED BY <2>2, <2>3 DEF GoodJob
<1>2. CASE j \in {[Shared!Idle EXCEPT !.at = x[1], !.new = x[2]] :
                     x \in Shared!Own(t) \X (PtrObject \ r_created)}
    <2>1. PICK p \in Shared!Own(t), o \in PtrObject \ r_created :
               j = [Shared!Idle EXCEPT !.at = p, !.new = o]
        <3>1. PICK x \in Shared!Own(t) \X (PtrObject \ r_created) :
                  j = [Shared!Idle EXCEPT !.at = x[1], !.new = x[2]]
            BY <1>2
        <3>2. x[1] \in Shared!Own(t) /\ x[2] \in PtrObject \ r_created
            OBVIOUS
        <3> QED BY <3>1, <3>2
    <2>2. j = [at |-> p, obj |-> "null", from |-> <<>>, move |-> FALSE, new |-> o]
        BY <2>1 DEF Shared!Idle, Shared!Null
    <2>3. j \in Job
        BY <2>2, IdleJob DEF Job, Holding
    <2>4. \A q \in Shared!Pointer : r_ptr[q] # o
        BY DEF LifeInv
    <2> QED BY <2>2, <2>3, <2>4 DEF GoodJob
<1>3. CASE j \in {[Shared!Idle EXCEPT !.at = x[1], !.from = x[2], !.move = x[3]] :
                     x \in {y \in Shared!Own(t) \X Shared!Pointer \X BOOLEAN :
                         /\ y[1] # y[2] /\ r_ptr[y[2]] # Shared!Null /\ Shared!Settled(y[2])
                         /\ y[2][1] # t => ~y[3] /\ r_ptr[y[1]] = Shared!Null}}
    <2>0. PICK x \in Shared!Own(t) \X Shared!Pointer \X BOOLEAN :
               /\ x[1] # x[2] /\ r_ptr[x[2]] # "null" /\ r_pending[x[2][1]] = Shared!Idle
               /\ x[2][1] # t => ~x[3] /\ r_ptr[x[1]] = "null"
               /\ j = [Shared!Idle EXCEPT !.at = x[1], !.from = x[2], !.move = x[3]]
        BY <1>3 DEF Shared!Settled, Shared!Null
    <2>1. PICK p \in Shared!Own(t), q \in Shared!Pointer, m \in BOOLEAN :
               /\ p # q /\ r_ptr[q] # "null" /\ r_pending[q[1]] = Shared!Idle
               /\ q[1] # t => ~m /\ r_ptr[p] = "null"
               /\ j = [Shared!Idle EXCEPT !.at = p, !.from = q, !.move = m]
        <3>1. x[1] \in Shared!Own(t) /\ x[2] \in Shared!Pointer /\ x[3] \in BOOLEAN
            OBVIOUS
        <3> QED BY <2>0, <3>1
    <2>2. j = [at |-> p, obj |-> "null", from |-> q, move |-> m, new |-> "null"]
        BY <2>1 DEF Shared!Idle, Shared!Null
    <2>3. j \in Job /\ j.at = p /\ j.from = q /\ j.move = m /\ j.new = "null" /\ j.obj = "null"
        BY <2>2, IdleJob DEF Job, Holding
    <2>4. r_pending[q[1]].at # q /\ q # <<>>
        BY <2>1, IdleJob DEF Shared!Pointer
    <2>5. q[1] = t => q \in Shared!Own(t)
        BY DEF Shared!Own
    <2> QED BY <2>1, <2>3, <2>4, <2>5 DEF GoodJob
<1> DEFINE A == {[Shared!Idle EXCEPT !.at = p] : p \in Shared!Own(t)}
           B == {[Shared!Idle EXCEPT !.at = x[1], !.new = x[2]] :
                     x \in Shared!Own(t) \X (PtrObject \ r_created)}
           C == {[Shared!Idle EXCEPT !.at = x[1], !.from = x[2], !.move = x[3]] :
                     x \in {y \in Shared!Own(t) \X Shared!Pointer \X BOOLEAN :
                         /\ y[1] # y[2] /\ r_ptr[y[2]] # Shared!Null /\ Shared!Settled(y[2])
                         /\ y[2][1] # t => ~y[3] /\ r_ptr[y[1]] = Shared!Null}}
<1>4. Shared!Jobs(t) = (A \cup B) \cup C
    BY DEF Shared!Jobs
<1> HIDE DEF A, B, C
<1>5. j \in A \/ j \in B \/ j \in C
    BY <1>4
<1> QED BY <1>1, <1>2, <1>3, <1>5 DEF A, B, C

\* What an acquisition does to the pointers and to the counts.  Its target was not counted,
\* and its thread is idle afterwards.
LEMMA Acquired ==
    ASSUME SharedInv, NEW t \in PtrThread, NEW j, GoodJob(t, j),
           r_ptr[j.at] = "null" \/ r_pending[t].at = j.at,
           Shared!Acquire(j.at, r_ptr, j, r_cnt),
           r_pending' = [r_pending EXCEPT ![t] = Shared!Idle],
           r_pending[t] # Shared!Idle => r_pending[t] = j,
           NEW g, g = Gets(j)
    PROVE  /\ r_ptr' \in [Shared!Pointer -> Holding] /\ r_cnt' \in [PtrObject -> Nat]
           /\ g \in Holding /\ r_ptr'[j.at] = g
           /\ \A q \in Shared!Pointer \ Shared!Own(t) : r_ptr'[q] = r_ptr[q]
           /\ \A q \in Shared!Pointer \ {j.at} : r_ptr'[q] = r_ptr[q] \/ r_ptr'[q] = "null"
           /\ \A o \in PtrObject : r_cnt'[o] = Cardinality(Counted(o)')
           /\ \A o \in PtrObject : Counted(o) = {} /\ o # g => Counted(o)' = {}
           /\ \A o \in PtrObject : Counted(o) # {} \/ o = g => Counted(o)' # {}
<1> USE DEF SharedInv
<1> DEFINE p == j.at
<1>1. /\ p \in Shared!Own(t) /\ p \in Shared!Pointer /\ p[1] = t /\ p # <<>>
      /\ \A q \in Shared!Own(t) : q \in Shared!Pointer /\ q[1] = t
    BY IdleJob DEF GoodJob
<1>2. /\ j.from \in Shared!Pointer \cup {<<>>} /\ j.move \in BOOLEAN /\ g \in Holding
      /\ j.from # <<>> => /\ j.from \in Shared!Pointer /\ j.from # p /\ g = r_ptr[j.from]
                          /\ g # "null" /\ r_pending[j.from[1]].at # j.from
      /\ j.from = <<>> => ~j.move /\ g = j.new
      /\ j.move => j.from \in Shared!Own(t) /\ j.from # <<>>
    <2>1. <<>> \notin Shared!Pointer
        BY DEF Shared!Pointer
    <2> QED BY <2>1 DEF GoodJob, Gets, Job, PtrType
<1>3. /\ r_ptr' = [q \in Shared!Pointer |-> IF q = p THEN g
                                           ELSE IF j.move /\ q = j.from THEN "null" ELSE r_ptr[q]]
      /\ r_cnt' = IF g = "null" \/ j.move THEN r_cnt
                  ELSE [r_cnt EXCEPT ![g] = IF j.from # <<>> THEN @ + 1 ELSE 1]
    BY DEF Shared!Acquire, Shared!Null, Gets
<1>4. /\ \A q \in Shared!Pointer :
           r_ptr'[q] = IF q = p THEN g ELSE IF j.move /\ q = j.from THEN "null" ELSE r_ptr[q]
      /\ r_ptr' \in [Shared!Pointer -> Holding]
    BY <1>2, <1>3 DEF PtrType, Holding
<1>5. \A q \in Shared!Pointer : q[1] \in PtrThread
    BY DEF Shared!Pointer
<1>6. \A q \in Shared!Pointer :
        r_pending'[q[1]].at # q <=> r_pending[q[1]].at # q \/ (q = p /\ r_pending[t].at = p)
    <2> TAKE q \in Shared!Pointer
    <2>1. CASE q[1] # t
        BY <2>1, <1>1, <1>5 DEF PtrType
    <2>2. CASE q[1] = t
        <3>1. r_pending'[t] = Shared!Idle /\ Shared!Idle.at = <<>>
            BY IdleJob DEF PtrType
        <3>2. q # <<>>
            BY DEF Shared!Pointer
        <3>3. r_pending[t].at = q => q = p
            BY <3>1, <3>2
        <3> QED BY <2>2, <3>1, <3>2, <3>3
    <2> QED BY <2>1, <2>2
<1>7. \A o \in PtrObject : p \notin Counted(o) /\ (p \in Counted(o)' <=> o = g)
    BY <1>1, <1>4, <1>6, PtrAssumption DEF Counted
<1>8. ASSUME NEW o \in PtrObject, o # g
      PROVE  Counted(o)' = Counted(o)
    <2>1. \A q \in Shared!Pointer \ {p} : r_ptr'[q] = o <=> r_ptr[q] = o
        BY <1>2, <1>4, <1>8, PtrAssumption
    <2>2. \A q \in Shared!Pointer \ {p} : q \in Counted(o)' <=> q \in Counted(o)
        BY <1>6, <2>1 DEF Counted
    <2>3. Counted(o)' \subseteq Shared!Pointer /\ Counted(o) \subseteq Shared!Pointer
        BY DEF Counted
    <2> QED BY <1>7, <1>8, <2>2, <2>3
<1>9. ASSUME g \in PtrObject
      PROVE  /\ j.move => j.from \in Counted(g) /\ Counted(g)' = (Counted(g) \ {j.from}) \cup {p}
             /\ ~j.move => Counted(g)' = Counted(g) \cup {p}
             /\ j.from = <<>> => Counted(g) = {}
    <2>1. \A q \in Shared!Pointer \ {p} : r_ptr'[q] = g <=> r_ptr[q] = g /\ ~(j.move /\ q = j.from)
        BY <1>2, <1>4, <1>9, PtrAssumption
    <2>2. \A q \in Shared!Pointer \ {p} :
            q \in Counted(g)' <=> q \in Counted(g) /\ ~(j.move /\ q = j.from)
        BY <1>6, <2>1 DEF Counted
    <2>3. Counted(g)' \subseteq Shared!Pointer /\ Counted(g) \subseteq Shared!Pointer
        BY DEF Counted
    <2>4. j.from # <<>> => j.from \in Counted(g)
        BY <1>2 DEF Counted
    <2>5. j.from = <<>> => Counted(g) = {}
        BY <1>2, <1>9, PtrAssumption DEF GoodJob, Counted
    <2>6. p \in Counted(g)' /\ p \notin Counted(g)
        BY <1>7, <1>9
    <2>7. ASSUME j.move
          PROVE  j.from \in Counted(g) /\ Counted(g)' = (Counted(g) \ {j.from}) \cup {p}
        <3>1. j.from \in Counted(g) /\ j.from # p
            BY <1>2, <2>4, <2>7
        <3> QED BY <1>1, <2>2, <2>3, <2>6, <2>7, <3>1
    <2>8. ASSUME ~j.move
          PROVE  Counted(g)' = Counted(g) \cup {p}
        BY <1>1, <2>2, <2>3, <2>6, <2>8
    <2> QED BY <2>5, <2>7, <2>8
<1>10. ASSUME NEW o \in PtrObject
       PROVE  r_cnt'[o] = Cardinality(Counted(o)')
    <2>1. r_cnt[o] = Cardinality(Counted(o)) /\ IsFiniteSet(Counted(o)) /\ r_cnt[o] \in Nat
        BY CountedFinite DEF CountInv, PtrType
    <2>2. CASE o # g
        <3>1. r_cnt'[o] = r_cnt[o]
            BY <1>3, <2>2 DEF PtrType
        <3> QED BY <3>1, <2>1, <2>2, <1>8
    <2>3. CASE o = g /\ j.move
        <3>1. r_cnt'[o] = r_cnt[o]
            BY <1>3, <2>3
        <3>2. j.from \in Counted(o) /\ Counted(o)' = (Counted(o) \ {j.from}) \cup {p} /\ p \notin Counted(o)
            BY <1>7, <1>9, <2>3
        <3>3. /\ IsFiniteSet(Counted(o) \ {j.from})
              /\ Cardinality(Counted(o) \ {j.from}) = Cardinality(Counted(o)) - 1
            BY <2>1, <3>2, FS_RemoveElement
        <3>4. Cardinality((Counted(o) \ {j.from}) \cup {p}) = Cardinality(Counted(o) \ {j.from}) + 1
            BY <3>2, <3>3, FS_AddElement
        <3> QED BY <2>1, <3>1, <3>2, <3>3, <3>4
    <2>4. CASE o = g /\ ~j.move
        <3>1. Counted(o)' = Counted(o) \cup {p} /\ p \notin Counted(o)
            BY <1>7, <1>9, <2>4
        <3>2. Cardinality(Counted(o) \cup {p}) = Cardinality(Counted(o)) + 1
            BY <2>1, <3>1, FS_AddElement
        <3>3. r_cnt'[o] = IF j.from # <<>> THEN r_cnt[o] + 1 ELSE 1
            BY <1>3, <2>4, PtrAssumption DEF PtrType
        <3>4. j.from = <<>> => Cardinality(Counted(o)) = 0
            BY <1>9, <2>4, FS_EmptySet
        <3> QED BY <2>1, <3>1, <3>2, <3>3, <3>4
    <2> QED BY <2>2, <2>3, <2>4
<1>11. r_cnt' \in [PtrObject -> Nat]
    <2>1. CASE g = "null" \/ j.move
        BY <1>3, <2>1 DEF PtrType
    <2>2. CASE ~(g = "null" \/ j.move)
        <3>1. g \in PtrObject
            BY <1>2, <2>2 DEF Holding
        <3>2. r_cnt[g] \in Nat /\ (IF j.from # <<>> THEN r_cnt[g] + 1 ELSE 1) \in Nat
            BY <3>1 DEF PtrType
        <3> QED BY <1>3, <2>2, <3>1, <3>2 DEF PtrType
    <2> QED BY <2>1, <2>2
<1>12. /\ \A o \in PtrObject : Counted(o) = {} /\ o # g => Counted(o)' = {}
       /\ \A o \in PtrObject : Counted(o) # {} \/ o = g => Counted(o)' # {}
    BY <1>7, <1>8
<1>13. \A q \in Shared!Pointer \ Shared!Own(t) : r_ptr'[q] = r_ptr[q]
    BY <1>1, <1>2, <1>4
<1>14. \A q \in Shared!Pointer \ {p} : r_ptr'[q] = r_ptr[q] \/ r_ptr'[q] = "null"
    BY <1>4
<1> QED BY <1>1, <1>2, <1>4, <1>10, <1>11, <1>12, <1>13, <1>14

\* The constructors' state: no object, no count, nobody in a release.
LEMMA SharedInit ==
    ASSUME Shared!Init
    PROVE  SharedInv
<1> USE DEF Shared!Init, Shared!Null
<1>1. PtrType
    BY IdleJob DEF PtrType, Holding
<1>2. \A o \in PtrObject : Counted(o) = {}
    BY PtrAssumption DEF Counted
<1>3. CountInv
    BY <1>2, FS_EmptySet DEF CountInv
<1>4. JobInv
    BY DEF JobInv
<1>5. RaceInv
    BY IdleJob, PtrAssumption DEF RaceInv
<1>6. LifeInv
    BY IdleJob, PtrAssumption DEF LifeInv
<1> QED BY <1>1, <1>3, <1>4, <1>5, <1>6 DEF SharedInv

\* An acquisition of thread t leaves the jobs of the other threads good.
LEMMA OtherJobs ==
    ASSUME SharedInv, NEW t \in PtrThread, NEW p \in Shared!Own(t),
           r_pending' = [r_pending EXCEPT ![t] = Shared!Idle],
           \A q \in Shared!Pointer \ Shared!Own(t) : r_ptr'[q] = r_ptr[q],
           \A q \in Shared!Pointer \ {p} : r_ptr'[q] = r_ptr[q] \/ r_ptr'[q] = "null",
           \A u \in PtrThread \ {t} : r_pending[u].new # "null" => r_pending[u].new # r_ptr'[p]
    PROVE  JobInv'
<1> USE DEF SharedInv
<1> SUFFICES ASSUME NEW u \in PtrThread, r_pending'[u] # Shared!Idle
             PROVE  /\ GoodJob(u, r_pending[u])'
                    /\ r_pending'[u].obj \in PtrObject
                    /\ r_ptr'[r_pending'[u].at] = r_pending'[u].obj
                    /\ r_pending'[u].from # <<>> => r_pending'[u].from \in Shared!Own(u)
    BY DEF JobInv
<1>1. u # t /\ r_pending'[u] = r_pending[u]
    BY DEF PtrType
<1>2. PICK k : k = r_pending[u]
    OBVIOUS
<1>3. /\ GoodJob(u, k) /\ k.obj \in PtrObject /\ r_ptr[k.at] = k.obj
      /\ k.from # <<>> => k.from \in Shared!Own(u)
    BY <1>1, <1>2 DEF JobInv
<1>4. \A q \in Shared!Own(u) : r_ptr'[q] = r_ptr[q] /\ q[1] = u /\ q \in Shared!Pointer
    BY <1>1 DEF Shared!Own
<1>5. k.at \in Shared!Own(u)
    BY <1>3 DEF GoodJob
<1>6. k.new # "null" => \A q \in Shared!Pointer : r_ptr'[q] # k.new
    BY <1>1, <1>2, <1>3 DEF GoodJob
<1>7. k.from # <<>> => r_ptr'[k.from] = r_ptr[k.from] /\ r_pending'[k.from[1]] = r_pending[k.from[1]]
    BY <1>1, <1>3, <1>4
<1>8. GoodJob(u, k)'
    <2>1. k \in Job /\ k.at \in Shared!Own(u)
        BY <1>3 DEF GoodJob
    <2>2. CASE k.from = <<>> /\ k.move = FALSE
        BY <2>1, <2>2, <1>6 DEF GoodJob
    <2>3. CASE /\ k.from \in Shared!Pointer /\ k.from # k.at /\ r_ptr[k.from] # "null"
               /\ k.new = "null" /\ r_pending[k.from[1]].at # k.from
               /\ k.move = TRUE => k.from \in Shared!Own(u)
        <3>1. k.from # <<>>
            BY <2>3 DEF Shared!Pointer
        <3> QED BY <2>1, <2>3, <3>1, <1>6, <1>7 DEF GoodJob
    <2> QED BY <1>3, <2>2, <2>3 DEF GoodJob
<1>9. GoodJob(u, r_pending[u])'
    BY <1>1, <1>2, <1>8 DEF GoodJob
<1> QED BY <1>1, <1>2, <1>3, <1>4, <1>5, <1>9

\* A constructor, or an assignment to an empty pointer, keeps the invariant.
LEMMA ConstructStep ==
    ASSUME SharedInv, NEW t \in PtrThread, NEW j \in Shared!Jobs(t), Shared!Construct(t, j)
    PROVE  SharedInv'
<1> USE DEF SharedInv
<1>1. /\ r_pending[t] = Shared!Idle /\ r_ptr[j.at] = "null" /\ UNCHANGED <<r_deletes, r_pending, r_raced>>
      /\ r_created' = r_created \cup ({j.new} \ {"null"})
      /\ Shared!Acquire(j.at, r_ptr, j, r_cnt)
    BY DEF Shared!Construct, Shared!Null
<1>2. GoodJob(t, j) /\ (j.new # "null" => j.new \in PtrObject \ r_created)
    BY <1>1, JobsGood
<1>3. r_pending' = [r_pending EXCEPT ![t] = Shared!Idle]
    BY <1>1 DEF PtrType
<1>4. PICK g : g = Gets(j)
    OBVIOUS
<1>5. /\ r_ptr' \in [Shared!Pointer -> Holding] /\ r_cnt' \in [PtrObject -> Nat]
      /\ g \in Holding /\ r_ptr'[j.at] = g
      /\ \A q \in Shared!Pointer \ Shared!Own(t) : r_ptr'[q] = r_ptr[q]
      /\ \A q \in Shared!Pointer \ {j.at} : r_ptr'[q] = r_ptr[q] \/ r_ptr'[q] = "null"
      /\ \A o \in PtrObject : r_cnt'[o] = Cardinality(Counted(o)')
      /\ \A o \in PtrObject : Counted(o) = {} /\ o # g => Counted(o)' = {}
      /\ \A o \in PtrObject : Counted(o) # {} \/ o = g => Counted(o)' # {}
    BY <1>1, <1>2, <1>3, <1>4, Acquired
<1>6. \/ j.from = <<>> /\ g = j.new
      \/ j.from \in Counted(g) /\ j.from \in Shared!Pointer /\ g = r_ptr[j.from] /\ j.new = "null"
    <2>1. <<>> \notin Shared!Pointer
        BY DEF Shared!Pointer
    <2> QED BY <1>2, <1>4, <2>1 DEF GoodJob, Gets, Counted
<1>7. g \in PtrObject => r_deletes[g] = 0
    <2>1. CASE j.from = <<>> /\ g = j.new
        BY <2>1, <1>2, PtrAssumption DEF LifeInv
    <2>2. CASE j.from \in Counted(g)
        BY <2>2 DEF CountInv, PtrType
    <2> QED BY <1>6, <2>1, <2>2
<1>8. \A u \in PtrThread : r_pending[u].new # "null" => r_pending[u].new # g
    <2> SUFFICES ASSUME NEW u \in PtrThread, r_pending[u].new # "null", r_pending[u].new = g
                 PROVE  FALSE
        OBVIOUS
    <2>1. r_pending[u] # Shared!Idle
        BY IdleJob
    <2>2. \A q \in Shared!Pointer : r_ptr[q] # g
        BY <2>1 DEF JobInv, GoodJob
    <2>3. j.new = g
        BY <1>6, <2>2
    <2> QED BY <1>2, <2>3 DEF LifeInv
<1>9. JobInv'
    <2>1. j.at \in Shared!Own(t) /\ r_ptr'[j.at] = g
        BY <1>2, <1>5 DEF GoodJob
    <2>2. /\ \A q \in Shared!Pointer \ Shared!Own(t) : r_ptr'[q] = r_ptr[q]
          /\ \A q \in Shared!Pointer \ {j.at} : r_ptr'[q] = r_ptr[q] \/ r_ptr'[q] = "null"
          /\ \A u \in PtrThread \ {t} : r_pending[u].new # "null" => r_pending[u].new # r_ptr'[j.at]
        BY <1>5, <1>8
    <2> HIDE DEF SharedInv
    <2> QED BY <1>3, <2>1, <2>2, OtherJobs
<1>10. PtrType'
    BY <1>1, <1>2, <1>5 DEF PtrType
<1>11. CountInv'
    BY <1>1, <1>5, <1>7 DEF CountInv, PtrType
<1>12. RaceInv'
    BY <1>1 DEF RaceInv
<1>13. LifeInv'
    <2>1. ASSUME NEW o \in PtrObject \ r_created'
          PROVE  /\ r_deletes'[o] = 0 /\ \A p \in Shared!Pointer : r_ptr'[p] # o
                 /\ \A u \in PtrThread : r_pending'[u].new # o
        <3>1. o \in PtrObject \ r_created /\ o # "null" /\ o # j.new
            BY <1>1, PtrAssumption
        <3>2. /\ r_deletes[o] = 0 /\ \A p \in Shared!Pointer : r_ptr[p] # o
              /\ \A u \in PtrThread : r_pending[u].new # o
            BY <3>1 DEF LifeInv
        <3>3. g # o
            BY <3>1, <3>2, <1>6
        <3> QED BY <3>1, <3>2, <3>3, <1>1, <1>5
    <2>2. ASSUME NEW o \in r_created', r_deletes'[o] = 0, Counted(o)' = {}
          PROVE  \E u \in PtrThread : r_pending'[u].obj = o \/ r_pending'[u].new = o
        <3>1. o \in PtrObject /\ (o \in r_created \/ (o = j.new /\ o # "null"))
            BY <1>1, <1>2 DEF PtrType
        <3>2. Counted(o) = {} /\ o # g
            BY <2>2, <3>1, <1>5
        <3>3. o \in r_created
            BY <3>1, <3>2, <1>6
        <3> QED BY <2>2, <3>2, <3>3, <1>1 DEF LifeInv
    <2>3. ASSUME NEW u \in PtrThread, NEW o \in PtrObject, r_pending'[u].new = o
          PROVE  r_deletes'[o] = 0 /\ \A v \in PtrThread : r_pending'[v].new = o => v = u
        BY <2>3, <1>1 DEF LifeInv
    <2> QED BY <2>1, <2>2, <2>3 DEF LifeInv
<1> QED BY <1>9, <1>10, <1>11, <1>12, <1>13

\* The first step of release keeps the invariant: the pointer is no longer counted.
LEMMA ReleaseStep ==
    ASSUME SharedInv, NEW t \in PtrThread, NEW j \in Shared!Jobs(t), Shared!release(t, j)
    PROVE  SharedInv'
<1> USE DEF SharedInv
<1>0. PICK o : o = r_ptr[j.at]
    OBVIOUS
<1>1. /\ r_pending[t] = Shared!Idle /\ o # "null" /\ UNCHANGED <<r_ptr, r_deletes>>
      /\ r_cnt' = [r_cnt EXCEPT ![o] = @ - 1]
      /\ r_pending' = [r_pending EXCEPT ![t] = [j EXCEPT !.obj = o]]
      /\ r_raced' = r_raced \cup {q \in {o} : \E u \in PtrThread : r_pending[u].obj = o}
      /\ r_created' = r_created \cup ({j.new} \ {"null"})
    BY <1>0 DEF Shared!release, Shared!Null
<1>2. /\ GoodJob(t, j) /\ (j.new # "null" => j.new \in PtrObject \ r_created)
      /\ j.from # <<>> => j.from \in Shared!Own(t)
    BY <1>0, <1>1, JobsGood
<1>3. /\ j.at \in Shared!Own(t) /\ j.at \in Shared!Pointer /\ j.at # <<>> /\ j.at[1] = t
      /\ o \in PtrObject
    <2>1. j.at \in Shared!Own(t)
        BY <1>2 DEF GoodJob
    <2>2. j.at \in Shared!Pointer /\ j.at # <<>> /\ j.at[1] = t
        BY <2>1, IdleJob
    <2> QED BY <2>1, <2>2, <1>0, <1>1 DEF PtrType, Holding
<1>4. PICK k : k = [j EXCEPT !.obj = o]
    OBVIOUS
<1>5. /\ k \in Job /\ k.at = j.at /\ k.obj = o /\ k.from = j.from /\ k.move = j.move /\ k.new = j.new
      /\ r_pending'[t] = k /\ \A u \in PtrThread \ {t} : r_pending'[u] = r_pending[u]
      /\ r_pending' \in [PtrThread -> Job]
    <2>1. j \in Job
        BY <1>2 DEF GoodJob
    <2>2. /\ k \in Job /\ k.at = j.at /\ k.obj = o /\ k.from = j.from /\ k.move = j.move
          /\ k.new = j.new
        BY <1>3, <1>4, <2>1 DEF Job, Holding
    <2> QED BY <1>1, <1>4, <2>2 DEF PtrType
<1>6. \A q \in Shared!Pointer : q[1] \in PtrThread /\ q # <<>>
    BY DEF Shared!Pointer
<1>7. \A q \in Shared!Pointer : r_pending'[q[1]].at # q <=> r_pending[q[1]].at # q /\ q # j.at
    <2> TAKE q \in Shared!Pointer
    <2>1. CASE q[1] = t
        BY <2>1, <1>1, <1>5, <1>6, IdleJob
    <2>2. CASE q[1] # t
        BY <2>2, <1>3, <1>5, <1>6
    <2> QED BY <2>1, <2>2
<1>8. j.at \in Counted(o) /\ r_deletes[o] = 0
    <2>1. j.at \in Counted(o)
        BY <1>0, <1>1, <1>3, IdleJob DEF Counted
    <2> QED BY <2>1, <1>3 DEF CountInv, PtrType
<1>9. Counted(o)' = Counted(o) \ {j.at} /\ \A x \in PtrObject \ {o} : Counted(x)' = Counted(x)
    BY <1>0, <1>1, <1>7 DEF Counted
<1>10. r_cnt'[o] = r_cnt[o] - 1 /\ (\A x \in PtrObject \ {o} : r_cnt'[x] = r_cnt[x])
       /\ r_cnt[o] = Cardinality(Counted(o))
    BY <1>1, <1>3 DEF PtrType, CountInv
<1>11. /\ Cardinality(Counted(o)') = Cardinality(Counted(o)) - 1
       /\ Cardinality(Counted(o)') \in Nat
    <2>1. IsFiniteSet(Counted(o)) /\ IsFiniteSet(Counted(o) \ {j.at})
        BY CountedFinite, FS_RemoveElement
    <2> QED BY <2>1, <1>8, <1>9, FS_RemoveElement, FS_CardinalityType
<1>12. PtrType'
    <2>1. r_cnt' \in [PtrObject -> Nat]
        BY <1>1, <1>3, <1>10, <1>11 DEF PtrType
    <2> QED BY <2>1, <1>1, <1>2, <1>5 DEF PtrType
<1>13. CountInv'
    <2> SUFFICES ASSUME NEW x \in PtrObject
                 PROVE  r_cnt'[x] = Cardinality(Counted(x)') /\ (r_deletes'[x] > 0 => Counted(x)' = {})
        BY DEF CountInv
    <2>1. CASE x = o
        BY <2>1, <1>1, <1>8, <1>10, <1>11
    <2>2. CASE x # o
        BY <2>2, <1>1, <1>9, <1>10 DEF CountInv
    <2> QED BY <2>1, <2>2
<1>14. JobInv'
    <2> SUFFICES ASSUME NEW u \in PtrThread, r_pending'[u] # Shared!Idle
                 PROVE  /\ GoodJob(u, r_pending[u])'
                        /\ r_pending'[u].obj \in PtrObject
                        /\ r_ptr'[r_pending'[u].at] = r_pending'[u].obj
                        /\ r_pending'[u].from # <<>> => r_pending'[u].from \in Shared!Own(u)
        BY DEF JobInv
    <2>1. CASE u = t
        <3>1. \A q \in Shared!Pointer : r_pending[q[1]].at # q /\ q # j.at => r_pending'[q[1]].at # q
            BY <1>7
        <3>2. GoodJob(t, k)'
            BY <1>1, <1>2, <1>5, <3>1 DEF GoodJob
        <3>3. GoodJob(t, r_pending[t])'
            BY <1>5, <3>2 DEF GoodJob
        <3> QED BY <2>1, <3>3, <1>0, <1>1, <1>2, <1>3, <1>5
    <2>2. CASE u # t
        <3>1. PICK m : m = r_pending[u]
            OBVIOUS
        <3>2. /\ GoodJob(u, m) /\ m.obj \in PtrObject /\ r_ptr[m.at] = m.obj
              /\ m.from # <<>> => m.from \in Shared!Own(u)
            BY <2>2, <3>1, <1>5 DEF JobInv
        <3>3. m.from # <<>> => r_pending'[m.from[1]] = r_pending[m.from[1]]
            BY <2>2, <3>2, <1>5 DEF Shared!Own
        <3>4. GoodJob(u, m)'
            BY <3>2, <3>3, <1>1, <1>6 DEF GoodJob
        <3>5. GoodJob(u, r_pending[u])'
            BY <2>2, <3>1, <3>4, <1>5 DEF GoodJob
        <3> QED BY <2>2, <3>1, <3>2, <3>5, <1>1, <1>5
    <2> QED BY <2>1, <2>2
<1>15. RaceInv'
    <2> SUFFICES ASSUME NEW x \in PtrObject, x \notin r_raced'
                 PROVE  /\ \A u, v \in PtrThread : r_pending'[u].obj = x /\ r_pending'[v].obj = x => u = v
                        /\ \A u \in PtrThread : r_pending'[u].obj = x => r_deletes'[x] = 0
                        /\ r_deletes'[x] <= 1
        BY DEF RaceInv
    <2>1. x \notin r_raced
        BY <1>1
    <2>2. CASE x = o
        <3>1. \A u \in PtrThread : r_pending[u].obj # o
            BY <2>2, <1>1
        <3> QED BY <2>2, <3>1, <1>1, <1>5, <1>8
    <2>3. CASE x # o
        BY <2>1, <2>3, <1>1, <1>5 DEF RaceInv
    <2> QED BY <2>2, <2>3
<1>16. LifeInv'
    <2>1. ASSUME NEW x \in PtrObject \ r_created'
          PROVE  /\ r_deletes'[x] = 0 /\ \A p \in Shared!Pointer : r_ptr'[p] # x
                 /\ \A u \in PtrThread : r_pending'[u].new # x
        <3>1. x \in PtrObject \ r_created /\ x # j.new
            BY <1>1, PtrAssumption
        <3> QED BY <3>1, <1>1, <1>5 DEF LifeInv
    <2>2. ASSUME NEW x \in r_created', r_deletes'[x] = 0, Counted(x)' = {}
          PROVE  \E u \in PtrThread : r_pending'[u].obj = x \/ r_pending'[u].new = x
        <3>1. CASE x = o \/ x = j.new
            BY <3>1, <1>5
        <3>2. CASE x # o /\ x # j.new
            <4>1. x \in r_created /\ x \in PtrObject /\ Counted(x) = {} /\ r_deletes[x] = 0
                BY <2>2, <3>2, <1>1, <1>9 DEF PtrType
            <4>2. PICK u \in PtrThread : r_pending[u].obj = x \/ r_pending[u].new = x
                BY <4>1 DEF LifeInv
            <4>3. u # t
                BY <4>1, <4>2, <1>1, IdleJob, PtrAssumption
            <4> QED BY <4>2, <4>3, <1>5
        <3> QED BY <3>1, <3>2
    <2>3. ASSUME NEW u \in PtrThread, NEW x \in PtrObject, r_pending'[u].new = x
          PROVE  r_deletes'[x] = 0 /\ \A v \in PtrThread : r_pending'[v].new = x => v = u
        <3>1. CASE x = j.new
            <4>1. x \in PtrObject \ r_created
                BY <3>1, <1>2, PtrAssumption
            <4>2. r_deletes[x] = 0 /\ \A v \in PtrThread : r_pending[v].new # x
                BY <4>1 DEF LifeInv
            <4> QED BY <2>3, <4>2, <1>1, <1>5
        <3>2. CASE x # j.new
            BY <2>3, <3>2, <1>1, <1>5 DEF LifeInv
        <3> QED BY <3>1, <3>2
    <2> QED BY <2>1, <2>2, <2>3 DEF LifeInv
<1> QED BY <1>12, <1>13, <1>14, <1>15, <1>16

\* The second step of release keeps the invariant: it deletes what nothing counts any more.
LEMMA FinishStep ==
    ASSUME SharedInv, NEW t \in PtrThread, Shared!Finish(t)
    PROVE  SharedInv'
<1> USE DEF SharedInv
<1>0. PICK j : j = r_pending[t]
    OBVIOUS
<1>1. /\ j # Shared!Idle /\ Shared!Acquire(j.at, r_ptr, j, r_cnt)
      /\ r_pending' = [r_pending EXCEPT ![t] = Shared!Idle] /\ UNCHANGED <<r_created, r_raced>>
    BY <1>0 DEF Shared!Finish
<1>2. /\ GoodJob(t, j) /\ j.obj \in PtrObject /\ r_ptr[j.at] = j.obj
      /\ j.from # <<>> => j.from \in Shared!Own(t)
    BY <1>0, <1>1 DEF JobInv
<1>3. PICK last \in BOOLEAN :
        /\ r_deletes[j.obj] = 0 => last = (r_cnt[j.obj] = 0)
        /\ r_deletes' = [r_deletes EXCEPT ![j.obj] = IF last THEN @ + 1 ELSE @]
    BY <1>0 DEF Shared!Finish
<1>4. PICK g : g = Gets(j)
    OBVIOUS
<1>5. /\ r_ptr' \in [Shared!Pointer -> Holding] /\ r_cnt' \in [PtrObject -> Nat]
      /\ g \in Holding /\ r_ptr'[j.at] = g
      /\ \A q \in Shared!Pointer \ Shared!Own(t) : r_ptr'[q] = r_ptr[q]
      /\ \A q \in Shared!Pointer \ {j.at} : r_ptr'[q] = r_ptr[q] \/ r_ptr'[q] = "null"
      /\ \A o \in PtrObject : r_cnt'[o] = Cardinality(Counted(o)')
      /\ \A o \in PtrObject : Counted(o) = {} /\ o # g => Counted(o)' = {}
      /\ \A o \in PtrObject : Counted(o) # {} \/ o = g => Counted(o)' # {}
    <2>1. r_pending[t].at = j.at /\ (r_pending[t] # Shared!Idle => r_pending[t] = j)
        BY <1>0
    <2>2. r_ptr[j.at] = "null" \/ r_pending[t].at = j.at
        BY <2>1
    <2>3. GoodJob(t, j) /\ Shared!Acquire(j.at, r_ptr, j, r_cnt)
        BY <1>1, <1>2
    <2>4. r_pending' = [r_pending EXCEPT ![t] = Shared!Idle]
        BY <1>1
    <2>5. r_pending[t] # Shared!Idle => r_pending[t] = j
        BY <2>1
    <2> HIDE DEF SharedInv
    <2> QED BY ONLY SharedInv, t \in PtrThread, <1>4, <2>2, <2>3, <2>4, <2>5, Acquired, Zenon
<1>6. /\ j.at \in Shared!Own(t) /\ j.at \in Shared!Pointer
      /\ \/ j.from = <<>> /\ g = j.new
         \/ j.from \in Counted(g) /\ j.from \in Shared!Pointer /\ g = r_ptr[j.from] /\ j.new = "null"
    <2>1. <<>> \notin Shared!Pointer
        BY DEF Shared!Pointer
    <2>2. j.at \in Shared!Own(t)
        BY <1>2 DEF GoodJob
    <2> QED BY <1>2, <1>4, <2>1, <2>2, IdleJob DEF GoodJob, Gets, Counted
<1>7. g \in PtrObject => r_deletes[g] = 0
    BY <1>0, <1>6 DEF LifeInv, CountInv, PtrType
<1>8. \A u \in PtrThread \ {t} : r_pending[u].new # "null" => r_pending[u].new # g
    <2> SUFFICES ASSUME NEW u \in PtrThread \ {t}, r_pending[u].new # "null", r_pending[u].new = g
                 PROVE  FALSE
        OBVIOUS
    <2>1. r_pending[u] # Shared!Idle
        BY IdleJob
    <2>2. (\A q \in Shared!Pointer : r_ptr[q] # g) /\ g \in PtrObject
        BY <2>1, <1>5 DEF JobInv, GoodJob, Holding
    <2>3. j.new = g
        BY <1>6, <2>2
    <2> QED BY <1>0, <2>2, <2>3 DEF LifeInv
<1>9. JobInv'
    <2>1. j.at \in Shared!Own(t) /\ r_ptr'[j.at] = g
        BY <1>5, <1>6
    <2>2. /\ \A q \in Shared!Pointer \ Shared!Own(t) : r_ptr'[q] = r_ptr[q]
          /\ \A q \in Shared!Pointer \ {j.at} : r_ptr'[q] = r_ptr[q] \/ r_ptr'[q] = "null"
          /\ \A u \in PtrThread \ {t} : r_pending[u].new # "null" => r_pending[u].new # r_ptr'[j.at]
        BY <1>5, <1>8
    <2> HIDE DEF SharedInv
    <2> QED BY <1>1, <2>1, <2>2, OtherJobs
<1>10. /\ r_deletes' \in [PtrObject -> Nat]
       /\ \A o \in PtrObject : o # j.obj => r_deletes'[o] = r_deletes[o]
       /\ r_deletes'[j.obj] = IF last THEN r_deletes[j.obj] + 1 ELSE r_deletes[j.obj]
    BY <1>2, <1>3 DEF PtrType
<1>11. PtrType'
    BY <1>1, <1>5, <1>10, IdleJob DEF PtrType
<1>12. r_deletes[j.obj] = 0 => (last <=> Counted(j.obj) = {})
    <2>1. IsFiniteSet(Counted(j.obj)) /\ r_cnt[j.obj] = Cardinality(Counted(j.obj))
        BY <1>2, CountedFinite DEF CountInv
    <2> QED BY <2>1, <1>3, FS_EmptySet
<1>13. Counted(j.obj) = {} => j.obj # g
    <2>1. CASE j.from = <<>> /\ g = j.new
        BY <2>1, <1>2, <1>6, PtrAssumption DEF GoodJob
    <2>2. CASE j.from \in Counted(g)
        BY <2>2
    <2> QED BY <1>6, <2>1, <2>2
<1>14. CountInv'
    <2> SUFFICES ASSUME NEW o \in PtrObject, r_deletes'[o] > 0
                 PROVE  Counted(o)' = {}
        BY <1>5 DEF CountInv
    <2>1. CASE r_deletes[o] > 0
        <3>1. Counted(o) = {} /\ o # g
            BY <2>1, <1>7 DEF CountInv, PtrType
        <3> QED BY <3>1, <1>5
    <2>2. CASE ~(r_deletes[o] > 0)
        <3>1. r_deletes[o] = 0 /\ o = j.obj /\ last
            BY <2>2, <1>10 DEF PtrType
        <3> QED BY <3>1, <1>5, <1>12, <1>13
    <2> QED BY <2>1, <2>2
<1>15. r_pending'[t] = Shared!Idle /\ \A u \in PtrThread \ {t} : r_pending'[u] = r_pending[u]
    BY <1>1 DEF PtrType
<1>16. RaceInv'
    <2> SUFFICES ASSUME NEW o \in PtrObject, o \notin r_raced'
                 PROVE  /\ \A u, v \in PtrThread : r_pending'[u].obj = o /\ r_pending'[v].obj = o => u = v
                        /\ \A u \in PtrThread : r_pending'[u].obj = o => r_deletes'[o] = 0
                        /\ r_deletes'[o] <= 1
        BY DEF RaceInv
    <2>1. /\ \A u, v \in PtrThread : r_pending[u].obj = o /\ r_pending[v].obj = o => u = v
          /\ \A u \in PtrThread : r_pending[u].obj = o => r_deletes[o] = 0
          /\ r_deletes[o] <= 1
        BY <1>1 DEF RaceInv
    <2>2. \A u \in PtrThread : r_pending'[u].obj = o => u # t /\ r_pending[u].obj = o
        BY <1>15, IdleJob, PtrAssumption
    <2>3. \A u \in PtrThread : r_pending'[u].obj = o => o # j.obj
        BY <2>1, <2>2, <1>0
    <2>4. r_deletes'[o] <= 1
        <3>1. CASE o = j.obj
            BY <3>1, <2>1, <1>0, <1>10
        <3>2. CASE o # j.obj
            BY <3>2, <2>1, <1>10
        <3> QED BY <3>1, <3>2
    <2> QED BY <2>1, <2>2, <2>3, <2>4, <1>10
<1>17. LifeInv'
    <2>1. ASSUME NEW o \in PtrObject \ r_created'
          PROVE  /\ r_deletes'[o] = 0 /\ \A p \in Shared!Pointer : r_ptr'[p] # o
                 /\ \A u \in PtrThread : r_pending'[u].new # o
        <3>1. /\ r_deletes[o] = 0 /\ \A p \in Shared!Pointer : r_ptr[p] # o
              /\ \A u \in PtrThread : r_pending[u].new # o
            BY <1>1 DEF LifeInv
        <3>2. g # o /\ o # j.obj /\ o # "null"
            BY <3>1, <1>0, <1>2, <1>6, PtrAssumption
        <3>3. \A u \in PtrThread : r_pending'[u].new # o
            BY <3>1, <3>2, <1>15, IdleJob
        <3> QED BY <3>1, <3>2, <3>3, <1>5, <1>10
    <2>2. ASSUME NEW o \in r_created', r_deletes'[o] = 0, Counted(o)' = {}
          PROVE  \E u \in PtrThread : r_pending'[u].obj = o \/ r_pending'[u].new = o
        <3>1. o \in r_created /\ o \in PtrObject
            BY <1>1 DEF PtrType
        <3>2. Counted(o) = {} /\ o # g
            BY <2>2, <3>1, <1>5
        <3>3. r_deletes[o] = 0
            <4>1. CASE o = j.obj
                BY <4>1, <2>2, <3>1, <1>10 DEF PtrType
            <4>2. CASE o # j.obj
                BY <4>2, <2>2, <3>1, <1>10
            <4> QED BY <4>1, <4>2
        <3>4. PICK u \in PtrThread : r_pending[u].obj = o \/ r_pending[u].new = o
            BY <3>1, <3>2, <3>3 DEF LifeInv
        <3>5. o # j.obj
            BY <2>2, <3>2, <3>3, <1>10, <1>12
        <3>6. o # j.new
            BY <3>2, <1>6, <3>1, PtrAssumption
        <3>7. u # t
            BY <3>4, <3>5, <3>6, <1>0
        <3> QED BY <3>4, <3>7, <1>15
    <2>3. ASSUME NEW u \in PtrThread, NEW o \in PtrObject, r_pending'[u].new = o
          PROVE  r_deletes'[o] = 0 /\ \A v \in PtrThread : r_pending'[v].new = o => v = u
        <3>1. u # t /\ r_pending[u].new = o
            BY <2>3, <1>15, IdleJob, PtrAssumption
        <3>2. r_deletes[o] = 0 /\ \A v \in PtrThread : r_pending[v].new = o => v = u
            BY <3>1 DEF LifeInv
        <3>3. \A v \in PtrThread : r_pending'[v].new = o => v = u
            BY <3>2, <1>15, IdleJob, PtrAssumption
        <3>4. o # j.obj
            <4>1. r_pending[u] # Shared!Idle /\ o # "null"
                BY <3>1, IdleJob, PtrAssumption
            <4> QED BY <3>1, <4>1, <1>2, <1>6 DEF JobInv, GoodJob
        <3> QED BY <3>2, <3>3, <3>4, <1>10
    <2> QED BY <2>1, <2>2, <2>3 DEF LifeInv
<1> QED BY <1>9, <1>11, <1>14, <1>16, <1>17

\* The invariant gives what the runs check of the shared pointers.
LEMMA SharedPromise ==
    ASSUME SharedInv
    PROVE  SharedCorrect
<1> USE DEF SharedInv
<1>1. \A o \in PtrObject : Shared!Holders(o) \subseteq Counted(o)
    BY IdleJob DEF Shared!Holders, Shared!Settled, Counted, Shared!Pointer
<1>2. \A o \in PtrObject : Shared!Holders(o) # {} => r_deletes[o] = 0
    BY <1>1 DEF CountInv, PtrType
<1>3. \A o \in PtrObject : r_deletes[o] > 1 => o \in r_raced
    <2> SUFFICES ASSUME NEW o \in PtrObject, o \notin r_raced
                 PROVE  ~(r_deletes[o] > 1)
        OBVIOUS
    <2>1. r_deletes[o] <= 1 /\ r_deletes[o] \in Nat
        BY DEF RaceInv, PtrType
    <2> QED BY <2>1
<1>4. ASSUME \A t \in PtrThread : r_pending[t] = Shared!Idle, NEW o \in r_created
      PROVE  /\ r_deletes[o] = 0 => r_cnt[o] = Cardinality(Shared!Holders(o))
             /\ Shared!Holders(o) = {} => r_deletes[o] > 0
    <2>1. o \in PtrObject /\ o # "null" /\ r_deletes[o] \in Nat
        BY PtrAssumption DEF PtrType
    <2>2. Shared!Holders(o) = Counted(o)
        BY <1>4, IdleJob DEF Shared!Holders, Shared!Settled, Counted, Shared!Pointer
    <2>3. ~(r_deletes[o] = 0 /\ Counted(o) = {})
        BY <1>4, <2>1, IdleJob DEF LifeInv
    <2> QED BY <2>1, <2>2, <2>3 DEF CountInv
<1>5. (\A t \in PtrThread : r_pending[t] = Shared!Idle) =>
        \A o \in r_created : /\ r_deletes[o] = 0 => r_cnt[o] = Cardinality(Shared!Holders(o))
                             /\ Shared!Holders(o) = {} => r_deletes[o] > 0
    BY <1>4
<1> HIDE DEF SharedInv
<1>6. Shared!Correct
    <2>1. \A S : Shared!Cardinality(S) = Cardinality(S)
        BY Zenon DEF Shared!Cardinality, Cardinality
    <2> QED BY <2>1, <1>2, <1>3, <1>5 DEF Shared!Correct
<1> QED BY <1>6 DEF SharedCorrect

\* SimpleSharedPtr, for any finite number of threads and any objects: no pointer is left with
\* a deleted object, none is leaked, the count is the number of pointers, and a second delete
\* needs two releases of the object between each other's decrement and test.
THEOREM SharedHolds == Spec => []SharedCorrect
<1>1. Init => SharedInv
    BY SharedInit DEF Init
<1>2. SharedInv /\ [Next]_vars => SharedInv'
    <2> SUFFICES ASSUME SharedInv, [Next]_vars
                 PROVE  SharedInv'
        OBVIOUS
    <2>1. CASE UNCHANGED shared
        <3>1. UNCHANGED <<r_ptr, r_cnt, r_created, r_deletes, r_pending, r_raced>>
            BY <2>1 DEF shared
        <3>2. \A o : Counted(o)' = Counted(o)
            BY <3>1 DEF Counted
        <3>3. PtrType' /\ CountInv'
            BY <3>1, <3>2 DEF SharedInv, PtrType, CountInv
        <3>4. JobInv'
            BY <3>1 DEF SharedInv, JobInv, GoodJob
        <3>5. RaceInv' /\ LifeInv'
            BY <3>1, <3>2 DEF SharedInv, RaceInv, LifeInv
        <3> QED BY <3>3, <3>4, <3>5 DEF SharedInv
    <2>2. CASE Shared!Next
        BY <2>2, ConstructStep, ReleaseStep, FinishStep DEF Shared!Next
    <2> QED BY <2>1, <2>2 DEF Next, vars
<1>3. SharedInv => SharedCorrect
    BY SharedPromise
<1> QED BY <1>1, <1>2, <1>3, PTL DEF Spec
=============================================================================
