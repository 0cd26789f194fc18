--------------------------- MODULE BoundedBuffer ---------------------------
(***************************************************************************)
(* p_and_c_demo.c: a ring buffer between a producer and a consumer, with   *)
(* three semaphores.  Each semaphore operation is a step; the lines under  *)
(* mutex are one.                                                          *)
(***************************************************************************)
EXTENDS Naturals, Sequences

CONSTANTS BUF_SIZE, Items   \* the ring's size, the number of items

VARIABLES
    buffer, front, rear,    \* the ring
    mutex, slots, items,    \* the semaphores
    p, c,                   \* where the producer and the consumer are
    made,                   \* the producer's i, the last item made
    taken                   \* history: the items the consumer took

vars == <<buffer, front, rear, mutex, slots, items, p, c, made, taken>>

Init ==
    /\ buffer = [k \in 0..(BUF_SIZE - 1) |-> 0] /\ front = 0 /\ rear = 0
    /\ mutex = 1 /\ slots = BUF_SIZE /\ items = 0
    /\ p = "wait" /\ c = "wait" /\ made = 0 /\ taken = <<>>

Produce ==
    /\ \/ /\ p = "wait" /\ made < Items /\ slots > 0
          /\ slots' = slots - 1 /\ p' = "lock"
          /\ UNCHANGED <<mutex, items, buffer, rear, made>>
       \/ /\ p = "lock" /\ mutex > 0
          /\ mutex' = mutex - 1 /\ p' = "put" /\ UNCHANGED <<slots, items, buffer, rear, made>>
       \/ /\ p = "put"
          /\ buffer' = [buffer EXCEPT ![rear] = made + 1] /\ made' = made + 1
          /\ rear' = (rear + 1) % BUF_SIZE /\ mutex' = mutex + 1
          /\ p' = "post" /\ UNCHANGED <<slots, items>>
       \/ /\ p = "post"
          /\ items' = items + 1 /\ p' = "wait" /\ UNCHANGED <<slots, mutex, buffer, rear, made>>
    /\ UNCHANGED <<front, c, taken>>

Consume ==
    /\ \/ /\ c = "wait" /\ Len(taken) < Items /\ items > 0
          /\ items' = items - 1 /\ c' = "lock" /\ UNCHANGED <<mutex, slots, front, taken>>
       \/ /\ c = "lock" /\ mutex > 0
          /\ mutex' = mutex - 1 /\ c' = "get" /\ UNCHANGED <<slots, items, front, taken>>
       \/ /\ c = "get"
          /\ taken' = Append(taken, buffer[front])
          /\ front' = (front + 1) % BUF_SIZE /\ mutex' = mutex + 1
          /\ c' = "post" /\ UNCHANGED <<slots, items>>
       \/ /\ c = "post"
          /\ slots' = slots + 1 /\ c' = "wait" /\ UNCHANGED <<items, mutex, front, taken>>
    /\ UNCHANGED <<buffer, rear, p, made>>

Next == Produce \/ Consume

-----------------------------------------------------------------------------
\* A thread that is done, or that sem_wait does not let go on.
ProducerWaits ==
    \/ p = "wait" /\ (made = Items \/ slots = 0)
    \/ p = "lock" /\ mutex = 0
ConsumerWaits ==
    \/ c = "wait" /\ (Len(taken) = Items \/ items = 0)
    \/ c = "lock" /\ mutex = 0

\* The consumer takes the items in the order they were made, none overwritten
\* before it was taken, and the two threads both stand still, at whichever of
\* their semaphores, only when all the items were taken.
Correct ==
    /\ taken = [k \in 1..Len(taken) |-> k]
    /\ made - Len(taken) \in 0..BUF_SIZE
    /\ ProducerWaits /\ ConsumerWaits => Len(taken) = Items
    /\ ~(p = "put" /\ c = "get")
=============================================================================
