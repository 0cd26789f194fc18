----------------------------- MODULE RingDeque -----------------------------
(***************************************************************************)
(* sen_std::deque of unsigned values: a ring buffer that is copied into    *)
(* another one by resize.  push_front and push_back double the capacity    *)
(* when the deque is full, and push_front also when the two indices meet,  *)
(* which they do when the deque is empty; a caller may ask for any         *)
(* capacity.  resize leaves the back index at the count, one past the end  *)
(* of a buffer that is just full.  After an access outside the buffer or a *)
(* division by zero (undefined) nothing is known.                          *)
(***************************************************************************)
EXTENDS Integers, Sequences

CONSTANTS
    Val,            \* the values, natural numbers: the iterator computes with them
    InitCapacity,   \* initial_capacity
    MaxCapacity     \* bound on the capacity

VARIABLES
    buffer,         \* _buffer
    capacity,       \* _capacity
    count,          \* _count
    front_index,    \* _front_index
    back_index,     \* _back_index
    abs,            \* history: the sequence that the calls describe
    fitted,         \* history: a caller has asked for a capacity of at most the size
    undefined       \* the program has left its buffer or divided by zero

vars == <<buffer, capacity, count, front_index, back_index, abs, fitted, undefined>>

Junk == 0

Init ==
    /\ buffer = [i \in 0..(InitCapacity - 1) |-> Junk]
    /\ capacity = InitCapacity
    /\ count = 0 /\ front_index = 0 /\ back_index = 0
    /\ abs = <<>> /\ fitted = FALSE /\ undefined = FALSE

\* The ring in a new buffer of n places, from its first place on.
Moved(n) ==
    [buf |-> [i \in 0..(n - 1) |->
                IF i < count THEN buffer[(front_index + i) % capacity] ELSE Junk],
     cap |-> n, front |-> 0, back |-> count]

\* The ring after resize(2 * capacity) if cond holds, and as it is otherwise.
Grown(cond) ==
    IF cond THEN Moved(2 * capacity)
    ELSE [buf |-> buffer, cap |-> capacity, front |-> front_index, back |-> back_index]

Becomes(d) ==
    buffer' = d.buf /\ capacity' = d.cap /\ front_index' = d.front /\ back_index' = d.back

\* The caller's resize: a copy into too small a buffer runs over its end.
resize(n) ==
    /\ ~undefined
    /\ fitted' = (fitted \/ n <= count)
    /\ \/ n >= count /\ Becomes(Moved(n)) /\ UNCHANGED undefined
       \/ n < count /\ undefined' = TRUE
          /\ UNCHANGED <<buffer, capacity, front_index, back_index>>
    /\ UNCHANGED <<count, abs>>

Lost ==
    /\ undefined' = TRUE
    /\ UNCHANGED <<buffer, capacity, count, front_index, back_index, abs, fitted>>

Pushed(d, s) ==
    /\ Becomes(d) /\ abs' = s /\ count' = count + 1
    /\ UNCHANGED <<fitted, undefined>>

\* Without capacity, doubling leaves none and the index is taken modulo zero.
push_front(v) ==
    LET d == Grown(front_index = back_index \/ count = capacity)
        f == (d.front - 1 + d.cap) % d.cap
    IN  /\ ~undefined /\ d.cap <= MaxCapacity
        /\ \/ d.cap = 0 /\ Lost
           \/ d.cap > 0 /\ Pushed([d EXCEPT !.buf[f] = v, !.front = f], <<v>> \o abs)

\* The back index may be one past the end.
push_back(v) ==
    LET d == Grown(count = capacity)
    IN  /\ ~undefined /\ d.cap <= MaxCapacity
        /\ \/ d.back >= d.cap /\ Lost
           \/ /\ d.back < d.cap
              /\ Pushed([d EXCEPT !.buf[d.back] = v, !.back = (@ + 1) % d.cap],
                        Append(abs, v))

pop_front ==
    /\ ~undefined /\ count > 0
    /\ front_index' = (front_index + 1) % capacity
    /\ count' = count - 1 /\ abs' = Tail(abs)
    /\ UNCHANGED <<buffer, capacity, back_index, fitted, undefined>>

pop_back ==
    /\ ~undefined /\ count > 0
    /\ back_index' = (back_index - 1 + capacity) % capacity
    /\ count' = count - 1 /\ abs' = SubSeq(abs, 1, count - 1)
    /\ UNCHANGED <<buffer, capacity, front_index, fitted, undefined>>

Next ==
    \/ \E v \in Val : push_front(v) \/ push_back(v)
    \/ pop_front
    \/ pop_back
    \/ \E n \in 0..MaxCapacity : resize(n)

-----------------------------------------------------------------------------
\* front() and back().
Front == buffer[front_index]
Back == buffer[(back_index - 1 + capacity) % capacity]

\* What begin() to end() goes through: operator* adds the position to front(),
\* the first value, where the ring begins at _front_index.
Shown == [k \in 1..count |-> buffer[(Front + (k - 1)) % capacity]]

\* Through every wrap of the indices and every resize, front(), back() and the
\* ring between them hold the sequence that was pushed and not yet popped.  A loop
\* over the iterators shows the ring rotated by the difference of the first value and
\* its index: the sequence where they agree, and elsewhere also places that hold
\* nothing of it.  The code stays inside its buffer unless a caller has fitted the
\* capacity to the size or less: then the back index may be one past the end.
Correct ==
    /\ undefined => fitted
    /\ \/ undefined
       \/ /\ count = Len(abs) /\ count <= capacity
          /\ \A i \in 1..count : buffer[(front_index + i - 1) % capacity] = abs[i]
          /\ count > 0 => Front = abs[1] /\ Back = abs[count]
          /\ capacity > 0 => back_index % capacity = (front_index + count) % capacity
          /\ \A k \in 1..count :
               LET i == (((Front - front_index) + (k - 1)) % capacity) + 1
               IN  i <= count => Shown[k] = abs[i]
          /\ ~fitted => front_index < capacity /\ back_index < capacity
=============================================================================
