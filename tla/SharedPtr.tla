----------------------------- MODULE SharedPtr -----------------------------
(***************************************************************************)
(* SimpleSharedPtr: pointers that share an object and its ControlBlock.    *)
(* Each thread has pointers of its own and may copy another thread's.      *)
(* release decrements _ref_cnt and then loads it again to compare it with  *)
(* zero: two atomic operations, so two steps.  A copy reads the other      *)
(* pointer and increments its count in one step: a thread that copies      *)
(* another thread's pointer is assumed to be synchronised with its owner,  *)
(* as std::shared_ptr asks of its users too, so that the owner does not    *)
(* release or assign that pointer between the read and the increment.      *)
(***************************************************************************)
EXTENDS Naturals, FiniteSets

CONSTANTS
    Thread,     \* the threads; each has two pointers
    Object      \* the objects that are created

VARIABLES
    ptr,        \* _ptr, and with it _control, of every pointer
    ref_cnt,    \* _ref_cnt of every object's control block
    created,    \* history: the objects that were handed to a pointer
    deletes,    \* how often each object was deleted
    pending,    \* per thread: a release between its two steps
    raced       \* history: objects that two threads have released at the same time

vars == <<ptr, ref_cnt, created, deletes, pending, raced>>

Null == "null"
Pointer == Thread \X {1, 2}
Own(t) == {p \in Pointer : p[1] = t}
Idle == [at |-> <<>>, obj |-> Null, from |-> <<>>, move |-> FALSE, new |-> Null]

Init ==
    /\ ptr = [p \in Pointer |-> Null]
    /\ ref_cnt = [o \in Object |-> 0]
    /\ created = {}
    /\ deletes = [o \in Object |-> 0]
    /\ pending = [t \in Thread |-> Idle]
    /\ raced = {}

\* The pointer is not being assigned to by its thread.
Settled(p) == pending[p[1]] = Idle

\* Mutant: a pointer that is moved from keeps its object.
Acquire_keep(p, old, j, cnt) ==
    LET o == IF j.from # <<>> THEN old[j.from] ELSE j.new
    IN  /\ ptr' = [old EXCEPT ![p] = o]
        /\ ref_cnt' = IF o = Null \/ j.move THEN cnt ELSE [cnt EXCEPT ![o] = @ + 1]

\* What the pointer p gets once its old object is released: a copy of another pointer, its
\* object taken from it, a new object, or nothing.
Acquire(p, old, j, cnt) ==
    LET o == IF j.from # <<>> THEN old[j.from] ELSE j.new
    IN  /\ ptr' = [q \in Pointer |-> IF q = p THEN o
                                     ELSE IF j.move /\ q = j.from THEN Null ELSE old[q]]
        /\ ref_cnt' = IF o = Null \/ j.move THEN cnt
                      ELSE [cnt EXCEPT ![o] = IF j.from # <<>> THEN @ + 1 ELSE 1]

\* A constructor, or an assignment to a pointer that has no object.
Construct(t, j) ==
    /\ pending[t] = Idle /\ ptr[j.at] = Null
    /\ Acquire(j.at, ptr, j, ref_cnt)
    /\ created' = created \cup ({j.new} \ {Null})
    /\ UNCHANGED <<deletes, pending, raced>>

\* The first step of release, for an assignment, a reset or the destructor.
release(t, j) ==
    /\ pending[t] = Idle /\ ptr[j.at] # Null
    /\ LET o == ptr[j.at]
       IN  /\ ref_cnt' = [ref_cnt EXCEPT ![o] = @ - 1]
           /\ pending' = [pending EXCEPT ![t] = [j EXCEPT !.obj = o]]
           /\ raced' = raced \cup {q \in {o} : \E u \in Thread : pending[u].obj = o}
           /\ created' = created \cup ({j.new} \ {Null})
    /\ UNCHANGED <<ptr, deletes>>

\* The second step: the load and what follows it.  A control block that another thread has
\* deleted by then holds anything.
Finish(t) ==
    LET j == pending[t]
    IN  /\ j # Idle
        /\ \E last \in BOOLEAN :
               /\ deletes[j.obj] = 0 => last = (ref_cnt[j.obj] = 0)
               /\ deletes' = [deletes EXCEPT ![j.obj] = IF last THEN @ + 1 ELSE @]
        /\ Acquire(j.at, ptr, j, ref_cnt)
        /\ pending' = [pending EXCEPT ![t] = Idle]
        /\ UNCHANGED <<created, raced>>

\* What a thread may ask for: reset or destruction, a new object, a copy or a move.
Jobs(t) ==
    {[Idle EXCEPT !.at = p] : p \in Own(t)}
    \cup {[Idle EXCEPT !.at = x[1], !.new = x[2]] : x \in Own(t) \X (Object \ created)}
    \cup {[Idle EXCEPT !.at = x[1], !.from = x[2], !.move = x[3]] :
             x \in {y \in Own(t) \X Pointer \X BOOLEAN :
                       /\ y[1] # y[2] /\ ptr[y[2]] # Null /\ Settled(y[2])
                       /\ y[2][1] # t => ~y[3] /\ ptr[y[1]] = Null}}

Next == \E t \in Thread : Finish(t) \/ \E j \in Jobs(t) : Construct(t, j) \/ release(t, j)

-----------------------------------------------------------------------------
Holders(o) == {p \in Pointer : ptr[p] = o /\ Settled(p)}

\* No pointer is left with a deleted object, no object outlives its last
\* pointer, the count is the number of pointers when no release is under way,
\* and an object is deleted twice only where two threads have released it at
\* the same time, between each other's decrement and test.
Correct ==
    /\ \A o \in Object : Holders(o) # {} => deletes[o] = 0
    /\ \A o \in Object : deletes[o] > 1 => o \in raced
    /\ (\A t \in Thread : pending[t] = Idle) =>
           \A o \in created : /\ deletes[o] = 0 => ref_cnt[o] = Cardinality(Holders(o))
                              /\ Holders(o) = {} => deletes[o] > 0
=============================================================================
