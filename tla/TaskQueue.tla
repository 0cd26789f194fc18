----------------------------- MODULE TaskQueue -----------------------------
(***************************************************************************)
(* The task queue of c_tasks_queue.c: a linked list with a head and a tail *)
(* pointer under a mutex, a condition variable, one worker, and the main   *)
(* thread that adds tasks and then tells the worker to stop.  What runs    *)
(* under the mutex is one step, with the signal that is sent inside it.    *)
(***************************************************************************)
EXTENDS Naturals, Sequences

CONSTANT Tasks      \* the number of tasks main adds

VARIABLES
    head, tail,     \* queue->head and queue->tail, 0 for NULL
    next,           \* the next pointer of each task's node
    alive,          \* the nodes that are allocated
    stop,           \* queue->stop
    worker,         \* where the worker is: "lock", "waiting", "woken", "run", "end"
    task,           \* the worker's task, 0 for NULL
    added,          \* how many tasks main has added
    joined,         \* main has joined the worker
    done            \* history: the tasks in the order they ran

vars == <<head, tail, next, alive, stop, worker, task, added, joined, done>>

Null == 0
Node == 1..Tasks

Init ==
    /\ head = Null /\ tail = Null /\ next = [t \in Node |-> Null] /\ alive = {}
    /\ stop = FALSE /\ worker = "lock" /\ task = Null
    /\ added = 0 /\ joined = FALSE /\ done = <<>>

\* pthread_cond_signal; a worker that is not waiting has nothing to hear.
Signal == worker' = IF worker = "waiting" THEN "woken" ELSE worker

\* New nodes are numbered in the order of the calls.
enqueue ==
    /\ added < Tasks /\ ~stop
    /\ LET t == added + 1
       IN  /\ alive' = alive \cup {t} /\ added' = t
           /\ next' = IF tail # Null THEN [next EXCEPT ![tail] = t] ELSE next
           /\ head' = IF tail # Null THEN head ELSE t
           /\ tail' = t
    /\ Signal
    /\ UNCHANGED <<stop, task, joined, done>>

RequestStop ==
    /\ added = Tasks /\ ~stop
    /\ stop' = TRUE
    /\ Signal
    /\ UNCHANGED <<head, tail, next, alive, task, added, joined, done>>

SpuriousWake ==
    /\ worker = "waiting" /\ worker' = "woken"
    /\ UNCHANGED <<head, tail, next, alive, stop, task, added, joined, done>>

dequeue_keeps_tail ==
    /\ task' = head /\ head' = next[head]
    /\ UNCHANGED tail

dequeue ==
    /\ task' = head /\ head' = next[head]
    /\ tail' = IF next[head] = Null THEN Null ELSE tail

\* The worker takes the mutex, at the top of its loop or after a wakeup.
Locked ==
    /\ worker \in {"lock", "woken"}
    /\ \/ /\ head = Null /\ ~stop
          /\ worker' = "waiting" /\ UNCHANGED <<head, tail, task>>
       \/ /\ head = Null /\ stop
          /\ worker' = "end" /\ UNCHANGED <<head, tail, task>>
       \/ head # Null /\ dequeue /\ worker' = "run"
    /\ UNCHANGED <<next, alive, stop, added, joined, done>>

\* task->func(task->arg) and free(task).
Run ==
    /\ worker = "run"
    /\ done' = Append(done, task) /\ alive' = alive \ {task}
    /\ worker' = "lock" /\ task' = Null
    /\ UNCHANGED <<head, tail, next, stop, added, joined>>

Join ==
    /\ stop /\ worker = "end" /\ ~joined
    /\ joined' = TRUE
    /\ UNCHANGED <<head, tail, next, alive, stop, worker, task, added, done>>

Next == enqueue \/ RequestStop \/ SpuriousWake \/ Locked \/ Run \/ Join

-----------------------------------------------------------------------------
\* The worker never sleeps on a task or on a stop, the queue never points at a
\* node that was freed, the tasks run in the order they were added, and when
\* main has joined the worker all have run and no node is left.
Correct ==
    /\ worker = "waiting" => head = Null /\ ~stop
    /\ head # Null => head \in alive
    /\ tail # Null => tail \in alive /\ next[tail] = Null
    /\ head = Null <=> tail = Null
    /\ done = [k \in 1..Len(done) |-> k]
    /\ joined => Len(done) = Tasks /\ alive = {}
=============================================================================
