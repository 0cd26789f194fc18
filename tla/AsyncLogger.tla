---------------------------- MODULE AsyncLogger ----------------------------
(***************************************************************************)
(* logger and log_queue of the asynchronous logger: threads that log hand  *)
(* their lines to a queue, a worker thread writes each line to every sink, *)
(* and the destructor shuts the queue down and joins the worker.           *)
(*                                                                         *)
(* The lines are numbered in the order in which the queue accepted them.   *)
(* push and shutdown notify after they have released the mutex, so each is *)
(* two steps.  The owner destroys the logger when no call of log or        *)
(* add_sink is under way.  A sink may throw (rotating_file_sink does, when *)
(* it cannot open its file): nothing catches it on the worker thread, and  *)
(* the process terminates.                                                 *)
(***************************************************************************)
EXTENDS Naturals, Sequences

CONSTANTS
    Client,     \* the threads that call log and add_sink
    MaxLogs,    \* bound on the lines logged
    MaxSinks    \* bound on the sinks added

ASSUME LoggerAssumption ==
    /\ MaxLogs \in Nat
    /\ MaxSinks \in Nat

Sink == 1..MaxSinks

VARIABLES
    queue,      \* log_queue::_queue
    mtx,        \* log_queue::_mtx: "free", or held by "worker"
    shut,       \* log_queue::_is_shutdown
    cpc,        \* "notify" between the two halves of push, per client
    opc,        \* where the owner is: "live", then the steps of ~logger
    wpc,        \* where the worker is in process_queue
    msg,        \* process_queue's msg; 0 before the first
    nsinks,     \* _sinks.size()
    next,       \* the sink that process_queue's loop writes to next
    logged,     \* history: how many lines were accepted
    since,      \* history: how many lines had been accepted when a sink was added
    written     \* history: the lines written to each sink

qvars == <<queue, mtx, shut>>
svars == <<nsinks, since>>
vars == <<qvars, cpc, opc, wpc, msg, svars, next, logged, written>>

WorkerPc == {"acquire", "block", "waiting", "test", "lock", "write", "exited",
             "terminated"}

Init ==
    /\ queue = <<>>
    /\ mtx = "free"
    /\ shut = FALSE
    /\ cpc = [c \in Client |-> "idle"]
    /\ opc = "live"
    /\ wpc = "acquire"
    /\ msg = 0
    /\ nsinks = 0
    /\ next = 1
    /\ logged = 0
    /\ since = [s \in Sink |-> 0]
    /\ written = [s \in Sink |-> <<>>]

Alive == wpc # "terminated"

\* A notification wakes the worker, if it is blocked.
Notified == IF wpc = "waiting" THEN "acquire" ELSE wpc

-----------------------------------------------------------------------------
(* The clients and the owner. *)

\* Mutant: push without its lock_guard.
push_unlocked(c) ==
    /\ Alive /\ opc = "live" /\ cpc[c] = "idle"
    /\ logged < MaxLogs
    /\ logged' = logged + 1
    /\ queue' = Append(queue, logged + 1)
    /\ wpc' = Notified
    /\ UNCHANGED <<mtx, shut, cpc, opc, msg, svars, next, written>>

\* log, and push up to the release of the mutex.
push(c) ==
    /\ Alive /\ opc = "live" /\ cpc[c] = "idle"
    /\ mtx = "free"
    /\ logged < MaxLogs
    /\ logged' = logged + 1
    /\ queue' = Append(queue, logged + 1)
    /\ cpc' = [cpc EXCEPT ![c] = "notify"]
    /\ UNCHANGED <<mtx, shut, opc, wpc, msg, svars, next, written>>

\* Mutant: push does not notify.
NotifyOne_lost(c) ==
    /\ Alive /\ cpc[c] = "notify"
    /\ cpc' = [cpc EXCEPT ![c] = "idle"]
    /\ UNCHANGED <<qvars, opc, wpc, msg, svars, next, logged, written>>

\* push's notify_one.
NotifyOne(c) ==
    /\ Alive /\ cpc[c] = "notify"
    /\ cpc' = [cpc EXCEPT ![c] = "idle"]
    /\ wpc' = Notified
    /\ UNCHANGED <<qvars, opc, msg, svars, next, logged, written>>

\* _sink_mtx is held while the worker writes a line to the sinks.
add_sink(c) ==
    /\ Alive /\ opc = "live" /\ cpc[c] = "idle"
    /\ wpc # "write"
    /\ nsinks < MaxSinks
    /\ nsinks' = nsinks + 1
    /\ since' = [since EXCEPT ![nsinks + 1] = logged]
    /\ UNCHANGED <<qvars, cpc, opc, wpc, msg, next, logged, written>>

\* Mutant: shutdown sets the flag without the mutex.
shutdown_unlocked ==
    /\ Alive /\ opc = "live"
    /\ \A c \in Client : cpc[c] = "idle"
    /\ shut' = TRUE
    /\ opc' = "notify"
    /\ UNCHANGED <<queue, mtx, cpc, wpc, msg, svars, next, logged, written>>

\* ~logger: shutdown up to the release of the mutex.
shutdown ==
    /\ Alive /\ opc = "live"
    /\ \A c \in Client : cpc[c] = "idle"
    /\ mtx = "free"
    /\ shut' = TRUE
    /\ opc' = "notify"
    /\ UNCHANGED <<queue, mtx, cpc, wpc, msg, svars, next, logged, written>>

\* shutdown's notify_all.
NotifyAll ==
    /\ Alive /\ opc = "notify"
    /\ opc' = "join"
    /\ wpc' = Notified
    /\ UNCHANGED <<qvars, cpc, msg, svars, next, logged, written>>

\* ~logger: join returns.
Join ==
    /\ opc = "join" /\ wpc = "exited"
    /\ opc' = "destroyed"
    /\ UNCHANGED <<qvars, cpc, wpc, msg, svars, next, logged, written>>

-----------------------------------------------------------------------------
(* The worker: pop, then a write to every sink. *)

\* pop takes the mutex, or takes it back when the wait returns, and evaluates the
\* predicate.
Acquire ==
    /\ wpc = "acquire" /\ mtx = "free"
    /\ mtx' = "worker"
    /\ wpc' = IF queue # <<>> \/ shut THEN "test" ELSE "block"
    /\ UNCHANGED <<queue, shut, cpc, opc, msg, svars, next, logged, written>>

\* The wait releases the mutex and blocks, in one step.
Block ==
    /\ wpc = "block"
    /\ mtx' = "free"
    /\ wpc' = "waiting"
    /\ UNCHANGED <<queue, shut, cpc, opc, msg, svars, next, logged, written>>

\* std::condition_variable may wake up without a notification.
SpuriousWake ==
    /\ wpc = "waiting"
    /\ wpc' = "acquire"
    /\ UNCHANGED <<qvars, cpc, opc, msg, svars, next, logged, written>>

\* Mutant: a shut-down queue is left as it is.
PopFails_early ==
    /\ wpc = "test" /\ shut
    /\ mtx' = "free"
    /\ wpc' = "exited"
    /\ UNCHANGED <<queue, shut, cpc, opc, msg, svars, next, logged, written>>

\* pop returns false: the queue is empty and shut down.
PopFails ==
    /\ wpc = "test" /\ queue = <<>> /\ shut
    /\ mtx' = "free"
    /\ wpc' = "exited"
    /\ UNCHANGED <<queue, shut, cpc, opc, msg, svars, next, logged, written>>

\* pop returns true: the oldest line becomes msg.
Pop ==
    /\ wpc = "test" /\ queue # <<>>
    /\ msg' = Head(queue)
    /\ queue' = Tail(queue)
    /\ mtx' = "free"
    /\ wpc' = "lock"
    /\ UNCHANGED <<shut, cpc, opc, svars, next, logged, written>>

\* Mutant: the loop over the sinks starts at the second.
LockSinks_skip ==
    /\ wpc = "lock"
    /\ next' = 2
    /\ wpc' = "write"
    /\ UNCHANGED <<qvars, cpc, opc, msg, svars, logged, written>>

\* The worker locks _sink_mtx and starts with the first sink.
LockSinks ==
    /\ wpc = "lock"
    /\ next' = 1
    /\ wpc' = "write"
    /\ UNCHANGED <<qvars, cpc, opc, msg, svars, logged, written>>

\* Mutant: the loop runs one step past the last sink.
WriteSink_past ==
    /\ wpc = "write" /\ next <= nsinks + 1
    /\ next' = next + 1
    /\ UNCHANGED <<qvars, cpc, opc, wpc, msg, svars, logged, written>>

WriteSink ==
    /\ wpc = "write" /\ next <= nsinks
    /\ written' = [written EXCEPT ![next] = Append(@, msg)]
    /\ next' = next + 1
    /\ UNCHANGED <<qvars, cpc, opc, wpc, msg, svars, logged>>

\* The write of a sink throws: std::terminate.
SinkThrows ==
    /\ wpc = "write" /\ next <= nsinks
    /\ wpc' = "terminated"
    /\ UNCHANGED <<qvars, cpc, opc, msg, svars, next, logged, written>>

\* The line is written everywhere: unlock, and back to pop.
UnlockSinks ==
    /\ wpc = "write" /\ next > nsinks
    /\ wpc' = "acquire"
    /\ UNCHANGED <<qvars, cpc, opc, msg, svars, next, logged, written>>

Worker ==
    \/ Acquire \/ Block \/ PopFails \/ Pop
    \/ LockSinks \/ WriteSink \/ UnlockSinks

Next ==
    \/ \E c \in Client : push(c) \/ NotifyOne(c) \/ add_sink(c)
    \/ shutdown \/ NotifyAll \/ Join
    \/ Acquire \/ Block \/ SpuriousWake \/ PopFails \/ Pop
    \/ LockSinks \/ WriteSink \/ SinkThrows \/ UnlockSinks

Spec == Init /\ [][Next]_vars

\* The worker runs, and calls that began finish.
FairSpec ==
    /\ Spec
    /\ WF_vars(Worker)
    /\ \A c \in Client : WF_vars(NotifyOne(c))
    /\ WF_vars(NotifyAll \/ Join)
-----------------------------------------------------------------------------
TypeOK ==
    /\ queue \in Seq(1..MaxLogs)
    /\ mtx \in {"free", "worker"}
    /\ shut \in BOOLEAN
    /\ cpc \in [Client -> {"idle", "notify"}]
    /\ opc \in {"live", "notify", "join", "destroyed"}
    /\ wpc \in WorkerPc
    /\ msg \in 0..MaxLogs
    /\ nsinks \in 0..MaxSinks
    /\ next \in 1..(MaxSinks + 1)
    /\ logged \in 0..MaxLogs
    /\ since \in [Sink -> 0..MaxLogs]
    /\ written \in [Sink -> Seq(1..MaxLogs)]

\* A worker that is blocked has nothing to do, or the wakeup is on its way: a line in
\* the queue has a client before its notify_one, a shut-down queue the owner before its
\* notify_all (log_queue: push, pop, shutdown).
WakeupPending ==
    wpc = "waiting" =>
        /\ queue # <<>> => \E c \in Client : cpc[c] = "notify"
        /\ shut => opc = "notify"

\* The lines from a+1 to b.
Lines(a, b) == [i \in 1..(b - a) |-> a + i]

\* What sink s holds is an unbroken run of the lines: it starts no later than the first
\* line logged after the sink was added, and ends with the line that the worker has
\* just finished or, until the loop comes to s, the one before.
SinkRuns ==
    \A s \in 1..nsinks : \E n \in 0..since[s] :
        \/ written[s] = Lines(n, msg)
        \/ wpc \in {"lock", "write", "terminated"} /\ written[s] = Lines(n, msg - 1)

\* The destructor loses nothing: when it has returned, every sink holds every line that
\* was logged after the sink was added, once and in order, although shutdown may come
\* while lines are queued (~logger, pop).
DestroyedIsComplete ==
    opc = "destroyed" =>
        \A s \in 1..nsinks : \E n \in 0..since[s] : written[s] = Lines(n, logged)

\* The destructor returns, unless a sink throws: the shutdown cannot slip between the
\* worker's test and its wait.
DestructorReturns == shut ~> (opc = "destroyed" \/ ~Alive)

\* Every line reaches every sink added before it, unless a sink throws.
EveryLineWritten ==
    \A n \in 1..MaxLogs : \A s \in Sink :
        (nsinks >= s /\ since[s] < n /\ logged >= n)
            ~> (~Alive \/ \E i \in DOMAIN written[s] : written[s][i] = n)
=============================================================================
