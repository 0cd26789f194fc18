----------------------------- MODULE EventLoop -----------------------------
(***************************************************************************)
(* EventLoop of 04_epoll_coroutines.cpp with tasks as its comments allow   *)
(* them: a running coroutine awaits a descriptor, finishes, or drops the   *)
(* owner of a suspended one, whose descriptor may then be awaited by       *)
(* another while events of the old wait are still in the batch.            *)
(* Everything runs on one thread; a coroutine runs until it suspends.      *)
(***************************************************************************)
EXTENDS Naturals, Sequences, FiniteSets, Functions

CONSTANTS
    Task,
    Fd,             \* the descriptors
    MaxToken        \* bound on next_token_

VARIABLES
    next_token,     \* next_token_
    waiting,        \* waiting_: token -> [fd, task]
    epoll,          \* the kernel's interest list: fd -> token
    batch,          \* the events of this epoll_wait that are not handled yet
    state,          \* each coroutine: "created", "suspended", "running", "done", "destroyed"
    token,          \* token_ of each coroutine's Waiter
    at,             \* "start" (main starts the tasks), "run", "ended", "failed"
    seen,           \* history: waiting_ when the batch was filled
    stale           \* history: an event has resumed a wait that it was not for

vars == <<next_token, waiting, epoll, batch, state, token, at, seen, stale>>

Empty == [k \in {} |-> 0]
Without(f, k) == Restrict(f, DOMAIN f \ {k})
With(f, k, v) == [x \in DOMAIN f \cup {k} |-> IF x = k THEN v ELSE f[x]]
Idle == \A t \in Task : state[t] # "running"

Init ==
    /\ next_token = 1 /\ waiting = Empty /\ epoll = Empty /\ batch = <<>>
    /\ state = [t \in Task |-> "created"] /\ token = [t \in Task |-> 0]
    /\ at = "start" /\ seen = Empty /\ stale = FALSE

\* task.resume() of main.
Start(t) ==
    /\ at = "start" /\ Idle /\ state[t] = "created"
    /\ state' = [state EXCEPT ![t] = "running"]
    /\ UNCHANGED <<next_token, waiting, epoll, batch, token, at, seen, stale>>

StartRun ==
    /\ at = "start" /\ Idle /\ \A t \in Task : state[t] # "created"
    /\ at' = "run"
    /\ UNCHANGED <<next_token, waiting, epoll, batch, state, token, seen, stale>>

watch_by_fd(t, fd) ==
    /\ fd \notin DOMAIN epoll
    /\ next_token' = next_token + 1
    /\ waiting' = With(waiting, fd, [fd |-> fd, task |-> t])
    /\ epoll' = With(epoll, fd, fd)
    /\ token' = [token EXCEPT ![t] = fd]

watch(t, fd) ==
    /\ fd \notin DOMAIN epoll
    /\ next_token' = next_token + 1
    /\ waiting' = With(waiting, next_token, [fd |-> fd, task |-> t])
    /\ epoll' = With(epoll, fd, next_token)
    /\ token' = [token EXCEPT ![t] = next_token]

\* co_await: the coroutine suspends, and control is back in main or in run.
Await(t, fd) ==
    /\ state[t] = "running" /\ next_token < MaxToken
    /\ watch(t, fd)
    /\ state' = [state EXCEPT ![t] = "suspended"]
    /\ UNCHANGED <<batch, at, seen, stale>>

\* epoll_ctl refuses a second waiter: the token is taken back, the exception
\* ends the coroutine and is thrown again by resume() or by run().
AwaitFails(t, fd) ==
    /\ state[t] = "running" /\ next_token < MaxToken /\ fd \in DOMAIN epoll
    /\ next_token' = next_token + 1
    /\ state' = [state EXCEPT ![t] = "done"] /\ at' = "failed"
    /\ UNCHANGED <<waiting, epoll, batch, token, seen, stale>>

Finish(t) ==
    /\ state[t] = "running"
    /\ state' = [state EXCEPT ![t] = "done"]
    /\ UNCHANGED <<next_token, waiting, epoll, batch, token, at, seen, stale>>

cancel(k) ==
    IF k \in DOMAIN waiting
    THEN waiting' = Without(waiting, k) /\ epoll' = Without(epoll, waiting[k].fd)
    ELSE UNCHANGED <<waiting, epoll>>

\* The owner of a suspended coroutine goes: ~Waiter cancels its wait.
Destroy(t, u) ==
    /\ state[t] = "running" /\ state[u] = "suspended"
    /\ cancel(token[u])
    /\ state' = [state EXCEPT ![u] = "destroyed"]
    /\ UNCHANGED <<next_token, batch, token, at, seen, stale>>

EpollWait ==
    /\ at = "run" /\ Idle /\ batch = <<>> /\ waiting # Empty
    /\ \E n \in 1..Cardinality(DOMAIN epoll) : \E order \in Injection(1..n, DOMAIN epoll) :
         batch' = [k \in 1..n |-> epoll[order[k]]]
    /\ seen' = waiting
    /\ UNCHANGED <<next_token, waiting, epoll, state, token, at, stale>>

\* Five seconds without an event: run() throws.
Timeout ==
    /\ at = "run" /\ Idle /\ batch = <<>> /\ waiting # Empty
    /\ at' = "failed"
    /\ UNCHANGED <<next_token, waiting, epoll, batch, state, token, seen, stale>>

\* An event whose wait is gone is dropped; otherwise the wait is cancelled
\* first and then the coroutine resumed, where ~Waiter finds nothing to cancel.
Handle ==
    /\ at = "run" /\ Idle /\ batch # <<>>
    /\ batch' = Tail(batch)
    /\ LET k == batch[1]
       IN  IF k \notin DOMAIN waiting
           THEN UNCHANGED <<waiting, epoll, state, stale>>
           ELSE /\ cancel(k)
                /\ state' = [state EXCEPT ![waiting[k].task] = "running"]
                /\ stale' = (stale \/ waiting[k] # seen[k])
    /\ UNCHANGED <<next_token, token, at, seen>>

EndRun ==
    /\ at = "run" /\ Idle /\ batch = <<>> /\ waiting = Empty
    /\ at' = "ended"
    /\ UNCHANGED <<next_token, waiting, epoll, batch, state, token, seen, stale>>

Next ==
    \/ StartRun \/ EpollWait \/ Timeout \/ Handle \/ EndRun
    \/ /\ at \in {"start", "run"}
       /\ \E t \in Task :
            \/ Start(t) \/ Finish(t)
            \/ \E fd \in Fd : Await(t, fd) \/ AwaitFails(t, fd)
            \/ \E u \in Task : Destroy(t, u)

-----------------------------------------------------------------------------
Suspended == {t \in Task : state[t] = "suspended"}

\* A suspended coroutine, and no other, has one entry in waiting_ and one in
\* the kernel, under the same token; no event resumes a wait that began after
\* it was reported; and the loop ends only when no coroutine is suspended.
Correct ==
    /\ DOMAIN waiting = {token[t] : t \in Suspended}
    /\ \A t \in Suspended : waiting[token[t]].task = t
    /\ \A k \in DOMAIN waiting : /\ waiting[k].fd \in DOMAIN epoll
                                 /\ epoll[waiting[k].fd] = k
    /\ DOMAIN epoll = {waiting[k].fd : k \in DOMAIN waiting}
    /\ ~stale
    /\ at = "ended" => \A t \in Task : state[t] \in {"done", "destroyed"}
=============================================================================
