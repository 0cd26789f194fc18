---------------------------- MODULE LogicSystem ----------------------------
(***************************************************************************)
(* The logic layer of the chat server: LogicSystem's message queue, its    *)
(* mutex and condition variable, the loop run() of the logic thread, and   *)
(* stop(), which the io thread calls.                                      *)
(*                                                                         *)
(* post_message holds the mutex from its first to its last line and calls  *)
(* nothing that waits, so it is one step that needs the mutex free.  run() *)
(* is cut where another thread can act: between the predicate of the wait  *)
(* and the moment the thread blocks it still owns the mutex, which         *)
(* post_message respects and stop() does not.                              *)
(***************************************************************************)
EXTENDS Naturals, Sequences

CONSTANTS
    LogicMessage,   \* the messages that can be posted
    MaxPosts        \* bound on the number of messages posted

ASSUME LogicAssumption == MaxPosts \in Nat

VARIABLES
    queue,      \* LogicSystem::_queue
    mutex,      \* LogicSystem::_mutex: "free", or held by "logic"
    stop,       \* LogicSystem::_stop
    stopper,    \* "notify" between the two statements of stop()
    lpc,        \* where the logic thread is in run()
    current,    \* run()'s local msg; a sequence of length 0 or 1
    posted,     \* history: the messages posted, oldest first
    taken       \* history: how many were popped

lvars == <<queue, mutex, stop, stopper, lpc, current, posted, taken>>

LogicPc == {"check", "acquire", "block", "waiting", "test", "dispatch", "exited"}

LogicInit ==
    /\ queue = <<>>
    /\ mutex = "free"
    /\ stop = FALSE
    /\ stopper = "idle"
    /\ lpc = "check"
    /\ current = <<>>
    /\ posted = <<>>
    /\ taken = 0

\* The condition variable wakes the logic thread, if it is blocked on it.
Notified == IF lpc = "waiting" THEN "acquire" ELSE lpc

\* Mutant: post_message without its lock_guard.
post_message_unlocked(m) ==
    /\ queue' = Append(queue, m)
    /\ posted' = Append(posted, m)
    /\ lpc' = Notified
    /\ UNCHANGED <<mutex, stop, stopper, current, taken>>

\* Mutant: post_message that forgets to notify.
post_message_silent(m) ==
    /\ mutex = "free"
    /\ queue' = Append(queue, m)
    /\ posted' = Append(posted, m)
    /\ UNCHANGED <<mutex, stop, stopper, lpc, current, taken>>

post_message(m) ==
    /\ mutex = "free"
    /\ queue' = Append(queue, m)
    /\ posted' = Append(posted, m)
    /\ lpc' = Notified
    /\ UNCHANGED <<mutex, stop, stopper, current, taken>>

\* while (!_stop)
CheckStop ==
    /\ lpc = "check"
    /\ lpc' = IF stop THEN "exited" ELSE "acquire"
    /\ UNCHANGED <<queue, mutex, stop, stopper, current, posted, taken>>

\* Take the mutex, in the constructor of the lock or when the wait returns, and
\* evaluate the predicate of the wait.
Acquire ==
    /\ lpc = "acquire"
    /\ mutex = "free"
    /\ mutex' = "logic"
    /\ lpc' = IF queue # <<>> \/ stop THEN "test" ELSE "block"
    /\ UNCHANGED <<queue, stop, stopper, current, posted, taken>>

\* The predicate was false: release the mutex and block, in one step.
Block ==
    /\ lpc = "block"
    /\ mutex' = "free"
    /\ lpc' = "waiting"
    /\ UNCHANGED <<queue, stop, stopper, current, posted, taken>>

\* std::condition_variable may wake up without a notification.
SpuriousWake ==
    /\ lpc = "waiting"
    /\ lpc' = "acquire"
    /\ UNCHANGED <<queue, mutex, stop, stopper, current, posted, taken>>

\* if (_stop) break: whatever is queued stays queued.
Leave ==
    /\ lpc = "test"
    /\ stop
    /\ mutex' = "free"
    /\ lpc' = "exited"
    /\ UNCHANGED <<queue, stop, stopper, current, posted, taken>>

\* Mutant: take the newest message instead of the oldest.
Pop_newest ==
    /\ lpc = "test"
    /\ ~stop
    /\ current' = <<queue[Len(queue)]>>
    /\ queue' = SubSeq(queue, 1, Len(queue) - 1)
    /\ mutex' = "free"
    /\ lpc' = "dispatch"
    /\ taken' = taken + 1
    /\ UNCHANGED <<stop, stopper, posted>>

\* Mutant: the whole queue is moved into msg.
Pop_whole ==
    /\ lpc = "test"
    /\ ~stop
    /\ current' = <<queue>>
    /\ queue' = Tail(queue)
    /\ mutex' = "free"
    /\ lpc' = "dispatch"
    /\ taken' = taken + 1
    /\ UNCHANGED <<stop, stopper, posted>>

\* Mutant: the test of _stop after the wait is dropped.
Pop_after_stop ==
    /\ lpc = "test"
    /\ queue # <<>>
    /\ current' = <<Head(queue)>>
    /\ queue' = Tail(queue)
    /\ mutex' = "free"
    /\ lpc' = "dispatch"
    /\ taken' = taken + 1
    /\ UNCHANGED <<stop, stopper, posted>>

\* msg = front(); pop(); unlock(); then dispatch(msg) runs without the mutex.
Pop ==
    /\ lpc = "test"
    /\ ~stop
    /\ current' = <<Head(queue)>>
    /\ queue' = Tail(queue)
    /\ mutex' = "free"
    /\ lpc' = "dispatch"
    /\ taken' = taken + 1
    /\ UNCHANGED <<stop, stopper, posted>>

\* dispatch(msg) has returned.
FinishDispatch ==
    /\ lpc = "dispatch"
    /\ lpc' = "check"
    /\ current' = <<>>
    /\ UNCHANGED <<queue, mutex, stop, stopper, posted, taken>>

\* stop(), first statement: no mutex is taken.
SetStop ==
    /\ stopper = "idle"
    /\ stop' = TRUE
    /\ stopper' = "notify"
    /\ UNCHANGED <<queue, mutex, lpc, current, posted, taken>>

\* stop(), second statement.
NotifyAll ==
    /\ stopper = "notify"
    /\ stopper' = "idle"
    /\ lpc' = Notified
    /\ UNCHANGED <<queue, mutex, stop, current, posted, taken>>

LogicThread ==
    CheckStop \/ Acquire \/ Block \/ Leave \/ Pop \/ FinishDispatch

LogicStep ==
    \/ \E m \in LogicMessage : post_message(m)
    \/ CheckStop \/ Acquire \/ Block \/ Leave \/ Pop \/ FinishDispatch
    \/ SpuriousWake
    \/ SetStop
    \/ NotifyAll

\* The logic layer under any producers and any callers of stop().
LogicSafety == LogicInit /\ [][LogicStep]_lvars

LogicNext == LogicStep /\ Len(posted') <= MaxPosts

\* The logic thread keeps running, and a stop() that began finishes.
LogicSpec ==
    /\ LogicInit
    /\ [][LogicNext]_lvars
    /\ WF_lvars(LogicThread)
    /\ WF_lvars(NotifyAll)

-----------------------------------------------------------------------------
LogicTypeOK ==
    /\ queue \in Seq(LogicMessage)
    /\ mutex \in {"free", "logic"}
    /\ stop \in BOOLEAN
    /\ stopper \in {"idle", "notify"}
    /\ lpc \in LogicPc
    /\ current \in Seq(LogicMessage)
    /\ posted \in Seq(LogicMessage)
    /\ taken \in Nat

\* The logic thread never sleeps on a backlog: when it is blocked on the
\* condition variable and nobody has woken it, the queue is empty.  This is what
\* evaluating the predicate and pushing under one mutex is for
\* (logic_system.cpp, post_message and run).
NoMissedMessage == lpc = "waiting" => queue = <<>>

\* The queue holds exactly the messages that were posted and not yet popped, in
\* the order of the posts, and the message in dispatch is the last one popped:
\* no message is lost, duplicated or overtaken between post_message and dispatch.
FifoExactlyOnce ==
    /\ Len(posted) = taken + Len(queue)
    /\ \A i \in 1..Len(queue) : queue[i] = posted[taken + i]
    /\ lpc = "dispatch" => taken > 0 /\ current = <<posted[taken]>>

\* Every posted message is popped, unless the logic thread is told to stop.
EveryMessageServed ==
    \A n \in 1..MaxPosts : Len(posted) >= n ~> (taken >= n \/ stop)

\* The logic layer is a mailbox: the queue, the mutex and the wakeups are hidden.
Box == INSTANCE Mailbox WITH Message <- LogicMessage, closed <- stop
BoxSpec == Box!Spec
=============================================================================
