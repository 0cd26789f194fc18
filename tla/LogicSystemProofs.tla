------------------------- MODULE LogicSystemProofs -------------------------
(***************************************************************************)
(* Proofs about LogicSystem, for any set of messages, any number of posts  *)
(* and any calls of stop().                                                *)
(***************************************************************************)
EXTENDS LogicSystem, SequenceTheorems, TLAPS

\* The mutex is held exactly while run() is between the wait's predicate and its
\* release, and a thread that found the predicate false still has an empty queue.
MutexInv ==
    /\ mutex = "logic" <=> lpc \in {"block", "test"}
    /\ lpc = "block" => queue = <<>>
    /\ lpc = "test" => queue # <<>> \/ stop

\* The inductive invariant.
LogicInv ==
    /\ LogicTypeOK
    /\ MutexInv
    /\ NoMissedMessage
    /\ FifoExactlyOnce

\* The backlog after a post: the queue grows by the message that was posted.
LEMMA PostKeepsBacklog ==
    ASSUME NEW S, NEW q \in Seq(S), NEW p \in Seq(S), NEW t \in Nat, NEW m \in S,
           Len(p) = t + Len(q),
           \A i \in 1..Len(q) : q[i] = p[t + i]
    PROVE  /\ Len(Append(p, m)) = t + Len(Append(q, m))
           /\ \A i \in 1..Len(Append(q, m)) : Append(q, m)[i] = Append(p, m)[t + i]
           /\ t > 0 => Append(p, m)[t] = p[t]
  OBVIOUS

\* The backlog after a pop: the queue loses its oldest message, which is the next
\* one in the order of the posts.
LEMMA PopKeepsBacklog ==
    ASSUME NEW S, NEW q \in Seq(S), NEW p \in Seq(S), NEW t \in Nat, q # <<>>,
           Len(p) = t + Len(q),
           \A i \in 1..Len(q) : q[i] = p[t + i]
    PROVE  /\ Len(p) = (t + 1) + Len(Tail(q))
           /\ \A i \in 1..Len(Tail(q)) : Tail(q)[i] = p[(t + 1) + i]
           /\ Head(q) = p[t + 1]
           /\ Head(q) \in S
           /\ Tail(q) \in Seq(S)
  OBVIOUS

\* The invariant holds when LogicSystem is constructed.
LEMMA InitEstablishesInv == LogicInit => LogicInv
  <1> SUFFICES ASSUME LogicInit PROVE LogicInv
    OBVIOUS
  <1>1. LogicTypeOK
    <2>1. <<>> \in Seq(LogicMessage)
      OBVIOUS
    <2>2. QED
      BY <2>1 DEF LogicInit, LogicTypeOK, LogicPc
  <1>2. MutexInv /\ NoMissedMessage
    BY DEF LogicInit, MutexInv, NoMissedMessage
  <1>3. FifoExactlyOnce
    BY DEF LogicInit, FifoExactlyOnce
  <1>4. QED
    BY <1>1, <1>2, <1>3 DEF LogicInv

\* post_message keeps the invariant: it needs the mutex, so the logic thread is not
\* between its predicate and the wait.
LEMMA PostKeepsInv ==
    ASSUME LogicInv, NEW m \in LogicMessage, post_message(m)
    PROVE  LogicInv'
  <1>1. LogicTypeOK'
    BY DEF LogicInv, LogicTypeOK, LogicPc, post_message, Notified
  <1>2. MutexInv'
    BY DEF LogicInv, LogicTypeOK, LogicPc, MutexInv, post_message, Notified
  <1>3. NoMissedMessage'
    BY DEF LogicInv, LogicTypeOK, NoMissedMessage, post_message, Notified
  <1>4. FifoExactlyOnce'
    <2>1. /\ Len(posted') = taken + Len(queue')
          /\ \A i \in 1..Len(queue') : queue'[i] = posted'[taken + i]
          /\ taken > 0 => posted'[taken] = posted[taken]
      <3>1. /\ queue \in Seq(LogicMessage) /\ posted \in Seq(LogicMessage)
            /\ taken \in Nat
            /\ Len(posted) = taken + Len(queue)
            /\ \A i \in 1..Len(queue) : queue[i] = posted[taken + i]
        BY DEF LogicInv, LogicTypeOK, FifoExactlyOnce
      <3>2. /\ Len(Append(posted, m)) = taken + Len(Append(queue, m))
            /\ \A i \in 1..Len(Append(queue, m)) :
                  Append(queue, m)[i] = Append(posted, m)[taken + i]
            /\ taken > 0 => Append(posted, m)[taken] = posted[taken]
        BY <3>1, PostKeepsBacklog
      <3>3. queue' = Append(queue, m) /\ posted' = Append(posted, m)
        BY DEF post_message
      <3>4. QED
        BY <3>2, <3>3
    <2>2. lpc' = "dispatch" => lpc = "dispatch"
      BY DEF post_message, Notified
    <2>3. QED
      BY <2>1, <2>2 DEF LogicInv, FifoExactlyOnce, post_message
  <1>5. QED
    BY <1>1, <1>2, <1>3, <1>4 DEF LogicInv

\* Popping the oldest message keeps the invariant.
LEMMA PopKeepsInv ==
    ASSUME LogicInv, Pop
    PROVE  LogicInv'
  <1>1. queue # <<>>
    BY DEF LogicInv, MutexInv, Pop
  <1>2. /\ Len(posted) = (taken + 1) + Len(Tail(queue))
        /\ \A i \in 1..Len(Tail(queue)) : Tail(queue)[i] = posted[(taken + 1) + i]
        /\ Head(queue) = posted[taken + 1]
        /\ Head(queue) \in LogicMessage
        /\ Tail(queue) \in Seq(LogicMessage)
    BY <1>1, PopKeepsBacklog DEF LogicInv, LogicTypeOK, FifoExactlyOnce
  <1>3. LogicTypeOK'
    BY <1>2 DEF LogicInv, LogicTypeOK, LogicPc, Pop
  <1>4. MutexInv' /\ NoMissedMessage'
    BY DEF LogicInv, MutexInv, NoMissedMessage, Pop
  <1>5. FifoExactlyOnce'
    BY <1>2 DEF LogicInv, LogicTypeOK, FifoExactlyOnce, Pop
  <1>6. QED
    BY <1>3, <1>4, <1>5 DEF LogicInv

\* Every step keeps the invariant.
LEMMA StepKeepsInv == LogicInv /\ [LogicStep]_lvars => LogicInv'
  <1> SUFFICES ASSUME LogicInv, [LogicStep]_lvars
               PROVE  LogicInv'
    OBVIOUS
  <1> USE DEF LogicInv, LogicTypeOK, LogicPc, MutexInv, NoMissedMessage,
              FifoExactlyOnce
  <1>1. ASSUME NEW m \in LogicMessage, post_message(m)
        PROVE  LogicInv'
    BY <1>1, PostKeepsInv
  <1>2. CASE CheckStop
    BY <1>2 DEF CheckStop
  <1>3. CASE Acquire
    BY <1>3 DEF Acquire
  <1>4. CASE Block
    BY <1>4 DEF Block
  <1>5. CASE Leave
    BY <1>5 DEF Leave
  <1>6. CASE Pop
    BY <1>6, PopKeepsInv
  <1>7. CASE FinishDispatch
    BY <1>7 DEF FinishDispatch
  <1>8. CASE SpuriousWake
    BY <1>8 DEF SpuriousWake
  <1>9. CASE SetStop
    BY <1>9 DEF SetStop
  <1>10. CASE NotifyAll
    BY <1>10 DEF NotifyAll, Notified
  <1>11. CASE UNCHANGED lvars
    BY <1>11 DEF lvars
  <1>12. QED
    BY <1>1, <1>2, <1>3, <1>4, <1>5, <1>6, <1>7, <1>8, <1>9, <1>10, <1>11
    DEF LogicStep

\* The inductive invariant of the logic layer, under any producers.
THEOREM LogicInvariant == LogicSafety => []LogicInv
  BY InitEstablishesInv, StepKeepsInv, PTL DEF LogicSafety

\* The bounded specification that TLC checks is an instance of the unbounded one.
LEMMA BoundedIsSafe == LogicSpec => LogicSafety
  <1>1. [LogicNext]_lvars => [LogicStep]_lvars
    BY DEF LogicNext
  <1>2. QED
    BY <1>1, PTL DEF LogicSpec, LogicSafety

\* The variables keep their types.
THEOREM LogicTypeCorrect == LogicSpec => []LogicTypeOK
  <1>1. LogicInv => LogicTypeOK
    BY DEF LogicInv
  <1>2. QED
    BY <1>1, LogicInvariant, BoundedIsSafe, PTL

\* The logic thread never sleeps on a message: a post is never missed.
THEOREM NeverSleepsOnBacklog == LogicSpec => []NoMissedMessage
  <1>1. LogicInv => NoMissedMessage
    BY DEF LogicInv
  <1>2. QED
    BY <1>1, LogicInvariant, BoundedIsSafe, PTL

\* Messages go from post_message to dispatch in order, each once.
THEOREM HandOffIsFifo == LogicSpec => []FifoExactlyOnce
  <1>1. LogicInv => FifoExactlyOnce
    BY DEF LogicInv
  <1>2. QED
    BY <1>1, LogicInvariant, BoundedIsSafe, PTL

\* The logic layer implements the mailbox: each of its steps posts, takes, closes or
\* leaves the mailbox as it is.
THEOREM LogicImplementsMailbox == LogicSafety => Box!Safety
  <1>1. LogicInit => Box!Init
    BY DEF LogicInit, Box!Init
  <1>2. LogicInv /\ [LogicStep]_lvars => [Box!Next]_(Box!vars)
    <2> SUFFICES ASSUME LogicInv, [LogicStep]_lvars
                 PROVE  [Box!Next]_(Box!vars)
      OBVIOUS
    <2> USE DEF Box!Next, Box!vars
    <2>1. ASSUME NEW m \in LogicMessage, post_message(m)
          PROVE  Box!Post(m)
      BY <2>1 DEF post_message, Box!Post
    <2>2. CASE Pop
      BY <2>2 DEF Pop, Box!Take, LogicInv, LogicTypeOK, MutexInv, FifoExactlyOnce
    <2>3. CASE SetStop
      BY <2>3 DEF SetStop, Box!Close
    <2>4. CASE CheckStop \/ Acquire \/ Block \/ Leave \/ FinishDispatch
                 \/ SpuriousWake \/ NotifyAll \/ UNCHANGED lvars
      BY <2>4 DEF CheckStop, Acquire, Block, Leave, FinishDispatch, SpuriousWake,
                  NotifyAll, lvars
    <2>5. QED
      BY <2>1, <2>2, <2>3, <2>4 DEF LogicStep
  <1>3. QED
    BY <1>1, <1>2, LogicInvariant, PTL DEF LogicSafety, Box!Safety
=============================================================================
