------------------------- MODULE AsyncLoggerProofs -------------------------
(***************************************************************************)
(* Proofs about AsyncLogger, for any number of clients, lines and sinks.   *)
(***************************************************************************)
EXTENDS AsyncLogger, SequenceTheorems, TLAPS

\* The worker holds the mutex exactly between the predicate of its wait and the release,
\* and what the predicate found is still so.
MutexInv ==
    /\ mtx = "worker" <=> wpc \in {"block", "test"}
    /\ wpc = "block" => queue = <<>> /\ ~shut
    /\ wpc = "test" => queue # <<>> \/ shut

\* The queue holds the lines after msg, up to the last one accepted.
QueueInv ==
    /\ Len(queue) = logged - msg
    /\ \A i \in 1..Len(queue) : queue[i] = msg + i
    /\ wpc \in {"lock", "write", "terminated"} => msg > 0

\* The queue is shut down from the start of the destructor on; the worker leaves only
\* then, and only with an empty queue; the destructor returns after it.
ShutdownInv ==
    /\ shut <=> opc # "live"
    /\ wpc = "exited" => shut /\ queue = <<>>
    /\ opc = "destroyed" => wpc = "exited"

\* The line up to which sink s has been served: the loop over the sinks has come to next.
End(s) ==
    IF wpc = "lock" \/ (wpc \in {"write", "terminated"} /\ s >= next) THEN msg - 1 ELSE msg

\* A sink holds the lines from some point, not later than its addition, up to End; a sink
\* not yet added holds none.
ServedInv ==
    /\ \A s \in 1..nsinks : \E n \in 0..since[s] : n <= End(s) /\ written[s] = Lines(n, End(s))
    /\ \A s \in Sink : s > nsinks => written[s] = <<>>
    /\ wpc = "write" => next <= nsinks + 1

\* The inductive invariant of the logger.
LoggerInv ==
    /\ TypeOK
    /\ MutexInv
    /\ WakeupPending
    /\ QueueInv
    /\ ShutdownInv
    /\ ServedInv

-----------------------------------------------------------------------------
\* A run of lines is a sequence of line numbers.
LEMMA LinesType ==
    ASSUME NEW a \in Nat, NEW b \in 0..MaxLogs, a <= b
    PROVE  Lines(a, b) \in Seq(1..MaxLogs) /\ Len(Lines(a, b)) = b - a
  <1>1. b - a \in Nat
    BY LoggerAssumption
  <1>2. \A i \in 1..(b - a) : a + i \in 1..MaxLogs
    BY LoggerAssumption
  <1>3. QED
    BY <1>1, <1>2, IsASeq DEF Lines

\* A run grows by its next line.
LEMMA LinesAppend ==
    ASSUME NEW a \in Nat, NEW b \in 1..MaxLogs, a <= b - 1
    PROVE  Append(Lines(a, b - 1), b) = Lines(a, b)
  <1> DEFINE old == Lines(a, b - 1)
             new == Lines(a, b)
  <1>0. b \in 0..MaxLogs /\ b - 1 \in 0..MaxLogs /\ a <= b
    BY LoggerAssumption
  <1>1. old \in Seq(1..MaxLogs) /\ Len(old) = (b - 1) - a
    BY <1>0, LinesType
  <1>2. new \in Seq(1..MaxLogs) /\ Len(new) = b - a
    BY <1>0, LinesType
  <1>3. /\ \A i \in 1..((b - 1) - a) : old[i] = a + i
        /\ \A i \in 1..(b - a) : new[i] = a + i
    BY DEF Lines
  <1>4. /\ Append(old, b) \in Seq(1..MaxLogs) /\ Len(Append(old, b)) = Len(old) + 1
        /\ \A i \in 1..Len(old) : Append(old, b)[i] = old[i]
        /\ Append(old, b)[Len(old) + 1] = b
    BY <1>1, AppendProperties, LoggerAssumption
  <1> HIDE DEF old, new
  <1>5. \A i \in 1..Len(new) : Append(old, b)[i] = new[i]
    BY <1>1, <1>2, <1>3, <1>4, LoggerAssumption
  <1>6. Append(old, b) = new
    BY <1>1, <1>2, <1>4, <1>5, SeqEqual
  <1>7. QED
    BY <1>6 DEF old, new

\* An empty run.
LEMMA LinesEmpty ==
    ASSUME NEW a \in Nat
    PROVE  Lines(a, a) = <<>>
  BY DEF Lines

\* The invariant holds when the logger is constructed.
LEMMA InitInv == Init => LoggerInv
  <1> SUFFICES ASSUME Init PROVE LoggerInv
    OBVIOUS
  <1>1. TypeOK
    <2>1. <<>> \in Seq(1..MaxLogs)
      OBVIOUS
    <2>2. /\ written \in [Sink -> Seq(1..MaxLogs)]
          /\ since \in [Sink -> 0..MaxLogs]
      BY <2>1, LoggerAssumption DEF Init
    <2>3. /\ cpc \in [Client -> {"idle", "notify"}]
          /\ mtx \in {"free", "worker"} /\ shut \in BOOLEAN /\ wpc \in WorkerPc
          /\ opc \in {"live", "notify", "join", "destroyed"}
      BY DEF Init, WorkerPc
    <2>4. /\ msg \in 0..MaxLogs /\ logged \in 0..MaxLogs
          /\ nsinks \in 0..MaxSinks /\ next \in 1..(MaxSinks + 1)
      BY LoggerAssumption DEF Init
    <2>5. QED
      BY <2>1, <2>2, <2>3, <2>4 DEF Init, TypeOK
  <1>2. MutexInv /\ WakeupPending /\ QueueInv /\ ShutdownInv
    BY DEF Init, MutexInv, WakeupPending, QueueInv, ShutdownInv
  <1>3. ServedInv
    BY DEF Init, ServedInv
  <1>4. QED
    BY <1>1, <1>2, <1>3 DEF LoggerInv

\* The sinks are not concerned by a step that leaves them, msg and the loop alone.
LEMMA ServedStable ==
    ASSUME ServedInv,
           UNCHANGED <<msg, svars, next, written>>,
           wpc = "lock" <=> wpc' = "lock",
           wpc \in {"write", "terminated"} <=> wpc' \in {"write", "terminated"},
           wpc' = "write" => wpc = "write"
    PROVE  ServedInv'
  <1>1. \A s : End(s)' = End(s)
    BY DEF End
  <1>2. QED
    BY <1>1 DEF ServedInv, svars, Lines

\* What is left to show when a step leaves the sinks and the lines alone.
LEMMA ControlStep ==
    ASSUME LoggerInv,
           UNCHANGED <<queue, msg, svars, next, logged, written>>,
           (TypeOK /\ MutexInv /\ WakeupPending /\ ShutdownInv)',
           wpc' = wpc \/ {wpc, wpc'} \subseteq {"acquire", "block", "waiting", "test", "exited"}
                      \/ (wpc = "write" /\ wpc' = "terminated")
    PROVE  LoggerInv'
  <1>1. QueueInv'
    BY DEF LoggerInv, QueueInv
  <1>2. ServedInv'
    BY ServedStable DEF LoggerInv
  <1>3. QED
    BY <1>1, <1>2 DEF LoggerInv

\* Every step of the clients, of the owner and of the worker preserves the invariant.
LEMMA StepInv == LoggerInv /\ [Next]_vars => LoggerInv'
  <1> SUFFICES ASSUME LoggerInv, [Next]_vars PROVE LoggerInv'
    OBVIOUS
  <1> USE LoggerAssumption
  <1>1. ASSUME NEW c \in Client, push(c) PROVE LoggerInv'
    <2>1. /\ logged + 1 \in 1..MaxLogs /\ queue \in Seq(1..MaxLogs)
          /\ queue' = Append(queue, logged + 1) /\ logged' = logged + 1
      BY <1>1 DEF LoggerInv, TypeOK, push
    <2>2. /\ queue' \in Seq(1..MaxLogs) /\ Len(queue') = Len(queue) + 1
          /\ \A i \in 1..Len(queue) : queue'[i] = queue[i]
          /\ queue'[Len(queue) + 1] = logged + 1
          /\ queue' # <<>>
      BY <2>1, AppendProperties
    <2>3. TypeOK'
      BY <1>1, <2>1, <2>2 DEF LoggerInv, TypeOK, push, svars
    <2>4. MutexInv' /\ WakeupPending' /\ ShutdownInv'
      BY <1>1, <2>2 DEF LoggerInv, TypeOK, MutexInv, WakeupPending, ShutdownInv, push
    <2>5. QueueInv'
      <3>1. /\ Len(queue) \in Nat /\ Len(queue) = logged - msg
            /\ logged \in Nat /\ msg \in Nat /\ msg' = msg /\ wpc' = wpc
            /\ \A i \in 1..Len(queue) : queue[i] = msg + i
            /\ wpc \in {"lock", "write", "terminated"} => msg > 0
        BY <1>1, <2>1 DEF LoggerInv, TypeOK, QueueInv, push
      <3>2. Len(queue') = logged' - msg'
        BY <2>1, <2>2, <3>1
      <3>3. ASSUME NEW i \in 1..Len(queue') PROVE queue'[i] = msg' + i
        <4>1. i \in 1..Len(queue) \/ i = Len(queue) + 1
          BY <2>2, <3>1
        <4>2. QED
          BY <2>1, <2>2, <3>1, <4>1
      <3>4. QED
        BY <3>1, <3>2, <3>3 DEF QueueInv
    <2>6. ServedInv'
      BY <1>1, ServedStable DEF LoggerInv, push
    <2>7. QED
      BY <2>3, <2>4, <2>5, <2>6 DEF LoggerInv
  <1>2. ASSUME NEW c \in Client, NotifyOne(c) PROVE LoggerInv'
    <2>1. TypeOK'
      BY <1>2 DEF LoggerInv, TypeOK, NotifyOne, Notified, WorkerPc, qvars, svars
    <2>2. MutexInv' /\ WakeupPending' /\ ShutdownInv'
      BY <1>2 DEF LoggerInv, TypeOK, MutexInv, WakeupPending, ShutdownInv, NotifyOne,
                  Notified, qvars
    <2>3. QED
      BY <1>2, <2>1, <2>2, ControlStep DEF NotifyOne, Notified, qvars
  <1>3. ASSUME NEW c \in Client, add_sink(c) PROVE LoggerInv'
    <2>1. nsinks + 1 \in Sink /\ nsinks \in Nat /\ logged \in Nat /\ msg \in Nat
      BY <1>3 DEF LoggerInv, TypeOK, add_sink, Sink
    <2>2. TypeOK'
      BY <1>3, <2>1 DEF LoggerInv, TypeOK, add_sink, qvars
    <2>3. MutexInv' /\ WakeupPending' /\ ShutdownInv' /\ QueueInv'
      BY <1>3 DEF LoggerInv, MutexInv, WakeupPending, ShutdownInv, QueueInv, add_sink, qvars
    <2>4. \A s : End(s)' = End(s)
      BY <1>3 DEF End, add_sink
    <2>5. \A s \in 1..nsinks' : \E n \in 0..since'[s] :
            n <= End(s) /\ written[s] = Lines(n, End(s))
      <3> TAKE s \in 1..nsinks'
      <3>1. CASE s <= nsinks
        <4>1. since'[s] = since[s]
          BY <1>3, <2>1, <3>1 DEF LoggerInv, TypeOK, add_sink, Sink
        <4>2. QED
          BY <1>3, <3>1, <4>1, <2>1 DEF LoggerInv, ServedInv, add_sink
      <3>2. CASE s = nsinks + 1
        <4>1. since'[s] = logged
          BY <1>3, <2>1, <3>2 DEF LoggerInv, TypeOK, add_sink
        <4>2. written[s] = <<>>
          BY <2>1, <3>2 DEF LoggerInv, ServedInv
        <4>3. End(s) \in 0..logged
          <5>1. msg <= logged
            BY <2>1 DEF LoggerInv, TypeOK, QueueInv
          <5>2. wpc \in {"lock", "write", "terminated"} => msg > 0
            BY DEF LoggerInv, QueueInv
          <5>3. QED
            BY <2>1, <5>1, <5>2 DEF End
        <4>4. Lines(End(s), End(s)) = <<>>
          BY <2>1, <4>3, LinesEmpty
        <4>5. QED
          BY <4>1, <4>2, <4>3, <4>4
      <3>3. QED
        BY <1>3, <2>1, <3>1, <3>2 DEF add_sink
    <2>6. ServedInv'
      <3>1. \A s \in Sink : s > nsinks' => written'[s] = <<>>
        BY <1>3, <2>1 DEF LoggerInv, ServedInv, add_sink, Sink
      <3>2. wpc' # "write" /\ written' = written
        BY <1>3 DEF add_sink
      <3>3. QED
        BY <2>4, <2>5, <3>1, <3>2 DEF ServedInv, Lines
    <2>7. QED
      BY <2>2, <2>3, <2>6 DEF LoggerInv
  <1>4. CASE shutdown
    <2>1. TypeOK'
      BY <1>4 DEF LoggerInv, TypeOK, shutdown, svars
    <2>2. MutexInv' /\ WakeupPending' /\ ShutdownInv'
      BY <1>4 DEF LoggerInv, MutexInv, WakeupPending, ShutdownInv, shutdown
    <2>3. QED
      BY <1>4, <2>1, <2>2, ControlStep DEF shutdown
  <1>5. CASE NotifyAll
    <2>1. TypeOK'
      BY <1>5 DEF LoggerInv, TypeOK, NotifyAll, Notified, WorkerPc, qvars, svars
    <2>2. MutexInv' /\ WakeupPending' /\ ShutdownInv'
      BY <1>5 DEF LoggerInv, MutexInv, WakeupPending, ShutdownInv, NotifyAll, Notified, qvars
    <2>3. QED
      BY <1>5, <2>1, <2>2, ControlStep DEF NotifyAll, Notified, qvars
  <1>6. CASE Join
    <2>1. TypeOK'
      BY <1>6 DEF LoggerInv, TypeOK, Join, qvars, svars
    <2>2. MutexInv' /\ WakeupPending' /\ ShutdownInv'
      BY <1>6 DEF LoggerInv, MutexInv, WakeupPending, ShutdownInv, Join, qvars
    <2>3. QED
      BY <1>6, <2>1, <2>2, ControlStep DEF Join, qvars
  <1>7. CASE Acquire
    <2>1. TypeOK'
      BY <1>7 DEF LoggerInv, TypeOK, Acquire, WorkerPc, svars
    <2>2. MutexInv' /\ WakeupPending' /\ ShutdownInv'
      BY <1>7 DEF LoggerInv, MutexInv, WakeupPending, ShutdownInv, Acquire
    <2>3. QED
      BY <1>7, <2>1, <2>2, ControlStep DEF Acquire
  <1>8. CASE Block
    <2>1. TypeOK'
      BY <1>8 DEF LoggerInv, TypeOK, Block, WorkerPc, svars
    <2>2. MutexInv' /\ WakeupPending' /\ ShutdownInv'
      BY <1>8 DEF LoggerInv, MutexInv, WakeupPending, ShutdownInv, Block
    <2>3. QED
      BY <1>8, <2>1, <2>2, ControlStep DEF Block
  <1>9. CASE SpuriousWake
    <2>1. TypeOK'
      BY <1>9 DEF LoggerInv, TypeOK, SpuriousWake, WorkerPc, qvars, svars
    <2>2. MutexInv' /\ WakeupPending' /\ ShutdownInv'
      BY <1>9 DEF LoggerInv, MutexInv, WakeupPending, ShutdownInv, SpuriousWake, qvars
    <2>3. QED
      BY <1>9, <2>1, <2>2, ControlStep DEF SpuriousWake, qvars
  <1>10. CASE PopFails
    <2>1. TypeOK'
      BY <1>10 DEF LoggerInv, TypeOK, PopFails, WorkerPc, svars
    <2>2. MutexInv' /\ WakeupPending' /\ ShutdownInv'
      BY <1>10 DEF LoggerInv, MutexInv, WakeupPending, ShutdownInv, PopFails
    <2>3. QED
      BY <1>10, <2>1, <2>2, ControlStep DEF PopFails
  <1>11. CASE Pop
    <2>1. /\ queue \in Seq(1..MaxLogs) /\ queue # <<>>
          /\ queue' = Tail(queue) /\ msg' = Head(queue)
          /\ msg \in Nat /\ logged \in Nat /\ logged' = logged
      BY <1>11 DEF LoggerInv, TypeOK, Pop
    <2>2. /\ queue' \in Seq(1..MaxLogs) /\ Len(queue) \in Nat \ {0}
          /\ Len(queue') = Len(queue) - 1
          /\ \A i \in 1..Len(queue') : queue'[i] = queue[i + 1]
          /\ msg' \in 1..MaxLogs /\ msg' = queue[1]
      BY <2>1, HeadTailProperties
    <2>3. msg' = msg + 1
      BY <2>1, <2>2 DEF LoggerInv, QueueInv
    <2>4. TypeOK'
      BY <1>11, <2>1, <2>2 DEF LoggerInv, TypeOK, Pop, WorkerPc, svars
    <2>5. MutexInv' /\ WakeupPending' /\ ShutdownInv'
      BY <1>11 DEF LoggerInv, MutexInv, WakeupPending, ShutdownInv, Pop
    <2>6. QueueInv'
      <3>1. /\ Len(queue) = logged - msg
            /\ \A i \in 1..Len(queue) : queue[i] = msg + i
        BY DEF LoggerInv, QueueInv
      <3>2. Len(queue') = logged' - msg'
        BY <2>1, <2>2, <2>3, <3>1
      <3>3. ASSUME NEW i \in 1..Len(queue') PROVE queue'[i] = msg' + i
        <4>1. i \in Nat /\ i + 1 \in 1..Len(queue)
          BY <2>2
        <4>2. queue'[i] = msg + (i + 1)
          BY <2>2, <3>1, <4>1
        <4>3. QED
          BY <2>1, <2>3, <4>1, <4>2
      <3>4. msg' > 0
        BY <2>1, <2>3
      <3>5. QED
        BY <3>2, <3>3, <3>4 DEF QueueInv
    <2>7. ServedInv'
      <3>1. \A s : End(s)' = msg /\ End(s) = msg
        BY <1>11, <2>1, <2>3 DEF End, Pop
      <3>2. QED
        BY <1>11, <3>1 DEF LoggerInv, ServedInv, Pop, Lines, svars
    <2>8. QED
      BY <2>4, <2>5, <2>6, <2>7 DEF LoggerInv
  <1>12. CASE LockSinks
    <2>1. TypeOK'
      BY <1>12 DEF LoggerInv, TypeOK, LockSinks, WorkerPc, qvars, svars
    <2>2. MutexInv' /\ WakeupPending' /\ ShutdownInv' /\ QueueInv'
      BY <1>12 DEF LoggerInv, MutexInv, WakeupPending, ShutdownInv, QueueInv, LockSinks, qvars
    <2>3. ServedInv'
      <3>1. \A s \in Sink : End(s)' = End(s)
        BY <1>12 DEF End, LockSinks, Sink
      <3>2. nsinks \in Nat /\ 1..nsinks \subseteq Sink
        BY DEF LoggerInv, TypeOK, Sink
      <3>3. /\ nsinks' = nsinks /\ since' = since /\ written' = written
            /\ next' <= nsinks' + 1
        BY <1>12, <3>2 DEF LockSinks, svars
      <3>4. QED
        BY <3>1, <3>2, <3>3 DEF LoggerInv, ServedInv, Lines
    <2>4. QED
      BY <2>1, <2>2, <2>3 DEF LoggerInv
  <1>13. CASE WriteSink
    <2>1. /\ next \in 1..nsinks /\ nsinks \in Nat /\ 1..nsinks \subseteq Sink
          /\ msg \in 1..MaxLogs /\ msg' = msg /\ nsinks' = nsinks /\ since' = since
          /\ next' = next + 1 /\ wpc = "write" /\ wpc' = "write"
      BY <1>13 DEF LoggerInv, TypeOK, QueueInv, WriteSink, Sink, svars
    <2>2. /\ written'[next] = Append(written[next], msg)
          /\ \A s \in Sink : s # next => written'[s] = written[s]
      BY <1>13, <2>1 DEF LoggerInv, TypeOK, WriteSink
    <2>3. TypeOK'
      <3>1. written[next] \in Seq(1..MaxLogs)
        BY <2>1 DEF LoggerInv, TypeOK
      <3>2. Append(written[next], msg) \in Seq(1..MaxLogs)
        BY <2>1, <3>1, AppendProperties
      <3>3. written' \in [Sink -> Seq(1..MaxLogs)]
        BY <1>13, <3>2 DEF LoggerInv, TypeOK, WriteSink
      <3>4. QED
        BY <1>13, <2>1, <3>3 DEF LoggerInv, TypeOK, WriteSink, qvars, svars
    <2>4. MutexInv' /\ WakeupPending' /\ ShutdownInv' /\ QueueInv'
      BY <1>13 DEF LoggerInv, MutexInv, WakeupPending, ShutdownInv, QueueInv, WriteSink, qvars
    <2>5. ServedInv'
      <3>1. ASSUME NEW s \in 1..nsinks
            PROVE  \E n \in 0..since[s] :
                    n <= End(s)' /\ written'[s] = Lines(n, End(s)')
        <4>1. since[s] \in Nat
          BY <2>1 DEF LoggerInv, TypeOK
        <4>2. PICK n \in 0..since[s] : n <= End(s) /\ written[s] = Lines(n, End(s))
          BY DEF LoggerInv, ServedInv
        <4>3. CASE s = next
          <5>1. End(s) = msg - 1 /\ End(s)' = msg
            BY <2>1, <4>3 DEF End
          <5>2. Append(Lines(n, msg - 1), msg) = Lines(n, msg)
            BY <2>1, <4>1, <4>2, <5>1, LinesAppend
          <5>3. n <= msg
            BY <2>1, <4>1, <4>2, <5>1
          <5>4. QED
            BY <2>2, <4>2, <4>3, <5>1, <5>2, <5>3
        <4>4. CASE s # next
          <5>1. End(s)' = End(s)
            BY <2>1, <4>4 DEF End
          <5>2. QED
            BY <2>1, <2>2, <4>2, <4>4, <5>1
        <4>5. QED
          BY <4>3, <4>4
      <3>2. \A s \in Sink : s > nsinks' => written'[s] = <<>>
        <4>1. \A s \in Sink : s > nsinks => s # next
          BY <2>1, LoggerAssumption DEF Sink
        <4>2. QED
          BY <2>1, <2>2, <4>1 DEF LoggerInv, ServedInv
      <3>3. next' <= nsinks' + 1
        BY <2>1
      <3>4. QED
        BY <2>1, <3>1, <3>2, <3>3 DEF ServedInv, Lines
    <2>6. QED
      BY <2>3, <2>4, <2>5 DEF LoggerInv
  <1>14. CASE SinkThrows
    <2>1. TypeOK'
      BY <1>14 DEF LoggerInv, TypeOK, SinkThrows, WorkerPc, qvars, svars
    <2>2. MutexInv' /\ WakeupPending' /\ ShutdownInv'
      BY <1>14 DEF LoggerInv, MutexInv, WakeupPending, ShutdownInv, SinkThrows, qvars
    <2>3. QED
      BY <1>14, <2>1, <2>2, ControlStep DEF SinkThrows, qvars
  <1>15. CASE UnlockSinks
    <2>1. TypeOK'
      BY <1>15 DEF LoggerInv, TypeOK, UnlockSinks, WorkerPc, qvars, svars
    <2>2. MutexInv' /\ WakeupPending' /\ ShutdownInv' /\ QueueInv'
      BY <1>15 DEF LoggerInv, MutexInv, WakeupPending, ShutdownInv, QueueInv, UnlockSinks, qvars
    <2>3. ServedInv'
      <3>1. nsinks \in Nat /\ next \in Nat
        BY DEF LoggerInv, TypeOK
      <3>2. \A s \in 1..nsinks : End(s)' = End(s)
        BY <1>15, <3>1 DEF End, UnlockSinks
      <3>3. QED
        BY <1>15, <3>2 DEF LoggerInv, ServedInv, UnlockSinks, Lines, svars
    <2>4. QED
      BY <2>1, <2>2, <2>3 DEF LoggerInv
  <1>16. CASE UNCHANGED vars
    <2>1. (TypeOK /\ MutexInv /\ WakeupPending /\ ShutdownInv)'
      BY <1>16 DEF LoggerInv, TypeOK, MutexInv, WakeupPending, ShutdownInv, vars, qvars, svars
    <2>2. QED
      BY <1>16, <2>1, ControlStep DEF vars, qvars
  <1>17. QED
    BY <1>1, <1>2, <1>3, <1>4, <1>5, <1>6, <1>7, <1>8, <1>9, <1>10, <1>11, <1>12, <1>13,
       <1>14, <1>15, <1>16 DEF Next

-----------------------------------------------------------------------------
\* The invariant holds in every behaviour of the logger.
LEMMA SpecInv == Spec => []LoggerInv
  BY InitInv, StepInv, PTL DEF Spec

\* The state has its types: in particular the loop over the sinks never indexes past the
\* last one, and no line number leaves its range.
THEOREM TypeCorrect == Spec => []TypeOK
  BY SpecInv, PTL DEF LoggerInv

\* log_queue loses no wakeup: the notifications of push and shutdown, sent after the
\* mutex is released, cannot fall between the predicate of pop and its wait.
THEOREM NoLostWakeup == Spec => []WakeupPending
  BY SpecInv, PTL DEF LoggerInv

\* process_queue writes to each sink an unbroken run of the lines.
THEOREM RunsUnbroken == Spec => []SinkRuns
  <1>1. LoggerInv => SinkRuns
    <2> SUFFICES ASSUME LoggerInv, NEW s \in 1..nsinks
                 PROVE  \E n \in 0..since[s] :
                          \/ written[s] = Lines(n, msg)
                          \/ /\ wpc \in {"lock", "write", "terminated"}
                             /\ written[s] = Lines(n, msg - 1)
      BY DEF SinkRuns
    <2>1. PICK n \in 0..since[s] : written[s] = Lines(n, End(s))
      BY DEF LoggerInv, ServedInv
    <2>2. QED
      BY <2>1 DEF End
  <1>2. QED
    BY <1>1, SpecInv, PTL

\* ~logger returns only when every sink holds every line logged since it was added.
THEOREM NothingLost == Spec => []DestroyedIsComplete
  <1>1. LoggerInv => DestroyedIsComplete
    <2> SUFFICES ASSUME LoggerInv, opc = "destroyed", NEW s \in 1..nsinks
                 PROVE  \E n \in 0..since[s] : written[s] = Lines(n, logged)
      BY DEF DestroyedIsComplete
    <2>1. wpc = "exited" /\ queue = <<>>
      BY DEF LoggerInv, ShutdownInv
    <2>2. End(s) = logged
      BY <2>1, LoggerAssumption DEF LoggerInv, TypeOK, QueueInv, End
    <2>3. QED
      BY <2>2 DEF LoggerInv, ServedInv
  <1>2. QED
    BY <1>1, SpecInv, PTL
=============================================================================
