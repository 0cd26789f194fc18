------------------------- MODULE LogicServerProofs -------------------------
(***************************************************************************)
(* Proofs about LogicServer, for any number of sessions, messages and      *)
(* descriptors.                                                            *)
(***************************************************************************)
EXTENDS LogicServer, LogicSystemProofs

\* Ids at or above _next_id have never been used.
FreshInv ==
    /\ \A id \in SessionId :
        id >= nextId => sock[id] = NoFd /\ rd[id] = "none" /\ id \notin registry
    /\ \A i \in 1..Len(posted) : posted[i].session_id < nextId

\* A peer that is sending a message has not sent its last one yet.
BudgetInv ==
    \A id \in SessionId : rd[id] \in {"headerOk", "headerBad", "body", "bodyOk"}
        => sent[id] < MaxMsgs

\* Where the io thread is decides which session it works on.
IoInv ==
    /\ ipc = "add" => /\ iid \in SessionId /\ iid + 1 = nextId
                      /\ iid \notin registry /\ rd[iid] = "none"
    /\ ipc \in {"close", "remove"} => iid \in SessionId /\ iid < nextId
    /\ ipc = "remove" => sock[iid] = NoFd

\* Inside dispatch() there is a current message, and close() has closed its socket
\* before it removes the session.
DispatchInv ==
    /\ dpc # "lookup" => lpc = "dispatch"
    /\ dpc = "remove" => sock[Requester] = NoFd

\* The inductive invariant of the server.
ServerInv ==
    /\ LogicInv
    /\ TypeOK
    /\ FreshInv
    /\ BudgetInv
    /\ IoInv
    /\ DispatchInv
    /\ CloseBeforeUnregister
    /\ NoZombieSession

\* Appending to a sequence over a set gives a sequence over that set.
LEMMA AppendInSeq ==
    ASSUME NEW S, NEW q \in Seq(S), NEW x \in S
    PROVE  Append(q, x) \in Seq(S)
  OBVIOUS

\* The indices of a sequence that has grown by one element.
LEMMA LastIndex ==
    ASSUME NEW n \in Nat
    PROVE  \A i \in 1..(n + 1) : i \in 1..n \/ i = n + 1
  OBVIOUS

\* Every message posted names a session.
LEMMA PostedAreMessages ==
    ASSUME LogicTypeOK
    PROVE  /\ Len(posted) \in Nat
           /\ \A i \in 1..Len(posted) : posted[i].session_id \in SessionId
  <1>1. Len(posted) \in Nat /\ \A i \in 1..Len(posted) : posted[i] \in LogicMessage
    BY DEF LogicTypeOK
  <1>2. \A m \in LogicMessage : m.session_id \in SessionId
    BY ServerAssumption
  <1>3. QED
    BY <1>1, <1>2

\* The current message is there and comes from a session that was accepted.
LEMMA RequesterKnown ==
    ASSUME ServerInv, lpc = "dispatch"
    PROVE  /\ Requester \in SessionId
           /\ Requester < nextId
           /\ current[1] \in LogicMessage
  <1>1. taken \in 1..Len(posted) /\ current = <<posted[taken]>>
    BY DEF ServerInv, LogicInv, FifoExactlyOnce, LogicTypeOK
  <1>2. current[1] = posted[taken] /\ posted[taken] \in LogicMessage
    BY <1>1 DEF ServerInv, LogicInv, LogicTypeOK
  <1>3. posted[taken].session_id \in SessionId
    BY <1>2, ServerAssumption
  <1>4. QED
    BY <1>1, <1>2, <1>3 DEF Requester, ServerInv, FreshInv

\* Every step of the server is a step of the logic layer or leaves it alone.
LEMMA ServerStepIsLogicStep ==
    ASSUME ServerInv, [Next]_vars
    PROVE  [LogicStep]_lvars
  <1>1. ASSUME NEW id \in SessionId, HandleBody(id)
        PROVE  LogicStep
    <2>1. [session_id |-> id, body |-> sent[id] + 1] \in LogicMessage
      BY <1>1, ServerAssumption DEF HandleBody, ServerInv, TypeOK, BudgetInv
    <2>2. QED
      BY <1>1, <2>1 DEF HandleBody, LogicStep
  <1>2. ASSUME NEW id \in SessionId,
               HeaderArrives(id) \/ BodyArrives(id) \/ HandleHeader(id)
                 \/ HandleReadError(id) \/ CloseEach(id)
        PROVE  UNCHANGED lvars
    BY <1>2 DEF HeaderArrives, BodyArrives, HandleHeader, HandleReadError, CloseEach
  <1>3. CASE HandleAccept \/ add_session \/ IoCloseFd \/ IoRemove \/ HandleSignal
               \/ LockAll \/ AllClosed \/ StopIo \/ Join
    BY <1>3 DEF HandleAccept, add_session, IoCloseFd, IoRemove, HandleSignal, LockAll,
                AllClosed, StopIo, Join
  <1>4. CASE StopLogic \/ NotifyLogic \/ RunLoop \/ Spurious
    BY <1>4 DEF StopLogic, NotifyLogic, RunLoop, Spurious, LogicStep
  <1>5. CASE Dispatch
    BY <1>5 DEF Dispatch, get_session, BeginSend, WriteOk, WriteError, LogicCloseFd,
                LogicRemove, Return, Continue, LogicStep
  <1>6. CASE UNCHANGED vars
    BY <1>6 DEF vars
  <1>7. QED
    BY <1>1, <1>2, <1>3, <1>4, <1>5, <1>6 DEF Next

\* The invariant holds when the server starts.
LEMMA ServerInitInv == Init => ServerInv
  <1> SUFFICES ASSUME Init PROVE ServerInv
    OBVIOUS
  <1>1. LogicInv
    BY InitEstablishesInv DEF Init
  <1>2. TypeOK
    <2>1. <<>> \in Seq(LogicMessage)
      OBVIOUS
    <2>2. echoed \in [SessionId -> Seq(LogicMessage)]
      BY <2>1 DEF Init
    <2>3. /\ sock \in [SessionId -> Fds \union {NoFd}]
          /\ owner \in [Fds -> SessionId \union {NoConn}]
          /\ sent \in [SessionId -> 0..MaxMsgs]
          /\ rd \in [SessionId -> ReadState]
          /\ nextId \in 1..(MaxSessions + 1)
      BY ServerAssumption DEF Init, ReadState
    <2>4. QED
      BY <1>1, <2>2, <2>3 DEF Init, TypeOK, LogicInv, IoPc, DispatchPc
  <1>3. FreshInv
    BY DEF Init, LogicInit, FreshInv
  <1>4. BudgetInv /\ IoInv /\ DispatchInv
    BY DEF Init, BudgetInv, IoInv, DispatchInv
  <1>5. CloseBeforeUnregister /\ NoZombieSession
    BY DEF Init, CloseBeforeUnregister, NoZombieSession
  <1>6. QED
    BY <1>1, <1>2, <1>3, <1>4, <1>5 DEF ServerInv

\* Every step keeps the invariant.
LEMMA ServerStepInv == ServerInv /\ [Next]_vars => ServerInv'
  <1> SUFFICES ASSUME ServerInv, [Next]_vars
               PROVE  ServerInv'
    OBVIOUS
  <1>0. LogicInv'
    BY ServerStepIsLogicStep, StepKeepsInv DEF ServerInv
  <1>b. ASSUME NEW id \in SessionId
        PROVE  id \in Nat /\ id # 0 /\ id <= MaxSessions
    BY ServerAssumption DEF SessionId
  <1>c. LogicTypeOK /\ LogicTypeOK'
    BY <1>0 DEF ServerInv, LogicInv
  <1> DEFINE Places == FreshInv /\ BudgetInv /\ IoInv
             Safe == DispatchInv /\ CloseBeforeUnregister /\ NoZombieSession
  <1>d. TypeOK' /\ Places' /\ Safe' => ServerInv'
    BY <1>0 DEF ServerInv
  <1>e. TypeOK /\ Places /\ Safe
    BY DEF ServerInv
  <1> HIDE DEF Places, Safe
  <1> USE <1>b, <1>c, <1>e, ServerAssumption DEF TypeOK, lvars, dvars, NoFd, NoConn
  <1>1. ASSUME NEW id \in SessionId, HeaderArrives(id)
        PROVE  ServerInv'
    <2>0. PICK r \in {"headerOk", "headerBad"} : rd' = [rd EXCEPT ![id] = r]
      BY <1>1 DEF HeaderArrives
    <2>1. TypeOK'
      <3>1. rd' \in [SessionId -> ReadState]
        BY <1>1, <2>0 DEF HeaderArrives, ReadState
      <3>2. QED
        BY <1>1, <3>1 DEF HeaderArrives, IoPc
    <2>2. Places'
      BY <1>1, <2>0 DEF HeaderArrives, Places, FreshInv, BudgetInv, IoInv
    <2>3. Safe'
      BY <1>1, <2>0 DEF HeaderArrives, Places, FreshInv, BudgetInv, IoInv, Safe, DispatchInv, Requester,
             CloseBeforeUnregister, Started, NoZombieSession, IoClosing
    <2>4. QED
      BY <1>d, <2>1, <2>2, <2>3
  <1>2. ASSUME NEW id \in SessionId, BodyArrives(id)
        PROVE  ServerInv'
    <2>1. TypeOK'
      <3>1. rd' \in [SessionId -> ReadState]
        BY <1>2 DEF BodyArrives, ReadState
      <3>2. QED
        BY <1>2, <3>1 DEF BodyArrives, IoPc
    <2>2. Places'
      BY <1>2 DEF BodyArrives, Places, FreshInv, BudgetInv, IoInv
    <2>3. Safe'
      BY <1>2 DEF BodyArrives, Places, FreshInv, BudgetInv, IoInv, Safe, DispatchInv, Requester,
             CloseBeforeUnregister, Started, NoZombieSession, IoClosing
    <2>4. QED
      BY <1>d, <2>1, <2>2, <2>3
  <1>3. ASSUME NEW id \in SessionId, HandleHeader(id)
        PROVE  ServerInv'
    <2>1. TypeOK'
      <3>1. rd' \in [SessionId -> ReadState]
        BY <1>3 DEF HandleHeader, BeginClose, ReadState
      <3>2. /\ ipc' \in IoPc /\ iid' \in SessionId \union {0}
            /\ ifd' \in Fds \union {0}
        BY <1>3 DEF HandleHeader, BeginClose, IoPc
      <3>3. QED
        BY <1>3, <3>1, <3>2 DEF HandleHeader
    <2>2. Places'
      BY <1>3 DEF HandleHeader, BeginClose, Places, FreshInv, BudgetInv, IoInv
    <2>3. Safe'
      BY <1>3 DEF HandleHeader, BeginClose, Places, FreshInv, BudgetInv, IoInv, Safe, DispatchInv, Requester,
             CloseBeforeUnregister, Started, NoZombieSession, IoClosing
    <2>4. QED
      BY <1>d, <2>1, <2>2, <2>3
  <1>4. ASSUME NEW id \in SessionId, HandleBody(id)
        PROVE  ServerInv'
    <2>0. /\ posted' = Append(posted, [session_id |-> id, body |-> sent[id] + 1])
          /\ Len(posted') = Len(posted) + 1
          /\ \A i \in 1..Len(posted) : posted'[i] = posted[i]
          /\ posted'[Len(posted) + 1].session_id = id
      BY <1>4 DEF HandleBody, post_message, LogicTypeOK
    <2>1. TypeOK'
      <3>1. sent[id] + 1 \in 0..MaxMsgs
        BY <1>4 DEF HandleBody, Places, BudgetInv
      <3>2. QED
        BY <1>4, <3>1 DEF HandleBody, ReadState
    <2>2. Places'
      <3>1. nextId \in Nat /\ id \in Nat
        OBVIOUS
      <3>2. id < nextId
        <4>1. rd[id] = "bodyOk"
          BY <1>4 DEF HandleBody
        <4>2. ~(id >= nextId)
          BY <4>1 DEF Places, FreshInv
        <4>3. QED
          BY <3>1, <4>2
      <3>3. FreshInv'
        <4>1. \A i \in SessionId : i >= nextId =>
                sock[i] = 0 /\ rd'[i] = "none" /\ i \notin registry
          BY <1>4, <3>1, <3>2 DEF HandleBody, Places, FreshInv
        <4>2. \A i \in 1..(Len(posted) + 1) : posted'[i].session_id < nextId
          <5>1. Len(posted) \in Nat
            BY PostedAreMessages
          <5>2. \A i \in 1..Len(posted) : posted'[i].session_id < nextId
            BY <2>0 DEF Places, FreshInv
          <5>3. posted'[Len(posted) + 1].session_id < nextId
            BY <2>0, <3>2
          <5>4. \A i \in 1..(Len(posted) + 1) :
                  i \in 1..Len(posted) \/ i = Len(posted) + 1
            BY <5>1, LastIndex
          <5>5. QED
            BY <5>2, <5>3, <5>4, Zenon
        <4>3. QED
          BY <1>4, <2>0, <4>1, <4>2 DEF HandleBody, FreshInv
      <3>4. BudgetInv' /\ IoInv'
        BY <1>4 DEF HandleBody, Places, BudgetInv, IoInv
      <3>5. QED
        BY <3>3, <3>4 DEF Places
    <2>3. Safe'
      BY <1>4, <2>0 DEF HandleBody, post_message, Notified, Places, FreshInv, BudgetInv, IoInv, Safe, DispatchInv, Requester,
             CloseBeforeUnregister, Started, NoZombieSession, IoClosing
    <2>4. QED
      BY <1>d, <2>1, <2>2, <2>3
  <1>5. ASSUME NEW id \in SessionId, HandleReadError(id)
        PROVE  ServerInv'
    <2>1. TypeOK'
      BY <1>5 DEF HandleReadError, BeginClose, IoPc, DispatchPc, ReadState
    <2>2. Places'
      BY <1>5 DEF HandleReadError, BeginClose, Places, FreshInv, BudgetInv, IoInv
    <2>3. Safe'
      BY <1>5 DEF HandleReadError, BeginClose, Places, FreshInv, BudgetInv, IoInv, Safe, DispatchInv, Requester,
             CloseBeforeUnregister, Started, NoZombieSession, IoClosing
    <2>4. QED
      BY <1>d, <2>1, <2>2, <2>3
  <1>6. ASSUME NEW id \in SessionId, CloseEach(id)
        PROVE  ServerInv'
    <2>1. TypeOK'
      BY <1>6 DEF CloseEach, BeginClose, IoPc, DispatchPc, ReadState
    <2>2. Places'
      BY <1>6 DEF CloseEach, BeginClose, Places, FreshInv, BudgetInv, IoInv
    <2>3. Safe'
      BY <1>6 DEF CloseEach, BeginClose, Places, FreshInv, BudgetInv, IoInv, Safe, DispatchInv, Requester,
             CloseBeforeUnregister, Started, NoZombieSession, IoClosing
    <2>4. QED
      BY <1>d, <2>1, <2>2, <2>3
  <1>7. CASE HandleAccept
    <2>0. PICK f \in Fds : /\ sock' = [sock EXCEPT ![nextId] = f]
                          /\ owner' = [owner EXCEPT ![f] = nextId]
      BY <1>7 DEF HandleAccept
    <2>1. TypeOK'
      <3>1. nextId \in SessionId /\ nextId + 1 \in 1..(MaxSessions + 1)
        BY <1>7 DEF HandleAccept, SessionId
      <3>2. /\ sock' \in [SessionId -> Fds \union {0}]
            /\ owner' \in [Fds -> SessionId \union {0}]
        BY <2>0, <3>1
      <3>3. QED
        BY <1>7, <3>1, <3>2 DEF HandleAccept, IoPc
    <2>2. Places'
      <3>1. nextId \in SessionId /\ nextId \in Nat
        BY <1>7 DEF HandleAccept, SessionId
      <3>2. FreshInv'
        <4>1. \A id \in SessionId : id >= nextId + 1 =>
                sock'[id] = 0 /\ rd[id] = "none" /\ id \notin registry
          BY <2>0, <3>1 DEF Places, FreshInv
        <4>2. \A i \in 1..Len(posted) : posted[i].session_id < nextId + 1
          <5>1. \A i \in 1..Len(posted) : posted[i].session_id \in Nat
            BY PostedAreMessages
          <5>2. \A i \in 1..Len(posted) : posted[i].session_id < nextId
            BY DEF Places, FreshInv
          <5>3. \A n, m \in Nat : n < m => n < m + 1
            OBVIOUS
          <5>4. QED
            BY <3>1, <5>1, <5>2, <5>3
        <4>3. QED
          BY <1>7, <4>1, <4>2 DEF HandleAccept, FreshInv
      <3>3. BudgetInv' /\ IoInv'
        BY <1>7, <3>1 DEF HandleAccept, Places, FreshInv, BudgetInv, IoInv
      <3>4. QED
        BY <3>2, <3>3 DEF Places
    <2>3. Safe'
      <3>1. nextId \in SessionId /\ nextId \in Nat
        BY <1>7 DEF HandleAccept, SessionId
      <3>2. DispatchInv'
        <4>1. dpc # "lookup" => Requester \in SessionId /\ Requester < nextId
          BY RequesterKnown DEF Safe, DispatchInv
        <4>2. QED
          BY <1>7, <2>0, <3>1, <4>1 DEF HandleAccept, Safe, DispatchInv, Requester
      <3>3. CloseBeforeUnregister'
        BY <1>7, <2>0, <3>1 DEF HandleAccept, Safe, CloseBeforeUnregister, Started
      <3>4. NoZombieSession'
        BY <1>7 DEF HandleAccept, Safe, NoZombieSession, IoClosing
      <3>5. QED
        BY <3>2, <3>3, <3>4 DEF Safe
    <2>4. QED
      BY <1>d, <2>1, <2>2, <2>3
  <1>8. CASE add_session
    <2>1. TypeOK'
      <3>1. rd' \in [SessionId -> ReadState]
        BY <1>8 DEF add_session, Places, IoInv, ReadState
      <3>2. QED
        BY <1>8, <3>1 DEF add_session, Places, IoInv, IoPc
    <2>2. Places'
      BY <1>8 DEF add_session, Places, FreshInv, BudgetInv, IoInv
    <2>3. Safe'
      BY <1>8 DEF add_session, Places, FreshInv, BudgetInv, IoInv, Safe, DispatchInv, Requester,
             CloseBeforeUnregister, Started, NoZombieSession, IoClosing
    <2>4. QED
      BY <1>d, <2>1, <2>2, <2>3
  <1>9. CASE IoCloseFd
    <2>1. TypeOK'
      BY <1>9 DEF IoCloseFd, CloseFd, IoPc, DispatchPc, ReadState
    <2>2. Places'
      BY <1>9 DEF IoCloseFd, CloseFd, Places, FreshInv, BudgetInv, IoInv
    <2>3. Safe'
      BY <1>9 DEF IoCloseFd, CloseFd, Places, FreshInv, BudgetInv, IoInv, Safe, DispatchInv, Requester,
             CloseBeforeUnregister, Started, NoZombieSession, IoClosing
    <2>4. QED
      BY <1>d, <2>1, <2>2, <2>3
  <1>10. CASE IoRemove
    <2>1. TypeOK'
      BY <1>10 DEF IoRemove, IoPc, DispatchPc, ReadState
    <2>2. Places'
      BY <1>10 DEF IoRemove, Places, FreshInv, BudgetInv, IoInv
    <2>3. Safe'
      BY <1>10 DEF IoRemove, Places, FreshInv, BudgetInv, IoInv, Safe, DispatchInv, Requester,
             CloseBeforeUnregister, Started, NoZombieSession, IoClosing
    <2>4. QED
      BY <1>d, <2>1, <2>2, <2>3
  <1>11. CASE HandleSignal \/ LockAll \/ AllClosed \/ StopIo \/ Join
    <2>1. TypeOK'
      BY <1>11 DEF HandleSignal, LockAll, AllClosed, StopIo, Join, IoPc, DispatchPc, ReadState
    <2>2. Places'
      BY <1>11 DEF HandleSignal, LockAll, AllClosed, StopIo, Join, Places, FreshInv, BudgetInv, IoInv
    <2>3. Safe'
      BY <1>11 DEF HandleSignal, LockAll, AllClosed, StopIo, Join, Places, FreshInv, BudgetInv, IoInv, Safe, DispatchInv, Requester,
             CloseBeforeUnregister, Started, NoZombieSession, IoClosing
    <2>4. QED
      BY <1>d, <2>1, <2>2, <2>3
  <1>12. CASE StopLogic \/ NotifyLogic
    <2>1. TypeOK'
      BY <1>12 DEF StopLogic, SetStop, NotifyLogic, NotifyAll, Notified, IoPc, DispatchPc, ReadState
    <2>2. Places'
      BY <1>12 DEF StopLogic, SetStop, NotifyLogic, NotifyAll, Notified, Places, FreshInv, BudgetInv, IoInv
    <2>3. Safe'
      BY <1>12 DEF StopLogic, SetStop, NotifyLogic, NotifyAll, Notified, Places, FreshInv, BudgetInv, IoInv, Safe, DispatchInv, Requester,
             CloseBeforeUnregister, Started, NoZombieSession, IoClosing
    <2>4. QED
      BY <1>d, <2>1, <2>2, <2>3
  <1>13. CASE RunLoop \/ Spurious
    <2>1. TypeOK'
      BY <1>13 DEF RunLoop, Spurious, nvars
    <2>2. Places'
      BY <1>13 DEF RunLoop, CheckStop, Acquire, Block, Leave, Pop, Spurious,
             SpuriousWake, nvars, Places, FreshInv, BudgetInv, IoInv
    <2>3. Safe'
      BY <1>13 DEF RunLoop, CheckStop, Acquire, Block, Leave, Pop, Spurious,
             SpuriousWake, nvars, Places, FreshInv, BudgetInv, IoInv, Safe, DispatchInv, Requester,
             CloseBeforeUnregister, Started, NoZombieSession, IoClosing
    <2>4. QED
      BY <1>d, <2>1, <2>2, <2>3
  <1>14. CASE get_session
    <2>0. lpc = "dispatch" /\ Requester \in SessionId /\ Requester < nextId
      BY <1>14, RequesterKnown DEF get_session, Safe, DispatchInv
    <2>1. TypeOK'
      BY <1>14, <2>0 DEF get_session, Return, Continue, FinishDispatch, nvars, IoPc, DispatchPc, ReadState
    <2>2. Places'
      BY <1>14, <2>0 DEF get_session, Return, Continue, FinishDispatch, nvars, Places, FreshInv, BudgetInv, IoInv
    <2>3. Safe'
      BY <1>14, <2>0 DEF get_session, Return, Continue, FinishDispatch, nvars, Places, FreshInv, BudgetInv, IoInv, Safe, DispatchInv, Requester,
             CloseBeforeUnregister, Started, NoZombieSession, IoClosing
    <2>4. QED
      BY <1>d, <2>1, <2>2, <2>3
  <1>15. CASE BeginSend
    <2>0. lpc = "dispatch" /\ Requester \in SessionId /\ Requester < nextId
      BY <1>15, RequesterKnown DEF BeginSend, Safe, DispatchInv
    <2>1. TypeOK'
      BY <1>15, <2>0 DEF BeginSend, Continue, nvars, IoPc, DispatchPc, ReadState
    <2>2. Places'
      BY <1>15, <2>0 DEF BeginSend, Continue, nvars, Places, FreshInv, BudgetInv, IoInv
    <2>3. Safe'
      BY <1>15, <2>0 DEF BeginSend, Continue, nvars, Places, FreshInv, BudgetInv, IoInv, Safe, DispatchInv, Requester,
             CloseBeforeUnregister, Started, NoZombieSession, IoClosing
    <2>4. QED
      BY <1>d, <2>1, <2>2, <2>3
  <1>16. CASE WriteOk
    <2>0. lpc = "dispatch" /\ Requester \in SessionId /\ Requester < nextId
      BY <1>16, RequesterKnown DEF WriteOk, Safe, DispatchInv
    <2>1. TypeOK'
      <3>1. owner[dfd] \in SessionId /\ current[1] \in LogicMessage
        BY <1>16, <2>0, RequesterKnown DEF WriteOk
      <3>2. echoed' \in [SessionId -> Seq(LogicMessage)]
        <4>1. Append(echoed[owner[dfd]], current[1]) \in Seq(LogicMessage)
          BY <3>1, AppendInSeq
        <4>2. QED
          BY <1>16, <3>1, <4>1 DEF WriteOk
      <3>3. QED
        BY <1>16, <3>2 DEF WriteOk, Return, nvars, DispatchPc
    <2>2. Places'
      BY <1>16, <2>0 DEF WriteOk, Return, FinishDispatch, nvars, Places, FreshInv, BudgetInv, IoInv
    <2>3. Safe'
      BY <1>16, <2>0 DEF WriteOk, Return, FinishDispatch, nvars, Places, FreshInv, BudgetInv, IoInv, Safe, DispatchInv, Requester,
             CloseBeforeUnregister, Started, NoZombieSession, IoClosing
    <2>4. QED
      BY <1>d, <2>1, <2>2, <2>3
  <1>17. CASE WriteError
    <2>0. lpc = "dispatch" /\ Requester \in SessionId /\ Requester < nextId
      BY <1>17, RequesterKnown DEF WriteError, Safe, DispatchInv
    <2>1. TypeOK'
      BY <1>17, <2>0 DEF WriteError, Continue, nvars, IoPc, DispatchPc, ReadState
    <2>2. Places'
      BY <1>17, <2>0 DEF WriteError, Continue, nvars, Places, FreshInv, BudgetInv, IoInv
    <2>3. Safe'
      BY <1>17, <2>0 DEF WriteError, Continue, nvars, Places, FreshInv, BudgetInv, IoInv, Safe, DispatchInv, Requester,
             CloseBeforeUnregister, Started, NoZombieSession, IoClosing
    <2>4. QED
      BY <1>d, <2>1, <2>2, <2>3
  <1>18. CASE LogicCloseFd
    <2>0. lpc = "dispatch" /\ Requester \in SessionId /\ Requester < nextId
      BY <1>18, RequesterKnown DEF LogicCloseFd, Safe, DispatchInv
    <2>1. TypeOK'
      BY <1>18, <2>0 DEF LogicCloseFd, CloseFd, Continue, IoPc, DispatchPc, ReadState
    <2>2. Places'
      BY <1>18, <2>0 DEF LogicCloseFd, CloseFd, Continue, Places, FreshInv, BudgetInv, IoInv
    <2>3. Safe'
      BY <1>18, <2>0 DEF LogicCloseFd, CloseFd, Continue, Places, FreshInv, BudgetInv, IoInv, Safe, DispatchInv, Requester,
             CloseBeforeUnregister, Started, NoZombieSession, IoClosing
    <2>4. QED
      BY <1>d, <2>1, <2>2, <2>3
  <1>19. CASE LogicRemove
    <2>0. lpc = "dispatch" /\ Requester \in SessionId /\ Requester < nextId
      BY <1>19, RequesterKnown DEF LogicRemove, Safe, DispatchInv
    <2>1. TypeOK'
      BY <1>19, <2>0 DEF LogicRemove, Return, FinishDispatch, IoPc, DispatchPc, ReadState
    <2>2. Places'
      BY <1>19, <2>0 DEF LogicRemove, Return, FinishDispatch, Places, FreshInv, BudgetInv, IoInv
    <2>3. Safe'
      BY <1>19, <2>0 DEF LogicRemove, Return, FinishDispatch, Places, FreshInv, BudgetInv, IoInv, Safe, DispatchInv, Requester,
             CloseBeforeUnregister, Started, NoZombieSession, IoClosing
    <2>4. QED
      BY <1>d, <2>1, <2>2, <2>3
  <1>20. CASE UNCHANGED vars
    <2>1. TypeOK' /\ Places'
      BY <1>20 DEF vars, nvars, Places, FreshInv, BudgetInv, IoInv
    <2>2. Safe'
      BY <1>20 DEF vars, nvars, Safe, DispatchInv, Requester,
             CloseBeforeUnregister, Started, NoZombieSession, IoClosing
    <2>3. QED
      BY <1>d, <2>1, <2>2
  <1>21. QED
    BY <1>1, <1>2, <1>3, <1>4, <1>5, <1>6, <1>7, <1>8, <1>9, <1>10, <1>11, <1>12,
       <1>13, <1>14, <1>15, <1>16, <1>17, <1>18, <1>19, <1>20
    DEF Next, Dispatch

\* The inductive invariant of the server.
THEOREM ServerInvariant == Spec => []ServerInv
  BY ServerInitInv, ServerStepInv, PTL DEF Spec

\* The variables of the server keep their types.
THEOREM ServerTypeCorrect == Spec => []TypeOK
  <1>1. ServerInv => TypeOK
    BY DEF ServerInv
  <1>2. QED
    BY <1>1, ServerInvariant, PTL

\* Whatever the two threads do to a socket, a session leaves the registry only after
\* its socket object was closed.
THEOREM UnregisteredAreClosed == Spec => []CloseBeforeUnregister
  <1>1. ServerInv => CloseBeforeUnregister
    BY DEF ServerInv
  <1>2. QED
    BY <1>1, ServerInvariant, PTL

\* No registered session is left without a reader.
THEOREM RegisteredAreServed == Spec => []NoZombieSession
  <1>1. ServerInv => NoZombieSession
    BY DEF ServerInv
  <1>2. QED
    BY <1>1, ServerInvariant, PTL

\* The server uses the logic layer as LogicSystem specifies it, so what is proved of
\* LogicSystem under any producers holds inside the server.
THEOREM ServerUsesLogicSystem == Spec => LogicSafety
  <1>1. Init => LogicInit
    BY DEF Init
  <1>2. ServerInv /\ [Next]_vars => [LogicStep]_lvars
    BY ServerStepIsLogicStep
  <1>3. QED
    BY <1>1, <1>2, ServerInvariant, PTL DEF Spec, LogicSafety

-----------------------------------------------------------------------------
(* The order of the replies. *)

\* The post numbered p has not been answered yet.
Pending(p) == p > taken \/ (p = taken /\ lpc = "dispatch")

\* The messages of a session are posted in the order of their numbers, up to the last one
\* it has sent.
PostOrder ==
    /\ \A i, j \in 1..Len(posted) :
        i < j /\ posted[i].session_id = posted[j].session_id => posted[i].body < posted[j].body
    /\ \A i \in 1..Len(posted) : posted[i].body <= sent[posted[i].session_id]

\* Number b is below every number that session id has yet to be answered.
Before(id, b) ==
    /\ b <= sent[id]
    /\ \A p \in 1..Len(posted) :
        Pending(p) /\ posted[p].session_id = id => b < posted[p].body

\* What was echoed to its own session comes before what is pending.
EchoedBefore ==
    \A id \in SessionId : \A i \in 1..Len(echoed[id]) :
        echoed[id][i].session_id = id => Before(id, echoed[id][i].body)

\* The part of the inductive invariant that is about the order of the replies.
EchoInv == PostOrder /\ EchoedBefore /\ EchoInOrder

\* A step that posts and echoes nothing, and after which no more is pending.
LEMMA EchoStable ==
    ASSUME EchoInv, UNCHANGED <<posted, sent, echoed>>,
           \A p \in 1..Len(posted) : Pending(p)' => Pending(p)
    PROVE  EchoInv'
  <1>1. PostOrder' /\ EchoInOrder'
    BY DEF EchoInv, PostOrder, EchoInOrder
  <1>2. EchoedBefore'
    BY DEF EchoInv, EchoedBefore, Before
  <1>3. QED
    BY <1>1, <1>2 DEF EchoInv

\* A post, the next number of its session, comes after everything posted or echoed.
LEMMA EchoHandleBody ==
    ASSUME ServerInv, EchoInv, NEW id \in SessionId, HandleBody(id)
    PROVE  EchoInv'
  <1> DEFINE m == [session_id |-> id, body |-> sent[id] + 1]
  <1>1. /\ posted' = Append(posted, m) /\ sent' = [sent EXCEPT ![id] = @ + 1]
        /\ echoed' = echoed /\ taken' = taken
        /\ lpc' = "dispatch" <=> lpc = "dispatch"
    BY DEF HandleBody, post_message, Notified, dvars
  <1>2. /\ posted \in Seq(LogicMessage) /\ taken \in Nat /\ sent \in [SessionId -> 0..MaxMsgs]
        /\ echoed \in [SessionId -> Seq(LogicMessage)]
        /\ taken <= Len(posted) /\ Len(posted) \in Nat
    BY DEF ServerInv, TypeOK, LogicInv, LogicTypeOK, FifoExactlyOnce
  <1>3. /\ Len(posted') = Len(posted) + 1
        /\ \A i \in 1..Len(posted) : posted'[i] = posted[i]
        /\ posted'[Len(posted) + 1] = m
        /\ m.session_id = id /\ m.body = sent[id] + 1
    BY <1>1, <1>2
  <1> HIDE DEF m
  <1>4. \A s \in SessionId : sent[s] \in Nat /\ sent'[s] = IF s = id THEN sent[s] + 1 ELSE sent[s]
    BY <1>1, <1>2, ServerAssumption
  <1>5. \A i \in 1..Len(posted') : i \in 1..Len(posted) \/ i = Len(posted) + 1
    BY <1>2, <1>3
  <1>6. \A i \in 1..Len(posted) : posted[i].session_id \in SessionId /\ posted[i].body \in Nat
    <2>1. \A x \in LogicMessage : x.session_id \in SessionId /\ x.body \in Nat
      BY ServerAssumption
    <2>2. QED
      BY <1>2, <2>1
  <1>7. PostOrder'
    <2>1. ASSUME NEW i \in 1..Len(posted'), NEW j \in 1..Len(posted'),
                 i < j, posted'[i].session_id = posted'[j].session_id
          PROVE  posted'[i].body < posted'[j].body
      <3>1. i \in 1..Len(posted)
        BY <1>2, <1>3, <1>5, <2>1
      <3>2. CASE j \in 1..Len(posted)
        BY <1>3, <2>1, <3>1, <3>2 DEF EchoInv, PostOrder
      <3>3. CASE j = Len(posted) + 1
        <4>1. posted[i].session_id = id /\ posted[i].body <= sent[id]
          BY <1>3, <2>1, <3>1, <3>3 DEF EchoInv, PostOrder
        <4>2. QED
          BY <1>3, <1>4, <1>6, <3>1, <3>3, <4>1
      <3>4. QED
        BY <1>5, <3>2, <3>3
    <2>2. ASSUME NEW i \in 1..Len(posted')
          PROVE  posted'[i].body <= sent'[posted'[i].session_id]
      <3>1. CASE i \in 1..Len(posted)
        <4>1. posted[i].body <= sent[posted[i].session_id]
          BY <3>1 DEF EchoInv, PostOrder
        <4>2. QED
          BY <1>3, <1>4, <1>6, <3>1, <4>1
      <3>2. CASE i = Len(posted) + 1
        BY <1>3, <1>4, <3>2
      <3>3. QED
        BY <1>5, <3>1, <3>2
    <2>3. QED
      BY <2>1, <2>2 DEF PostOrder
  <1>8. EchoedBefore'
    <2> SUFFICES ASSUME NEW s \in SessionId, NEW i \in 1..Len(echoed[s]),
                        echoed[s][i].session_id = s
                 PROVE  Before(s, echoed[s][i].body)'
      BY <1>1 DEF EchoedBefore
    <2> DEFINE b == echoed[s][i].body
    <2>1. Before(s, b) /\ b \in Nat
      <3>1. echoed[s][i] \in LogicMessage
        BY <1>2
      <3>2. QED
        BY <3>1, ServerAssumption DEF EchoInv, EchoedBefore
    <2>2. b' = b
      BY <1>1
    <2> HIDE DEF b
    <2>3. b <= sent'[s]
      BY <1>4, <2>1 DEF Before
    <2>4. ASSUME NEW p \in 1..Len(posted'), Pending(p)', posted'[p].session_id = s
          PROVE  b < posted'[p].body
      <3>1. CASE p \in 1..Len(posted)
        <4>1. Pending(p)
          BY <1>1, <2>4 DEF Pending
        <4>2. QED
          BY <1>3, <2>1, <2>4, <3>1, <4>1 DEF Before
      <3>2. CASE p = Len(posted) + 1
        BY <1>3, <1>4, <2>1, <2>4, <3>2 DEF Before
      <3>3. QED
        BY <1>5, <3>1, <3>2
    <2>5. Before(s, b)'
      BY <2>2, <2>3, <2>4 DEF Before
    <2>6. QED
      BY <2>5 DEF b
  <1>9. EchoInOrder'
    BY <1>1 DEF EchoInv, EchoInOrder
  <1>10. QED
    BY <1>7, <1>8, <1>9 DEF EchoInv

\* An echo comes after everything echoed to its session, and is not pending any more.
LEMMA EchoWriteOk ==
    ASSUME ServerInv, EchoInv, WriteOk
    PROVE  EchoInv'
  <1>1. lpc = "dispatch" /\ lpc' = "check" /\ taken' = taken /\ posted' = posted /\ sent' = sent
    BY DEF ServerInv, DispatchInv, WriteOk, Return, FinishDispatch, nvars
  <1>2. /\ posted \in Seq(LogicMessage) /\ taken \in 1..Len(posted) /\ Len(posted) \in Nat
        /\ echoed \in [SessionId -> Seq(LogicMessage)] /\ current[1] = posted[taken]
    BY <1>1 DEF ServerInv, TypeOK, LogicInv, LogicTypeOK, FifoExactlyOnce
  <1>3. PICK m \in LogicMessage : m = posted[taken]
    BY <1>2
  <1>4. PICK o \in SessionId : o = owner[dfd]
    BY DEF ServerInv, TypeOK, WriteOk, NoFd, NoConn
  <1>5. echoed' = [echoed EXCEPT ![o] = Append(@, m)]
    BY <1>2, <1>3, <1>4 DEF WriteOk
  <1>6. Pending(taken)
    BY <1>1 DEF Pending
  <1>7. /\ Len(echoed'[o]) = Len(echoed[o]) + 1 /\ Len(echoed[o]) \in Nat
        /\ \A i \in 1..Len(echoed[o]) : echoed'[o][i] = echoed[o][i]
        /\ echoed'[o][Len(echoed[o]) + 1] = m
        /\ \A s \in SessionId : s # o => echoed'[s] = echoed[s]
    BY <1>2, <1>5
  <1>8. \A i \in 1..Len(echoed'[o]) : i \in 1..Len(echoed[o]) \/ i = Len(echoed[o]) + 1
    BY <1>7
  <1>9. \A s \in SessionId : \A b : Before(s, b) => Before(s, b)'
    BY <1>1, <1>2 DEF Before, Pending
  <1>10. ASSUME m.session_id = o PROVE Before(o, m.body)'
    <2>1. m.body <= sent[o]
      BY <1>2, <1>3, <1>10 DEF EchoInv, PostOrder
    <2>2. ASSUME NEW p \in 1..Len(posted), Pending(p)', posted[p].session_id = o
          PROVE  m.body < posted[p].body
      <3>1. taken < p
        BY <1>1, <1>2, <2>2 DEF Pending
      <3>2. QED
        BY <1>2, <1>3, <1>10, <2>2, <3>1 DEF EchoInv, PostOrder
    <2>3. QED
      BY <1>1, <2>1, <2>2 DEF Before
  <1>11. PostOrder'
    BY <1>1 DEF EchoInv, PostOrder
  <1>12. EchoedBefore'
    <2>1. ASSUME NEW s \in SessionId, NEW i \in 1..Len(echoed'[s]), NEW b,
                 echoed'[s][i].session_id = s, b = echoed'[s][i].body
          PROVE  Before(s, b)'
      <3>1. CASE s = o /\ i = Len(echoed[o]) + 1
        BY <1>7, <1>10, <2>1, <3>1
      <3>2. CASE i \in 1..Len(echoed[s])
        <4>1. echoed'[s][i] = echoed[s][i]
          BY <1>7, <3>2
        <4>2. Before(s, b)
          BY <2>1, <3>2, <4>1 DEF EchoInv, EchoedBefore
        <4>3. QED
          BY <1>9, <4>2
      <3>3. QED
        BY <1>7, <1>8, <3>1, <3>2
    <2>2. QED
      BY <2>1 DEF EchoedBefore, Before
  <1>13. EchoInOrder'
    <2> SUFFICES ASSUME NEW s \in SessionId,
                        NEW i \in 1..Len(echoed'[s]), NEW j \in 1..Len(echoed'[s]),
                        i < j, echoed'[s][i].session_id = s, echoed'[s][j].session_id = s
                 PROVE  echoed'[s][i].body < echoed'[s][j].body
      BY DEF EchoInOrder
    <2>1. CASE s # o
      BY <1>7, <2>1 DEF EchoInv, EchoInOrder
    <2>2. CASE s = o
      <3>1. i \in 1..Len(echoed[o])
        BY <1>7, <1>8, <2>2
      <3>2. CASE j \in 1..Len(echoed[o])
        BY <1>7, <2>2, <3>1, <3>2 DEF EchoInv, EchoInOrder
      <3>3. CASE j = Len(echoed[o]) + 1
        <4>1. m.session_id = o /\ echoed[o][i].session_id = o
          BY <1>7, <2>2, <3>1, <3>3
        <4>2. Before(o, echoed[o][i].body)
          BY <1>4, <3>1, <4>1 DEF EchoInv, EchoedBefore
        <4>3. echoed[o][i].body < m.body
          BY <1>2, <1>3, <1>6, <4>1, <4>2 DEF Before
        <4>4. QED
          BY <1>7, <2>2, <3>1, <3>3, <4>3
      <3>4. QED
        BY <1>8, <2>2, <3>2, <3>3
    <2>3. QED
      BY <2>1, <2>2
  <1>14. QED
    BY <1>11, <1>12, <1>13 DEF EchoInv

\* Every step keeps the order of the replies.
LEMMA EchoStep == ServerInv /\ EchoInv /\ [Next]_vars => EchoInv'
  <1> SUFFICES ASSUME ServerInv, EchoInv, [Next]_vars PROVE EchoInv'
    OBVIOUS
  <1>1. ASSUME NEW id \in SessionId, HandleBody(id) PROVE EchoInv'
    BY <1>1, EchoHandleBody
  <1>2. CASE WriteOk
    BY <1>2, EchoWriteOk
  <1>3. CASE RunLoop
    <2>1. taken \in Nat
      BY DEF ServerInv, LogicInv, LogicTypeOK
    <2>2. UNCHANGED <<posted, sent, echoed>>
      BY <1>3 DEF RunLoop, CheckStop, Acquire, Block, Leave, Pop, nvars, dvars
    <2>3. \A p \in 1..Len(posted) : Pending(p)' => Pending(p)
      BY <1>3, <2>1 DEF RunLoop, CheckStop, Acquire, Block, Leave, Pop, Pending
    <2>4. QED
      BY <2>2, <2>3, EchoStable
  <1>4. ASSUME UNCHANGED <<posted, taken, sent, echoed>>, lpc' = "dispatch" => lpc = "dispatch"
        PROVE  EchoInv'
    BY <1>4, EchoStable DEF Pending
  <1>5. ASSUME NEW id \in SessionId,
               HeaderArrives(id) \/ BodyArrives(id) \/ HandleHeader(id)
                 \/ HandleReadError(id) \/ CloseEach(id)
        PROVE  EchoInv'
    BY <1>4, <1>5 DEF HeaderArrives, BodyArrives, HandleHeader, HandleReadError, CloseEach,
                      lvars, dvars
  <1>6. CASE HandleAccept \/ add_session \/ IoCloseFd \/ IoRemove \/ HandleSignal
               \/ LockAll \/ AllClosed \/ StopIo \/ Join
    BY <1>4, <1>6 DEF HandleAccept, add_session, IoCloseFd, IoRemove, HandleSignal, LockAll,
                      AllClosed, StopIo, Join, lvars, dvars
  <1>7. CASE StopLogic \/ NotifyLogic \/ Spurious
    BY <1>4, <1>7 DEF StopLogic, SetStop, NotifyLogic, NotifyAll, Notified, Spurious,
                      SpuriousWake, nvars, dvars
  <1>8. CASE get_session \/ BeginSend \/ WriteError \/ LogicCloseFd \/ LogicRemove
    BY <1>4, <1>8 DEF get_session, BeginSend, WriteError, LogicCloseFd, LogicRemove, Return,
                      Continue, FinishDispatch, lvars, nvars
  <1>9. CASE UNCHANGED vars
    BY <1>4, <1>9 DEF vars, lvars, nvars, dvars
  <1>10. QED
    BY <1>1, <1>2, <1>3, <1>5, <1>6, <1>7, <1>8, <1>9 DEF Next, Dispatch

\* The replies of a session that reach its own connection arrive in the order of its
\* requests and none twice, although the descriptor of a session may be reused while the
\* logic thread sends to it.
THEOREM RepliesInOrder == Spec => []EchoInOrder
  <1>1. Init => EchoInv
    BY DEF Init, LogicInit, EchoInv, PostOrder, EchoedBefore, EchoInOrder
  <1>2. EchoInv => EchoInOrder
    BY DEF EchoInv
  <1>3. QED
    BY <1>1, <1>2, EchoStep, ServerInvariant, PTL DEF Spec
=============================================================================
