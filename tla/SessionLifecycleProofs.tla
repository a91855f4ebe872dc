----------------------- MODULE SessionLifecycleProofs -----------------------
(***************************************************************************)
(* Proofs about the life of a session, for any number of connections, any  *)
(* idle limit and any number of packets.                                   *)
(***************************************************************************)
EXTENDS SessionLifecycle, TLAPS

-----------------------------------------------------------------------------
(* The inductive invariant *)

\* The reader is working on a packet whose service coroutine is not spawned yet.
InPacket(s) == IF reader[s] \in {"headerDone", "body", "bodyDone"} THEN 1 ELSE 0

\* A service coroutine belongs to a packet received.
HandlersCounted == \A s \in Sessions : handlers[s] + InPacket(s) <= recv[s]

\* The accept handler holds a session exactly between its construction and its insertion.
AcceptorHolds ==
  /\ acceptor = "waiting" <=> newSession = NoSession
  /\ newSession # NoSession => Created(newSession)

\* The coroutines of a session are spawned together, and the watchdog ends only after Close.
WatchdogGuards ==
  \A s \in Sessions :
    /\ watchdog[s] = "none" <=> reader[s] = "none"
    /\ watchdog[s] = "ended" => bStop[s]

\* A stopped session's socket is closed, or the task that closes it is posted; no other's is.
ClosingFollows ==
  \A s \in Sessions : /\ bStop[s] => closing[s] \/ sock[s] = "closed"
                      /\ closing[s] => bStop[s]

\* DelSessionByUuid is called by those who close, except HandleWrite, and by nobody else.
ForgetFollows ==
  \A s \in Sessions :
    /\ forgotten[s] => bStop[s]
    /\ bStop[s] => closer[s] = "write" \/ forgotten[s]
    /\ Created(s) /\ newSession # s /\ ~forgotten[s] => s \in sessionMap

LifeInv == AcceptorHolds /\ WatchdogGuards /\ ClosingFollows /\ ForgetFollows

-----------------------------------------------------------------------------
(* Type correctness *)

\* Close keeps the types of what it sets.
LEMMA CloseTypes ==
  ASSUME TypeOK, NEW s \in Sessions, NEW who \in {"reader", "watchdog", "handler", "write"}, Close(s, who)
  PROVE  /\ bStop' \in [Sessions -> BOOLEAN]
         /\ closing' \in [Sessions -> BOOLEAN]
         /\ closer' \in [Sessions -> {"nobody", "reader", "watchdog", "handler", "write"}]
<1>0. /\ bStop \in [Sessions -> BOOLEAN]
      /\ closing \in [Sessions -> BOOLEAN]
      /\ closer \in [Sessions -> {"nobody", "reader", "watchdog", "handler", "write"}]
  BY DEF TypeOK
<1>1. CASE bStop[s]
  BY <1>0, <1>1 DEF Close
<1>2. CASE ~bStop[s]
  <2>1. /\ bStop' = [bStop EXCEPT ![s] = TRUE]
        /\ closing' = [closing EXCEPT ![s] = TRUE]
        /\ closer' = [closer EXCEPT ![s] = who]
    BY <1>2 DEF Close
  <2>2. bStop' \in [Sessions -> BOOLEAN] /\ closing' \in [Sessions -> BOOLEAN]
    BY <1>0, <2>1
  <2> QED BY <1>0, <2>1, <2>2
<1> QED BY <1>1, <1>2

\* Every step keeps the types and the count of service coroutines.
LEMMA TypeStep ==
  ASSUME TypeOK, HandlersCounted, AcceptorHolds, [Next]_vars
  PROVE  TypeOK' /\ HandlersCounted'
<1> USE LifecycleAssumption
    DEF TypeOK, HandlersCounted, InPacket, ReaderStates, serverVars, ioVars, netVars,
        KeepOpen, KeepKnown, Close, Forget
<1>1. ASSUME NEW s \in Sessions, Accept(s) PROVE TypeOK' /\ HandlersCounted'
  <2>1. reader[s] = "none" /\ reader' = [reader EXCEPT ![s] = "spawned"] /\ UNCHANGED <<handlers, recv>>
    BY <1>1 DEF Accept, Created
  <2>2. HandlersCounted'
    BY <2>1
  <2>3. /\ reader' \in [Sessions -> ReaderStates]
        /\ watchdog' \in [Sessions -> {"none", "spawned", "waiting", "ended"}]
    BY <1>1 DEF Accept
  <2> QED BY <1>1, <2>2, <2>3 DEF Accept
<1>2. CASE AcceptLog
  BY <1>2 DEF AcceptLog
<1>3. CASE AcceptInsert
  BY <1>3 DEF AcceptInsert, AcceptorHolds
<1>4. ASSUME NEW s \in Sessions, Reader(s) PROVE TypeOK' /\ HandlersCounted'
  <2>1. CASE ReaderStart(s)
    BY <2>1 DEF ReaderStart, LoopTop, Await
  <2>2. CASE ReaderHeader(s)
    BY <2>2 DEF ReaderHeader, Dispatch, LoopTop, Await
  <2>3. CASE ReaderBody(s)
    BY <2>3 DEF ReaderBody, Dispatch, LoopTop, Await
  <2>4. CASE ReaderError(s)
    <3>1. reader[s] = "failed" /\ reader' = [reader EXCEPT ![s] = "ended"] /\ UNCHANGED <<handlers, recv>>
      BY <2>4 DEF ReaderError
    <3>2. reader' \in [Sessions -> ReaderStates] /\ HandlersCounted'
      BY <3>1
    <3>3. /\ bStop' \in [Sessions -> BOOLEAN] /\ closing' \in [Sessions -> BOOLEAN]
          /\ closer' \in [Sessions -> {"nobody", "reader", "watchdog", "handler", "write"}]
      <4> HIDE DEF TypeOK, Close
      <4>1. Close(s, "reader")
        BY <2>4 DEF ReaderError
      <4> QED BY ONLY TypeOK, s \in Sessions, <4>1, CloseTypes
    <3>4. sessionMap' \subseteq Sessions /\ forgotten' \in [Sessions -> BOOLEAN]
      BY <2>4 DEF ReaderError
    <3>5. UNCHANGED <<acceptor, newSession, sender, watchdog, handlers, write, recv, peer, sock, idle, down>>
      BY <2>4 DEF ReaderError
    <3> QED BY <3>2, <3>3, <3>4, <3>5
  <2>5. CASE ReaderDangles(s)
    BY <2>5 DEF ReaderDangles
  <2> QED BY <1>4, <2>1, <2>2, <2>3, <2>4, <2>5 DEF Reader
<1>5. ASSUME NEW s \in Sessions, Watchdog(s) PROVE TypeOK' /\ HandlersCounted'
  <2>1. CASE WatchdogStart(s)
    BY <2>1 DEF WatchdogStart
  <2>2. CASE WatchdogCheck(s)
    BY <2>2 DEF WatchdogCheck, TimerFires
  <2>3. CASE WatchdogTimeout(s)
    BY <2>3 DEF WatchdogTimeout
  <2>4. CASE WatchdogStopped(s)
    BY <2>4 DEF WatchdogStopped
  <2> QED BY <1>5, <2>1, <2>2, <2>3, <2>4 DEF Watchdog
<1>6. ASSUME NEW s \in Sessions, Service(s) PROVE TypeOK' /\ HandlersCounted'
  <2>1. CASE HandlerEnd(s)
    BY <2>1 DEF HandlerEnd
  <2>2. CASE HandlerClose(s)
    <3>1. handlers' = [handlers EXCEPT ![s] = @ - 1] /\ handlers[s] > 0
      BY <2>2 DEF HandlerClose
    <3>2. handlers' \in [Sessions -> 0..MsgLimit]
      <4>1. handlers[s] - 1 \in 0..MsgLimit
        BY <3>1
      <4> QED BY <3>1, <4>1
    <3>3. HandlersCounted'
      BY <2>2, <3>1 DEF HandlerClose
    <3>4. /\ bStop' \in [Sessions -> BOOLEAN] /\ closing' \in [Sessions -> BOOLEAN]
          /\ closer' \in [Sessions -> {"nobody", "reader", "watchdog", "handler", "write"}]
      <4> HIDE DEF TypeOK, Close
      <4>1. Close(s, "handler")
        BY <2>2 DEF HandlerClose
      <4> QED BY ONLY TypeOK, s \in Sessions, <4>1, CloseTypes
    <3>5. sessionMap' \subseteq Sessions /\ forgotten' \in [Sessions -> BOOLEAN]
      BY <2>2 DEF HandlerClose
    <3>6. UNCHANGED <<acceptor, newSession, sender, reader, watchdog, write, recv, peer, sock, idle, down>>
      BY <2>2 DEF HandlerClose
    <3> QED BY <3>2, <3>3, <3>4, <3>5, <3>6
  <2> QED BY <1>6, <2>1, <2>2 DEF Service
<1>7. ASSUME NEW s \in Sessions, Sending(s) PROVE TypeOK' /\ HandlersCounted'
  <2>1. CASE RunDoSend(s)
    BY <2>1 DEF RunDoSend
  <2>2. CASE HandleWriteOk(s)
    BY <2>2 DEF HandleWriteOk
  <2>3. CASE HandleWriteError(s)
    <3>1. /\ bStop' \in [Sessions -> BOOLEAN] /\ closing' \in [Sessions -> BOOLEAN]
          /\ closer' \in [Sessions -> {"nobody", "reader", "watchdog", "handler", "write"}]
      <4> HIDE DEF TypeOK, Close
      <4>1. Close(s, "write")
        BY <2>3 DEF HandleWriteError
      <4> QED BY ONLY TypeOK, s \in Sessions, <4>1, CloseTypes
    <3>2. /\ UNCHANGED <<acceptor, newSession, sessionMap, sender, reader, watchdog, handlers>>
          /\ UNCHANGED <<recv, peer, sock, idle, forgotten, down>>
          /\ write' = [write EXCEPT ![s] = "none"]
      BY <2>3 DEF HandleWriteError
    <3> QED BY <3>1, <3>2
  <2> QED BY <1>7, <2>1, <2>2, <2>3 DEF Sending
<1>8. ASSUME NEW s \in Sessions, RunClose(s) PROVE TypeOK' /\ HandlersCounted'
  BY <1>8 DEF RunClose
<1>9. ASSUME NEW s \in Sessions, Network(s) PROVE TypeOK' /\ HandlersCounted'
  BY <1>9 DEF Network, DataArrives, PeerLeaves, ReadBreaks, WriteEnds
<1>10. ASSUME NEW s \in Sessions, OtherSender(s) PROVE TypeOK' /\ HandlersCounted'
  <2>1. CASE SenderFinds(s)
    BY <2>1 DEF SenderFinds
  <2>2. CASE SenderLeaves(s)
    BY <2>2 DEF SenderLeaves
  <2> QED BY <1>10, <2>1, <2>2 DEF OtherSender
<1>11. CASE UNCHANGED vars
  BY <1>11 DEF vars
<1> QED BY <1>1, <1>2, <1>3, <1>4, <1>5, <1>6, <1>7, <1>8, <1>9, <1>10, <1>11 DEF Next, Acceptor

-----------------------------------------------------------------------------
(* Safety *)

\* Every step keeps the invariant of a session's life.
LEMMA LifeStep ==
  ASSUME TypeOK, LifeInv, [Next]_vars
  PROVE  LifeInv'
<1> USE LifecycleAssumption
    DEF LifeInv, AcceptorHolds, WatchdogGuards, ClosingFollows, ForgetFollows, Created, TypeOK,
        ReaderStates, serverVars, ioVars, netVars, KeepOpen, KeepKnown, Close, Forget
<1>1. ASSUME NEW s \in Sessions, Accept(s) PROVE LifeInv'
  BY <1>1 DEF Accept
<1>2. CASE AcceptLog
  BY <1>2 DEF AcceptLog
<1>3. CASE AcceptInsert
  BY <1>3 DEF AcceptInsert
<1>4. ASSUME NEW s \in Sessions, Reader(s) PROVE LifeInv'
  <2>1. CASE ReaderStart(s)
    BY <2>1 DEF ReaderStart, LoopTop, Await
  <2>2. CASE ReaderHeader(s)
    BY <2>2 DEF ReaderHeader, Dispatch, LoopTop, Await
  <2>3. CASE ReaderBody(s)
    BY <2>3 DEF ReaderBody, Dispatch, LoopTop, Await
  <2>4. CASE ReaderError(s)
    BY <2>4 DEF ReaderError
  <2>5. CASE ReaderDangles(s)
    BY <2>5 DEF ReaderDangles
  <2> QED BY <1>4, <2>1, <2>2, <2>3, <2>4, <2>5 DEF Reader
<1>5. ASSUME NEW s \in Sessions, Watchdog(s) PROVE LifeInv'
  BY <1>5 DEF Watchdog, WatchdogStart, WatchdogCheck, WatchdogTimeout, WatchdogStopped, TimerFires
<1>6. ASSUME NEW s \in Sessions, Service(s) PROVE LifeInv'
  <2>1. CASE HandlerEnd(s)
    BY <2>1 DEF HandlerEnd
  <2>2. CASE HandlerClose(s)
    <3>1. UNCHANGED <<acceptor, newSession, reader, watchdog, sock>>
      BY <2>2 DEF HandlerClose
    <3>2. AcceptorHolds' /\ WatchdogGuards'
      BY <2>2, <3>1 DEF HandlerClose
    <3>3. ClosingFollows'
      BY <2>2, <3>1 DEF HandlerClose
    <3>4. ForgetFollows'
      BY <2>2, <3>1 DEF HandlerClose
    <3> QED BY <3>2, <3>3, <3>4
  <2> QED BY <1>6, <2>1, <2>2 DEF Service
<1>7. ASSUME NEW s \in Sessions, Sending(s) PROVE LifeInv'
  <2>1. CASE RunDoSend(s) \/ HandleWriteOk(s)
    BY <2>1 DEF RunDoSend, HandleWriteOk
  <2>2. CASE HandleWriteError(s)
    <3>1. UNCHANGED <<acceptor, newSession, sessionMap, reader, watchdog, sock, forgotten>>
      BY <2>2 DEF HandleWriteError
    <3>2. AcceptorHolds' /\ WatchdogGuards'
      BY <2>2, <3>1 DEF HandleWriteError
    <3>3. ClosingFollows'
      BY <2>2, <3>1 DEF HandleWriteError
    <3>4. ForgetFollows'
      BY <2>2, <3>1 DEF HandleWriteError
    <3> QED BY <3>2, <3>3, <3>4
  <2> QED BY <1>7, <2>1, <2>2 DEF Sending
<1>8. ASSUME NEW s \in Sessions, RunClose(s) PROVE LifeInv'
  BY <1>8 DEF RunClose
<1>9. ASSUME NEW s \in Sessions, Network(s) PROVE LifeInv'
  BY <1>9 DEF Network, DataArrives, PeerLeaves, ReadBreaks, WriteEnds
<1>10. ASSUME NEW s \in Sessions, OtherSender(s) PROVE LifeInv'
  BY <1>10 DEF OtherSender, SenderFinds, SenderLeaves
<1>11. CASE UNCHANGED vars
  BY <1>11 DEF vars
<1> QED BY <1>1, <1>2, <1>3, <1>4, <1>5, <1>6, <1>7, <1>8, <1>9, <1>10, <1>11 DEF Next, Acceptor

\* The invariants hold in every reachable state.
LEMMA Invariance == Safety => [](TypeOK /\ HandlersCounted /\ LifeInv)
<1>1. Init => TypeOK /\ HandlersCounted /\ LifeInv
  <2> SUFFICES ASSUME Init PROVE TypeOK /\ HandlersCounted /\ LifeInv
    OBVIOUS
  <2>1. TypeOK
    <3>1. /\ handlers \in [Sessions -> 0..MsgLimit] /\ recv \in [Sessions -> 0..MsgLimit]
          /\ idle \in [Sessions -> 0..IdleTicks+1]
      BY LifecycleAssumption DEF Init
    <3>2. /\ closing \in [Sessions -> BOOLEAN] /\ bStop \in [Sessions -> BOOLEAN]
          /\ forgotten \in [Sessions -> BOOLEAN] /\ down \in BOOLEAN
      BY DEF Init
    <3> QED BY <3>1, <3>2 DEF Init, TypeOK, ReaderStates
  <2>2. HandlersCounted
    BY DEF Init, HandlersCounted, InPacket
  <2>3. LifeInv
    BY LifecycleAssumption
       DEF Init, LifeInv, AcceptorHolds, WatchdogGuards, ClosingFollows, ForgetFollows, Created
  <2> QED BY <2>1, <2>2, <2>3
<1>2. TypeOK /\ HandlersCounted /\ LifeInv /\ [Next]_vars => (TypeOK /\ HandlersCounted /\ LifeInv)'
  BY TypeStep, LifeStep DEF LifeInv
<1> QED BY <1>1, <1>2, PTL DEF Safety

\* Every variable keeps its type; no session has more service coroutines than it got packets.
THEOREM LifecycleTypes == Safety => []TypeOK
BY Invariance, PTL

\* An accepted session that is not stopped is in _sessionMap.
THEOREM OpenIsRegisteredAlways == Safety => []OpenIsRegistered
<1>1. LifeInv => OpenIsRegistered
  BY DEF LifeInv, ForgetFollows, OpenIsRegistered
<1> QED BY <1>1, Invariance, PTL

\* A session left in the map for good was closed by HandleWrite or inserted after its removal.
THEOREM LeakCausesAlways == Safety => []LeakCauses
<1>1. LifeInv => LeakCauses
  BY DEF LifeInv, WatchdogGuards, ForgetFollows, LeakCauses, Leaked
<1> QED BY <1>1, Invariance, PTL

-----------------------------------------------------------------------------
(* The life a session shows to the rest of the server *)

\* The watchdog, which ends only after Close, keeps a session alive until then, and the task Close
\* posted until the socket is closed.
LEMMA GoneIsOut ==
  ASSUME TypeOK, LifeInv, NEW s \in Sessions, Gone(s)
  PROVE  Place(s) = "out" /\ bStop[s] = TRUE /\ Link(s) = "closed"
BY DEF TypeOK, LifeInv, WatchdogGuards, ClosingFollows, Gone, Held, Created, Place, Link

\* What is destroyed is held by nobody again.
LEMMA GoneForGood ==
  ASSUME TypeOK, LifeInv, [Next]_vars, NEW s \in Sessions, Gone(s)
  PROVE  Gone(s)'
<1> USE LifecycleAssumption
    DEF LifeInv, AcceptorHolds, WatchdogGuards, ClosingFollows, Created, Gone, Held, TypeOK,
        ReaderStates, serverVars, ioVars, netVars, KeepOpen, KeepKnown, Close, Forget
<1>1. ASSUME NEW t \in Sessions, Accept(t) PROVE Gone(s)'
  BY <1>1 DEF Accept
<1>2. CASE AcceptLog \/ AcceptInsert
  BY <1>2 DEF AcceptLog, AcceptInsert
<1>3. ASSUME NEW t \in Sessions, Reader(t) PROVE Gone(s)'
  <2>1. CASE ReaderStart(t)
    BY <2>1 DEF ReaderStart, LoopTop, Await
  <2>2. CASE ReaderHeader(t)
    BY <2>2 DEF ReaderHeader, Dispatch, LoopTop, Await
  <2>3. CASE ReaderBody(t)
    BY <2>3 DEF ReaderBody, Dispatch, LoopTop, Await
  <2>4. CASE ReaderError(t)
    BY <2>4 DEF ReaderError
  <2>5. CASE ReaderDangles(t)
    BY <2>5 DEF ReaderDangles
  <2> QED BY <1>3, <2>1, <2>2, <2>3, <2>4, <2>5 DEF Reader
<1>4. ASSUME NEW t \in Sessions, Watchdog(t) PROVE Gone(s)'
  BY <1>4 DEF Watchdog, WatchdogStart, WatchdogCheck, WatchdogTimeout, WatchdogStopped, TimerFires
<1>5. ASSUME NEW t \in Sessions, Service(t) PROVE Gone(s)'
  BY <1>5 DEF Service, HandlerEnd, HandlerClose
<1>6. ASSUME NEW t \in Sessions, Sending(t) PROVE Gone(s)'
  BY <1>6 DEF Sending, RunDoSend, HandleWriteOk, HandleWriteError
<1>7. ASSUME NEW t \in Sessions, RunClose(t) \/ Network(t) PROVE Gone(s)'
  BY <1>7 DEF RunClose, Network, DataArrives, PeerLeaves, ReadBreaks, WriteEnds
<1>8. ASSUME NEW t \in Sessions, OtherSender(t) PROVE Gone(s)'
  BY <1>8 DEF OtherSender, SenderFinds, SenderLeaves
<1>9. CASE UNCHANGED vars
  BY <1>9 DEF vars
<1> QED BY <1>1, <1>2, <1>3, <1>4, <1>5, <1>6, <1>7, <1>8, <1>9 DEF Next, Acceptor

\* What a step does to a session, but for its destruction.
Inserted(s) == Place(s) = "before" /\ Place(s)' = "in" /\ UNCHANGED <<bStop[s], Link(s)>>
Reset(s) == Link(s) = "open" /\ Link(s)' = "reset" /\ UNCHANGED <<Place(s), bStop[s]>>
Ended(s) == /\ bStop'[s] = TRUE /\ UNCHANGED Link(s)
            /\ Place(s)' = Place(s) \/ (Place(s) = "in" /\ Place(s)' = "out")
Closed(s) == /\ bStop[s] = TRUE /\ Link(s) # "closed" /\ Link(s)' = "closed"
             /\ UNCHANGED <<Place(s), bStop[s]>>
Untouched(s) == UNCHANGED <<Place(s), bStop[s], Link(s)>>

\* Every step does one of these to every session.
LEMMA LifeMoves ==
  ASSUME TypeOK, LifeInv, [Next]_vars, NEW s \in Sessions
  PROVE  Inserted(s) \/ Reset(s) \/ Ended(s) \/ Closed(s) \/ Untouched(s)
<1> USE LifecycleAssumption
    DEF TypeOK, serverVars, ioVars, netVars, KeepOpen, KeepKnown, Created, ReaderStates, Place, Link
<1>1. ASSUME NEW t \in Sessions, Accept(t) PROVE Untouched(s)
  BY <1>1 DEF Accept, Untouched, LifeInv, AcceptorHolds
<1>2. CASE AcceptLog
  BY <1>2 DEF AcceptLog, Untouched
<1>3. CASE AcceptInsert
  <2>1. CASE s = newSession
    BY <1>3, <2>1 DEF AcceptInsert, Inserted, LifeInv, AcceptorHolds
  <2>2. CASE s # newSession
    BY <1>3, <2>2 DEF AcceptInsert, Untouched, LifeInv, AcceptorHolds
  <2> QED BY <2>1, <2>2
<1>4. ASSUME NEW t \in Sessions, ReaderStart(t) \/ ReaderHeader(t) \/ ReaderBody(t) \/ ReaderDangles(t)
      PROVE  Untouched(s)
  BY <1>4 DEF ReaderStart, ReaderHeader, ReaderBody, ReaderDangles, Dispatch, LoopTop, Await, Untouched
<1>5. ASSUME NEW t \in Sessions, ReaderError(t) \/ WatchdogTimeout(t) \/ HandlerClose(t)
      PROVE  Ended(s) \/ Untouched(s)
  <2>1. CASE s = t
    <3>1. bStop'[s] = TRUE /\ UNCHANGED <<newSession, sock, peer>> /\ sessionMap' = sessionMap \ {s}
      BY <1>5, <2>1 DEF ReaderError, WatchdogTimeout, HandlerClose, Close, Forget
    <3>2. reader'[s] # "none" <=> reader[s] # "none"
      BY <1>5, <2>1 DEF ReaderError, WatchdogTimeout, HandlerClose
    <3> QED BY <3>1, <3>2 DEF Ended
  <2>2. CASE s # t
    <3>1. /\ bStop'[s] = bStop[s] /\ UNCHANGED <<newSession, sock, peer>>
          /\ s \in sessionMap' <=> s \in sessionMap
      BY <1>5, <2>2 DEF ReaderError, WatchdogTimeout, HandlerClose, Close, Forget
    <3>2. reader'[s] = reader[s]
      BY <1>5, <2>2 DEF ReaderError, WatchdogTimeout, HandlerClose
    <3> QED BY <3>1, <3>2 DEF Untouched
  <2> QED BY <2>1, <2>2
<1>6. ASSUME NEW t \in Sessions, WatchdogStart(t) \/ WatchdogCheck(t) \/ WatchdogStopped(t) \/ HandlerEnd(t)
      PROVE  Untouched(s)
  BY <1>6 DEF WatchdogStart, WatchdogCheck, WatchdogStopped, HandlerEnd, Untouched
<1>7. ASSUME NEW t \in Sessions, RunDoSend(t) \/ HandleWriteOk(t) PROVE Untouched(s)
  BY <1>7 DEF RunDoSend, HandleWriteOk, Untouched
<1>8. ASSUME NEW t \in Sessions, HandleWriteError(t) PROVE Ended(s) \/ Untouched(s)
  BY <1>8 DEF HandleWriteError, Close, Ended, Untouched
<1>9. ASSUME NEW t \in Sessions, RunClose(t) PROVE Closed(s) \/ Untouched(s)
  BY <1>9 DEF RunClose, Closed, Untouched, LifeInv, ClosingFollows
<1>10. ASSUME NEW t \in Sessions, PeerLeaves(t) PROVE Reset(s) \/ Untouched(s)
  BY <1>10 DEF PeerLeaves, Reset, Untouched
<1>11. ASSUME NEW t \in Sessions, DataArrives(t) \/ ReadBreaks(t) \/ WriteEnds(t) PROVE Untouched(s)
  BY <1>11 DEF DataArrives, ReadBreaks, WriteEnds, Untouched
<1>12. ASSUME NEW t \in Sessions, SenderFinds(t) \/ SenderLeaves(t) PROVE Untouched(s)
  BY <1>12 DEF SenderFinds, SenderLeaves, Untouched
<1>13. CASE UNCHANGED vars
  BY <1>13 DEF vars, Untouched
<1> QED BY <1>1, <1>2, <1>3, <1>4, <1>5, <1>6, <1>7, <1>8, <1>9, <1>10, <1>11, <1>12, <1>13
        DEF Next, Acceptor, Reader, Watchdog, Service, Sending, OtherSender, Network

\* So it is a step of SessionLife, or none.
LEMMA LifeRefined ==
  ASSUME TypeOK, LifeInv, TypeOK', LifeInv', [Next]_vars, NEW s \in Sessions
  PROVE  Life(s)!Step
<1>1. Gone(s) \in BOOLEAN /\ Gone(s)' \in BOOLEAN
  BY DEF Gone, Created
<1>2. Inserted(s) \/ Reset(s) \/ Ended(s) \/ Closed(s) \/ Untouched(s)
  BY LifeMoves
<1>3. CASE Gone(s)
  <2>1. Place(s) = "out" /\ bStop[s] = TRUE /\ Link(s) = "closed" /\ Gone(s)'
    BY <1>3, GoneIsOut, GoneForGood
  <2>2. UNCHANGED <<Place(s), bStop[s], Link(s), Gone(s)>>
    BY <1>1, <1>2, <1>3, <2>1 DEF Inserted, Reset, Ended, Closed, Untouched
  <2> QED BY <2>2 DEF Life!Step, Life!lifeVars
<1>4. CASE ~Gone(s)
  <2>1. Gone(s)' => Place(s)' = "out" /\ Link(s)' = "closed"
    BY DEF TypeOK, LifeInv, WatchdogGuards, ClosingFollows, Gone, Held, Created, Place, Link
  <2>2. Life(s)!MayDestroy
    BY <1>1, <2>1 DEF Life!MayDestroy
  <2>3. Life(s)!Insert \/ Life(s)!PeerResets \/ Life(s)!End \/ Life(s)!CloseSocket \/ Life(s)!Release
    BY <1>2 DEF Life!Insert, Life!PeerResets, Life!End, Life!CloseSocket, Life!Release,
                Inserted, Reset, Ended, Closed, Untouched
  <2> QED BY <1>1, <1>4, <2>2, <2>3 DEF Life!Step, Life!Next
<1> QED BY <1>1, <1>3, <1>4

\* Every session's life is one SessionLife allows, whatever the coroutines, handlers and tasks of all
\* sessions and the acceptor do.
THEOREM LivesOnceAlways == Safety => LivesOnce
<1>1. Init => \A s \in Sessions : Life(s)!Init
  <2> SUFFICES ASSUME Init, NEW s \in Sessions PROVE Life(s)!Init
    OBVIOUS
  <2>1. Place(s) = "before" /\ bStop[s] = FALSE /\ Link(s) = "open" /\ Gone(s) = FALSE
    BY DEF Init, Place, Link, Gone, Created
  <2> QED BY <2>1 DEF Life!Init
<1>2. /\ TypeOK /\ HandlersCounted /\ LifeInv /\ (TypeOK /\ HandlersCounted /\ LifeInv)' /\ [Next]_vars
      => [\A s \in Sessions : Life(s)!Step]_vars
  BY LifeRefined DEF LifeInv
<1> QED BY <1>1, <1>2, Invariance, PTL DEF Safety, LivesOnce

\* So a session that is destroyed was stopped and its socket closed by the task Close posted.
THEOREM GoneIsClosed == Safety => [](\A s \in Sessions : Gone(s) => bStop[s] /\ sock[s] = "closed")
<1>1. TypeOK /\ LifeInv => \A s \in Sessions : Gone(s) => bStop[s] /\ sock[s] = "closed"
  BY GoneIsOut DEF Link
<1> QED BY <1>1, Invariance, PTL
-----------------------------------------------------------------------------
(* What watches a session, and what is left of one *)

\* Until Close, a session has its watchdog: the safety half of SilentIsClosed, whatever became of
\* the reader.
Watched ==
  \A s \in Sessions : Created(s) /\ ~bStop[s] => watchdog[s] \in {"spawned", "waiting"}

\* No open session is without its watchdog.
THEOREM WatchedAlways == Safety => []Watched
<1>1. TypeOK /\ LifeInv => Watched
  BY DEF TypeOK, LifeInv, WatchdogGuards, Created, Watched
<1> QED BY <1>1, Invariance, PTL

\* A session that is left in the map stays there: no step of any thread takes it out, so
\* LeakCauses names the causes of a leak for the rest of the server's life.
THEOREM LeakedForGood == Safety => [][\A s \in Sessions : Leaked(s) => Leaked(s)']_vars
<1>1. TypeOK /\ LifeInv /\ [Next]_vars => [\A s \in Sessions : Leaked(s) => Leaked(s)']_vars
  <2> SUFFICES ASSUME TypeOK, LifeInv, Next, NEW s \in Sessions, Leaked(s) PROVE Leaked(s)'
    OBVIOUS
  <2>0. /\ s \in sessionMap /\ newSession # s /\ newSession \in Sessions \cup {NoSession}
        /\ reader[s] = "ended" /\ watchdog[s] = "ended" /\ handlers[s] = 0 /\ write[s] = "none"
        /\ ~closing[s] /\ bStop[s]
    BY DEF TypeOK, Leaked, LifeInv, WatchdogGuards
  <2>1. newSession' # s
    <3>1. ASSUME NEW t \in Sessions, Accept(t) PROVE newSession' # s
      BY <2>0, <3>1 DEF Accept, Created
    <3>2. CASE AcceptInsert
      BY <3>2, LifecycleAssumption DEF AcceptInsert
    <3>3. CASE UNCHANGED newSession
      BY <2>0, <3>3
    <3> QED BY <3>1, <3>2, <3>3
            DEF Next, Acceptor, AcceptLog, Reader, ReaderStart, ReaderHeader, ReaderBody, ReaderError,
                ReaderDangles, Watchdog, WatchdogStart, WatchdogCheck, WatchdogTimeout, WatchdogStopped,
                Service, HandlerEnd, HandlerClose, Sending, RunDoSend, HandleWriteOk, HandleWriteError,
                RunClose, OtherSender, SenderFinds, SenderLeaves, Network, DataArrives, PeerLeaves,
                ReadBreaks, WriteEnds, serverVars
  <2> DEFINE Kept == /\ s \in sessionMap' /\ reader'[s] = "ended" /\ watchdog'[s] = "ended"
                     /\ handlers'[s] = 0 /\ write'[s] = "none" /\ ~closing'[s]
  <2>2. Kept
    <3> USE <2>0 DEF TypeOK, serverVars, ioVars, netVars, KeepOpen, KeepKnown, Close, Forget
    <3>1. ASSUME NEW t \in Sessions, Accept(t) PROVE Kept
      BY <3>1 DEF Accept, Created
    <3>2. CASE AcceptLog \/ AcceptInsert
      BY <3>2 DEF AcceptLog, AcceptInsert
    <3>3. ASSUME NEW t \in Sessions, Reader(t) PROVE Kept
      <4>1. t # s
        BY <3>3 DEF Reader, ReaderStart, ReaderHeader, ReaderBody, ReaderError, ReaderDangles
      <4>2. CASE ReaderStart(t) \/ ReaderHeader(t) \/ ReaderBody(t)
        BY <4>1, <4>2 DEF ReaderStart, ReaderHeader, ReaderBody, Dispatch
      <4>3. CASE ReaderError(t) \/ ReaderDangles(t)
        BY <4>1, <4>3 DEF ReaderError, ReaderDangles
      <4> QED BY <3>3, <4>2, <4>3 DEF Reader
    <3>4. ASSUME NEW t \in Sessions, Watchdog(t) PROVE Kept
      <4>1. t # s
        BY <3>4 DEF Watchdog, WatchdogStart, WatchdogCheck, WatchdogTimeout, WatchdogStopped, TimerFires
      <4> QED BY <3>4, <4>1
              DEF Watchdog, WatchdogStart, WatchdogCheck, WatchdogTimeout, WatchdogStopped
    <3>5. ASSUME NEW t \in Sessions, Service(t) PROVE Kept
      <4>1. t # s
        BY <3>5 DEF Service, HandlerEnd, HandlerClose
      <4> QED BY <3>5, <4>1 DEF Service, HandlerEnd, HandlerClose
    <3>6. ASSUME NEW t \in Sessions, Sending(t) PROVE Kept
      <4>1. t # s
        BY <3>6 DEF Sending, RunDoSend, HandleWriteOk, HandleWriteError
      <4> QED BY <3>6, <4>1 DEF Sending, RunDoSend, HandleWriteOk, HandleWriteError
    <3>7. ASSUME NEW t \in Sessions, RunClose(t) PROVE Kept
      BY <3>7 DEF RunClose
    <3>8. ASSUME NEW t \in Sessions, Network(t) PROVE Kept
      BY <3>8 DEF Network, DataArrives, PeerLeaves, ReadBreaks, WriteEnds
    <3>9. ASSUME NEW t \in Sessions, OtherSender(t) PROVE Kept
      BY <3>9 DEF OtherSender, SenderFinds, SenderLeaves
    <3> QED BY <3>1, <3>2, <3>3, <3>4, <3>5, <3>6, <3>7, <3>8, <3>9 DEF Next, Acceptor
  <2> QED BY <2>1, <2>2 DEF Leaked
<1> QED BY <1>1, Invariance, PTL DEF Safety

\* On a closed socket nothing is pending, and before the reader has started nobody closes, and what
\* another session sends is at most posted.
ReaderAware ==
  \A s \in Sessions :
    /\ sock[s] = "closed" => bStop[s] /\ reader[s] \notin {"header", "body"}
    /\ reader[s] \in {"none", "spawned"} => ~bStop[s] /\ recv[s] = 0 /\ write[s] \in {"none", "posted"}

\* The network and the tasks of the io thread keep to it, and so does a handler: it may close and
\* reply only to a session whose reader has run.
LEMMA ReaderAwareStep ==
  ASSUME TypeOK, HandlersCounted, LifeInv, ReaderAware, [Next]_vars
  PROVE  ReaderAware'
<1> USE DEF TypeOK, ReaderAware, serverVars, ioVars, netVars, KeepOpen, KeepKnown
<1>0. \A t \in Sessions :
        handlers[t] > 0 \/ write[t] \in {"busy", "done", "failed"} => reader[t] \notin {"none", "spawned"}
  BY DEF HandlersCounted, InPacket
<1>1. ASSUME NEW t \in Sessions, Accept(t) PROVE ReaderAware'
  BY <1>1 DEF Accept, Created
<1>2. CASE AcceptLog \/ AcceptInsert
  BY <1>2 DEF AcceptLog, AcceptInsert
<1>3. ASSUME NEW t \in Sessions, ReaderStart(t) \/ ReaderHeader(t) \/ ReaderBody(t) PROVE ReaderAware'
  <2>1. /\ UNCHANGED <<sock, bStop, recv, write>>
        /\ \A q \in Sessions : q # t => reader'[q] = reader[q]
    BY <1>3 DEF ReaderStart, ReaderHeader, ReaderBody, Dispatch
  <2>2. /\ reader[t] # "none"
        /\ reader'[t] \in {LoopTop(t), Await(t, "body"), "ended"}
    BY <1>3 DEF ReaderStart, ReaderHeader, ReaderBody, Dispatch
  <2>3. /\ reader'[t] \in {"ended", "failed", "header", "body"}
        /\ sock[t] = "closed" => reader'[t] \notin {"header", "body"}
    BY <2>2 DEF LoopTop, Await
  <2> QED BY <2>1, <2>3
<1>4. ASSUME NEW t \in Sessions, ReaderError(t) \/ ReaderDangles(t) PROVE ReaderAware'
  <2>1. /\ UNCHANGED <<sock, recv, write>>
        /\ reader' = [reader EXCEPT ![t] = "ended"]
        /\ \A q \in Sessions : (bStop[q] => bStop'[q]) /\ (q # t => bStop'[q] = bStop[q])
    BY <1>4 DEF ReaderError, ReaderDangles, Close
  <2> QED BY <2>1
<1>5. ASSUME NEW t \in Sessions, Watchdog(t) PROVE ReaderAware'
  <2>1. /\ UNCHANGED <<sock, recv, write, reader>>
        /\ \A q \in Sessions : (bStop[q] => bStop'[q]) /\ (q # t => bStop'[q] = bStop[q])
    BY <1>5 DEF Watchdog, WatchdogStart, WatchdogCheck, WatchdogTimeout, WatchdogStopped, Close
  <2>2. bStop'[t] # bStop[t] => reader[t] \notin {"none", "spawned"}
    BY <1>5 DEF Watchdog, WatchdogStart, WatchdogCheck, WatchdogTimeout, WatchdogStopped, TimerFires,
                LifeInv, WatchdogGuards
  <2> QED BY <2>1, <2>2
<1>6. ASSUME NEW t \in Sessions, Service(t) \/ Sending(t) PROVE ReaderAware'
  <2>1. reader[t] \notin {"none", "spawned"}
    BY <1>0, <1>6 DEF Service, HandlerEnd, HandlerClose, Sending, RunDoSend, HandleWriteOk, HandleWriteError
  <2>2. /\ UNCHANGED <<sock, recv, reader>>
        /\ \A q \in Sessions : /\ bStop[q] => bStop'[q]
                               /\ q # t => bStop'[q] = bStop[q] /\ write'[q] = write[q]
    BY <1>6 DEF Service, HandlerEnd, HandlerClose, Sending, RunDoSend, HandleWriteOk, HandleWriteError, Close
  <2> QED BY <2>1, <2>2
<1>7. ASSUME NEW t \in Sessions, RunClose(t) PROVE ReaderAware'
  <2>1. bStop[t] /\ reader[t] \notin {"none", "spawned"}
    BY <1>7 DEF RunClose, LifeInv, ClosingFollows
  <2>2. /\ sock' = [sock EXCEPT ![t] = "closed"] /\ UNCHANGED <<bStop, recv>>
        /\ reader'[t] \notin {"header", "body", "none", "spawned"}
        /\ \A q \in Sessions : q # t => reader'[q] = reader[q] /\ write'[q] = write[q]
    BY <1>7, <2>1 DEF RunClose
  <2> QED BY <2>1, <2>2
<1>8. ASSUME NEW t \in Sessions, Network(t) PROVE ReaderAware'
  <2>1. CASE DataArrives(t)
    BY <2>1 DEF DataArrives
  <2>2. CASE PeerLeaves(t) \/ ReadBreaks(t)
    BY <2>2 DEF PeerLeaves, ReadBreaks
  <2>3. CASE WriteEnds(t)
    BY <2>3 DEF WriteEnds
  <2> QED BY <1>8, <2>1, <2>2, <2>3 DEF Network
<1>9. ASSUME NEW t \in Sessions, OtherSender(t) PROVE ReaderAware'
  <2>1. /\ UNCHANGED <<sock, bStop, recv, reader>>
        /\ \A q \in Sessions : write'[q] = write[q] \/ write'[q] = "posted"
    BY <1>9 DEF OtherSender, SenderFinds, SenderLeaves
  <2> QED BY <2>1
<1>10. CASE UNCHANGED vars
  BY <1>10 DEF vars
<1> QED BY <1>1, <1>2, <1>3, <1>4, <1>5, <1>6, <1>7, <1>8, <1>9, <1>10 DEF Next, Acceptor, Reader

\* The reader outlives its session only with a read completed, never with one pending: no operation
\* of asio writes into the destroyed object, and what may touch it is the handler that resumes.
DanglesResuming ==
  \A s \in Sessions : Gone(s) => reader[s] \in {"headerDone", "bodyDone", "failed", "ended"}

\* Whatever closes and releases a session, its reader is found in one of these places.
THEOREM DanglesResumingAlways == Safety => []DanglesResuming
<1>1. Init => ReaderAware
  BY DEF Init, ReaderAware
<1>2. TypeOK /\ HandlersCounted /\ LifeInv /\ ReaderAware /\ [Next]_vars => ReaderAware'
  BY ReaderAwareStep
<1>3. TypeOK /\ LifeInv /\ ReaderAware => DanglesResuming
  <2> SUFFICES ASSUME TypeOK, LifeInv, ReaderAware, NEW s \in Sessions, Gone(s)
               PROVE  reader[s] \in {"headerDone", "bodyDone", "failed", "ended"}
    BY DEF DanglesResuming
  <2>1. bStop[s] /\ sock[s] = "closed"
    BY GoneIsOut DEF Link
  <2>2. reader[s] \in ReaderStates \ {"none", "spawned", "header", "body"}
    BY <2>1 DEF TypeOK, ReaderAware
  <2> QED BY <2>2 DEF ReaderStates
<1> QED BY <1>1, <1>2, <1>3, Invariance, PTL DEF Safety
=============================================================================
