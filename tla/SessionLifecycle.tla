-------------------------- MODULE SessionLifecycle --------------------------
(***************************************************************************)
(* The life of a session from accept to destruction: CServer's accept      *)
(* handler and session map, CoroutineSession's reader and watchdog         *)
(* coroutines, CSession::Close, and who keeps the object alive.            *)
(*                                                                         *)
(* The acceptor runs on the main thread, and other sessions forward        *)
(* messages from theirs; everything else about a session runs on the one   *)
(* thread of its io_context, one handler at a time.  A session lives in    *)
(* shared_ptrs; the reader holds only `this`.                              *)
(* The send path is reduced to "a write is outstanding": SendQueue has it  *)
(* in full.                                                                *)
(***************************************************************************)
EXTENDS Naturals, FiniteSets

CONSTANTS Sessions,    \* the connections that may arrive
          NoSession,
          IdleTicks,   \* watchdog checks without a message a session always survives (12: 60 s / 5 s)
          MsgLimit     \* model bound: packets one peer sends

ASSUME LifecycleAssumption ==
  /\ NoSession \notin Sessions
  /\ IdleTicks \in Nat
  /\ MsgLimit \in Nat

VARIABLES acceptor,    \* what the accept handler does next
          newSession,  \* its local newSession
          sessionMap,  \* CServer::_sessionMap
          sender,      \* another session's thread is in SendToOtherSession with the session (one at a time)
          reader,      \* the reader coroutine of Start
          watchdog,    \* the coroutine of StartHeartbeatCheck
          handlers,    \* service coroutines spawned for the session and not finished
          write,       \* the session's outstanding send work
          closing,     \* the close task posted by Close is waiting
          bStop, sock, \* _bStop, and whether _socket is open
          idle,        \* watchdog checks since the last header
          recv,        \* packets received
          peer,        \* the other end of the connection
          closer,      \* who made the effective call of Close (history)
          forgotten,   \* DelSessionByUuid was called (history)
          down         \* the process has terminated

vars == <<acceptor, newSession, sessionMap, sender, reader, watchdog, handlers, write, closing,
          bStop, sock, idle, recv, peer, closer, forgotten, down>>

serverVars == <<acceptor, newSession, sender>>
ioVars == <<handlers, write>>
netVars == <<recv, peer>>

-----------------------------------------------------------------------------
(* State *)

ReaderStates == {"none", "spawned", "header", "headerDone", "body", "bodyDone", "failed", "ended"}

Created(s) == reader[s] # "none"

\* The shared_ptrs to a session: the accept handler's local, the map's entry, the local of another
\* session's SendToOtherSession, the watchdog's self, the session argument of service coroutines, the
\* self of a DoSend task or of a write's handler, and the self of the close task.  The reader captured
\* `this` alone.
Held(s) ==
  \/ newSession = s
  \/ s \in sessionMap
  \/ sender[s]
  \/ watchdog[s] \in {"spawned", "waiting"}
  \/ handlers[s] > 0
  \/ write[s] # "none"
  \/ closing[s]

\* The last shared_ptr is gone: the object is destroyed.
Gone(s) == Created(s) /\ ~Held(s)

Init ==
  /\ acceptor = "waiting"
  /\ newSession = NoSession
  /\ sessionMap = {}
  /\ sender = [s \in Sessions |-> FALSE]
  /\ reader = [s \in Sessions |-> "none"]
  /\ watchdog = [s \in Sessions |-> "none"]
  /\ handlers = [s \in Sessions |-> 0]
  /\ write = [s \in Sessions |-> "none"]
  /\ closing = [s \in Sessions |-> FALSE]
  /\ bStop = [s \in Sessions |-> FALSE]
  /\ sock = [s \in Sessions |-> "open"]
  /\ idle = [s \in Sessions |-> 0]
  /\ recv = [s \in Sessions |-> 0]
  /\ peer = [s \in Sessions |-> "up"]
  /\ closer = [s \in Sessions |-> "nobody"]
  /\ forgotten = [s \in Sessions |-> FALSE]
  /\ down = FALSE

-----------------------------------------------------------------------------
(* CSession::Close and CServer::DelSessionByUuid, called inside the handlers below *)

\* Close: the first call sets _bStop and posts the closing of the socket.
Close(s, who) ==
  IF bStop[s]
  THEN UNCHANGED <<bStop, closing, closer>>
  ELSE /\ bStop' = [bStop EXCEPT ![s] = TRUE]
       /\ closing' = [closing EXCEPT ![s] = TRUE]
       /\ closer' = [closer EXCEPT ![s] = who]

Forget(s) ==
  /\ sessionMap' = sessionMap \ {s}
  /\ forgotten' = [forgotten EXCEPT ![s] = TRUE]

KeepOpen == UNCHANGED <<bStop, closing, closer>>
KeepKnown == UNCHANGED <<sessionMap, forgotten>>

-----------------------------------------------------------------------------
(* The accept handler, on the main thread *)

\* A connection arrives: the session is constructed and started; its coroutines are on their way
\* to the session's own thread while this handler goes on.
Accept(s) ==
  /\ acceptor = "waiting"
  /\ ~Created(s)
  /\ acceptor' = "started"
  /\ newSession' = s
  /\ reader' = [reader EXCEPT ![s] = "spawned"]
  /\ watchdog' = [watchdog EXCEPT ![s] = "spawned"]
  /\ KeepOpen /\ KeepKnown
  /\ UNCHANGED <<sender, ioVars, netVars, sock, idle, down>>

\* The log line asks the socket for its peer: remote_endpoint throws when the connection was
\* reset or the socket closed meanwhile.  The exception leaves io_context::run, main returns and
\* the pool's joinable threads terminate the process.
AcceptLog ==
  /\ acceptor = "started"
  /\ IF peer[newSession] = "reset" \/ sock[newSession] = "closed"
     THEN down' = TRUE /\ UNCHANGED acceptor
     ELSE acceptor' = "logged" /\ UNCHANGED down
  /\ KeepOpen /\ KeepKnown
  /\ UNCHANGED <<newSession, sender, reader, watchdog, ioVars, netVars, sock, idle>>

\* The session is registered, whatever happened to it since Start, and the next accept begins.
AcceptInsert ==
  /\ acceptor = "logged"
  /\ sessionMap' = sessionMap \cup {newSession}
  /\ acceptor' = "waiting"
  /\ newSession' = NoSession
  /\ KeepOpen
  /\ UNCHANGED <<sender, reader, watchdog, ioVars, netVars, sock, idle, forgotten, down>>

-----------------------------------------------------------------------------
(* The reader *)

\* async_read on the socket: pending, or failed at once on a closed socket.
Await(s, what) == IF sock[s] = "open" THEN what ELSE "failed"

\* The top of the reader's loop: with _bStop set it leaves, and nobody is told.
LoopTop(s) == IF bStop[s] THEN "ended" ELSE Await(s, "header")

\* The io thread takes up the two coroutines in the order of their co_spawn, watchdog first.
ReaderStart(s) ==
  /\ reader[s] = "spawned"
  /\ watchdog[s] # "spawned"
  /\ reader' = [reader EXCEPT ![s] = LoopTop(s)]
  /\ KeepOpen /\ KeepKnown
  /\ UNCHANGED <<serverVars, watchdog, ioVars, netVars, sock, idle, down>>

\* A whole packet: its service, if there is one, gets a coroutine holding the session, and the
\* loop goes on.
Dispatch(s) ==
  /\ \/ handlers' = [handlers EXCEPT ![s] = @ + 1]
     \/ UNCHANGED handlers
  /\ reader' = [reader EXCEPT ![s] = LoopTop(s)]

\* A header arrived: the watchdog is fed, and the body is awaited if there is one.  Allocate may
\* throw bad_alloc for the length the peer claims: the coroutine ends, and nobody is told.
ReaderHeader(s) ==
  /\ reader[s] = "headerDone"
  /\ ~Gone(s)
  /\ idle' = [idle EXCEPT ![s] = 0]
  /\ \/ Dispatch(s)
     \/ /\ reader' \in {[reader EXCEPT ![s] = Await(s, "body")], [reader EXCEPT ![s] = "ended"]}
        /\ UNCHANGED handlers
  /\ KeepOpen /\ KeepKnown
  /\ UNCHANGED <<serverVars, watchdog, write, netVars, sock, down>>

ReaderBody(s) ==
  /\ reader[s] = "bodyDone"
  /\ ~Gone(s)
  /\ Dispatch(s)
  /\ KeepOpen /\ KeepKnown
  /\ UNCHANGED <<serverVars, watchdog, write, netVars, sock, idle, down>>

\* Sensitivity: the session is taken out of the map and not closed.
ReaderError_NoClose(s) ==
  /\ reader[s] = "failed"
  /\ ~Gone(s)
  /\ reader' = [reader EXCEPT ![s] = "ended"]
  /\ Forget(s)
  /\ KeepOpen
  /\ UNCHANGED <<serverVars, watchdog, ioVars, netVars, sock, idle, down>>

\* Sensitivity: the session is closed and left in the map.
ReaderError_NoForget(s) ==
  /\ reader[s] = "failed"
  /\ ~Gone(s)
  /\ reader' = [reader EXCEPT ![s] = "ended"]
  /\ Close(s, "reader")
  /\ KeepKnown
  /\ UNCHANGED <<serverVars, watchdog, ioVars, netVars, sock, idle, down>>

\* The read failed: the catch block closes the session and takes it out of the map.
ReaderError(s) ==
  /\ reader[s] = "failed"
  /\ ~Gone(s)
  /\ reader' = [reader EXCEPT ![s] = "ended"]
  /\ Close(s, "reader")
  /\ Forget(s)
  /\ UNCHANGED <<serverVars, watchdog, ioVars, netVars, sock, idle, down>>

\* The reader resumes after its session was destroyed and touches freed memory: undefined.  The
\* outcomes kept are that it finds the stale _bStop set and ends, and that the process dies.
ReaderDangles(s) ==
  /\ reader[s] \in {"headerDone", "bodyDone", "failed"}
  /\ Gone(s)
  /\ reader' = [reader EXCEPT ![s] = "ended"]
  /\ down' \in BOOLEAN
  /\ KeepOpen /\ KeepKnown
  /\ UNCHANGED <<serverVars, watchdog, ioVars, netVars, sock, idle>>

-----------------------------------------------------------------------------
(* The watchdog *)

WatchdogStart(s) ==
  /\ watchdog[s] = "spawned"
  /\ watchdog' = [watchdog EXCEPT ![s] = IF bStop[s] THEN "ended" ELSE "waiting"]
  /\ KeepOpen /\ KeepKnown
  /\ UNCHANGED <<serverVars, reader, ioVars, netVars, sock, idle, down>>

\* The five seconds of the timer begin after the reader was spawned and end after it started.
TimerFires(s) == watchdog[s] = "waiting" /\ reader[s] # "spawned"

\* Sensitivity: the watchdog gives up after its first check.
WatchdogCheck_Once(s) ==
  /\ TimerFires(s)
  /\ ~bStop[s]
  /\ idle[s] <= IdleTicks
  /\ watchdog' = [watchdog EXCEPT ![s] = "ended"]
  /\ KeepOpen /\ KeepKnown
  /\ UNCHANGED <<serverVars, reader, ioVars, netVars, sock, idle, down>>

\* Sensitivity: the time since the last header is never compared with the limit.
WatchdogCheck_NoLimit(s) ==
  /\ TimerFires(s)
  /\ ~bStop[s]
  /\ idle' = [idle EXCEPT ![s] = @ + 1]
  /\ KeepOpen /\ KeepKnown
  /\ UNCHANGED <<serverVars, reader, watchdog, ioVars, netVars, sock, down>>

\* Five seconds later, in time: the session is kept.  At the check after IdleTicks of them
\* the outcome depends on where between two checks the last header came.
WatchdogCheck(s) ==
  /\ TimerFires(s)
  /\ ~bStop[s]
  /\ idle[s] <= IdleTicks
  /\ idle' = [idle EXCEPT ![s] = @ + 1]
  /\ KeepOpen /\ KeepKnown
  /\ UNCHANGED <<serverVars, reader, watchdog, ioVars, netVars, sock, down>>

\* Sensitivity: a timeout takes the session out of the map and leaves it open.
WatchdogTimeout_NoClose(s) ==
  /\ TimerFires(s)
  /\ ~bStop[s]
  /\ idle[s] >= IdleTicks
  /\ watchdog' = [watchdog EXCEPT ![s] = "ended"]
  /\ KeepOpen
  /\ Forget(s)
  /\ UNCHANGED <<serverVars, reader, ioVars, netVars, sock, idle, down>>

\* More than 60 seconds without a header: the session is closed and forgotten.
WatchdogTimeout(s) ==
  /\ TimerFires(s)
  /\ ~bStop[s]
  /\ idle[s] >= IdleTicks
  /\ watchdog' = [watchdog EXCEPT ![s] = "ended"]
  /\ Close(s, "watchdog")
  /\ Forget(s)
  /\ UNCHANGED <<serverVars, reader, ioVars, netVars, sock, idle, down>>

\* The session was stopped during the wait: the coroutine ends and lets the session go.
WatchdogStopped(s) ==
  /\ TimerFires(s)
  /\ bStop[s]
  /\ watchdog' = [watchdog EXCEPT ![s] = "ended"]
  /\ KeepOpen /\ KeepKnown
  /\ UNCHANGED <<serverVars, reader, ioVars, netVars, sock, idle, down>>

-----------------------------------------------------------------------------
(* Service coroutines and the send path *)

\* A service coroutine finishes, with a reply (Send, then DoSend is posted) or without one.
HandlerEnd(s) ==
  /\ handlers[s] > 0
  /\ handlers' = [handlers EXCEPT ![s] = @ - 1]
  /\ \/ UNCHANGED write
     \/ /\ ~bStop[s] /\ write[s] = "none"
        /\ write' = [write EXCEPT ![s] = "posted"]
  /\ KeepOpen /\ KeepKnown
  /\ UNCHANGED <<serverVars, reader, watchdog, netVars, sock, idle, down>>

\* CommunicationService::OnClose calls ClientClose.
HandlerClose(s) ==
  /\ handlers[s] > 0
  /\ handlers' = [handlers EXCEPT ![s] = @ - 1]
  /\ Close(s, "handler")
  /\ Forget(s)
  /\ UNCHANGED <<serverVars, reader, watchdog, write, netVars, sock, idle, down>>

\* The io thread runs what is posted in order: the coroutines of Start come first.
RunDoSend(s) ==
  /\ write[s] = "posted"
  /\ reader[s] \notin {"none", "spawned"}
  /\ write' = [write EXCEPT ![s] = IF bStop[s] THEN "none" ELSE "busy"]
  /\ KeepOpen /\ KeepKnown
  /\ UNCHANGED <<serverVars, reader, watchdog, handlers, netVars, sock, idle, down>>

\* HandleWrite without an error, nothing more to send.
HandleWriteOk(s) ==
  /\ write[s] = "done"
  /\ write' = [write EXCEPT ![s] = "none"]
  /\ KeepOpen /\ KeepKnown
  /\ UNCHANGED <<serverVars, reader, watchdog, handlers, netVars, sock, idle, down>>

\* HandleWrite with an error: Close, and no DelSessionByUuid.
HandleWriteError(s) ==
  /\ write[s] = "failed"
  /\ write' = [write EXCEPT ![s] = "none"]
  /\ Close(s, "write")
  /\ KeepKnown
  /\ UNCHANGED <<serverVars, reader, watchdog, handlers, netVars, sock, idle, down>>

\* Sensitivity: closing the socket does not reach the write under way.
RunClose_KeepsWrite(s) ==
  /\ closing[s]
  /\ closing' = [closing EXCEPT ![s] = FALSE]
  /\ sock' = [sock EXCEPT ![s] = "closed"]
  /\ reader' = [reader EXCEPT ![s] = IF @ \in {"header", "body"} THEN "failed" ELSE @]
  /\ KeepKnown
  /\ UNCHANGED <<serverVars, watchdog, ioVars, netVars, bStop, closer, idle, down>>

\* The close task: pending operations fail with operation_aborted, completed ones do not.
RunClose(s) ==
  /\ closing[s]
  /\ closing' = [closing EXCEPT ![s] = FALSE]
  /\ sock' = [sock EXCEPT ![s] = "closed"]
  /\ reader' = [reader EXCEPT ![s] = IF @ \in {"header", "body"} THEN "failed" ELSE @]
  /\ write' = [write EXCEPT ![s] = IF @ = "busy" THEN "failed" ELSE @]
  /\ KeepKnown
  /\ UNCHANGED <<serverVars, watchdog, handlers, netVars, bStop, closer, idle, down>>

-----------------------------------------------------------------------------
(* A message from another session *)

\* SendToOtherSession has got the session from the map, on the thread of the session that forwards.
SenderFinds(s) ==
  /\ s \in sessionMap /\ ~sender[s]
  /\ sender' = [sender EXCEPT ![s] = TRUE]
  /\ KeepOpen /\ KeepKnown
  /\ UNCHANGED <<acceptor, newSession, reader, watchdog, ioVars, netVars, sock, idle, down>>

\* It returns, having posted a DoSend, or not: the session is stopped, its endpoint throws, or its
\* packet joins those that are waiting already.
SenderLeaves(s) ==
  /\ sender[s]
  /\ sender' = [sender EXCEPT ![s] = FALSE]
  /\ \/ UNCHANGED write
     \/ /\ ~bStop[s] /\ write[s] = "none"
        /\ write' = [write EXCEPT ![s] = "posted"]
  /\ KeepOpen /\ KeepKnown
  /\ UNCHANGED <<acceptor, newSession, reader, watchdog, handlers, netVars, sock, idle, down>>

-----------------------------------------------------------------------------
(* The network and the peer (external) *)

\* Data completes the pending read.
DataArrives(s) ==
  /\ sock[s] = "open" /\ ~Gone(s)
  /\ peer[s] # "reset"
  /\ \/ /\ reader[s] = "header" /\ recv[s] < MsgLimit
        /\ recv' = [recv EXCEPT ![s] = @ + 1]
        /\ reader' = [reader EXCEPT ![s] = "headerDone"]
     \/ /\ reader[s] = "body"
        /\ reader' = [reader EXCEPT ![s] = "bodyDone"]
        /\ UNCHANGED recv
  /\ KeepOpen /\ KeepKnown
  /\ UNCHANGED <<serverVars, watchdog, ioVars, peer, sock, idle, down>>

PeerLeaves(s) ==
  /\ Created(s)
  /\ \/ peer[s] = "up" /\ peer' = [peer EXCEPT ![s] = "finished"]
     \/ peer[s] # "reset" /\ peer' = [peer EXCEPT ![s] = "reset"]
  /\ KeepOpen /\ KeepKnown
  /\ UNCHANGED <<serverVars, reader, watchdog, ioVars, recv, sock, idle, down>>

\* End of file or a reset completes the pending read with an error.
ReadBreaks(s) ==
  /\ reader[s] \in {"header", "body"}
  /\ sock[s] = "open" /\ peer[s] # "up"
  /\ reader' = [reader EXCEPT ![s] = "failed"]
  /\ KeepOpen /\ KeepKnown
  /\ UNCHANGED <<serverVars, watchdog, ioVars, netVars, sock, idle, down>>

WriteEnds(s) ==
  /\ write[s] = "busy"
  /\ write' = [write EXCEPT ![s] = IF peer[s] = "reset" THEN "failed" ELSE "done"]
  /\ KeepOpen /\ KeepKnown
  /\ UNCHANGED <<serverVars, reader, watchdog, handlers, netVars, sock, idle, down>>

-----------------------------------------------------------------------------

Acceptor == (\E s \in Sessions : Accept(s)) \/ AcceptLog \/ AcceptInsert

Reader(s) ==
  ReaderStart(s) \/ ReaderHeader(s) \/ ReaderBody(s) \/ ReaderError(s) \/ ReaderDangles(s)

Watchdog(s) ==
  WatchdogStart(s) \/ WatchdogCheck(s) \/ WatchdogTimeout(s) \/ WatchdogStopped(s)

Service(s) == HandlerEnd(s) \/ HandlerClose(s)

Sending(s) == RunDoSend(s) \/ HandleWriteOk(s) \/ HandleWriteError(s)

OtherSender(s) == SenderFinds(s) \/ SenderLeaves(s)

Network(s) == DataArrives(s) \/ PeerLeaves(s) \/ ReadBreaks(s) \/ WriteEnds(s)

Next ==
  /\ ~down
  /\ \/ Acceptor
     \/ \E s \in Sessions :
          \/ Reader(s) \/ Watchdog(s) \/ Service(s) \/ Sending(s) \/ RunClose(s)
          \/ OtherSender(s) \/ Network(s)

Safety == Init /\ [][Next]_vars

(* The threads run what is ready, timers expire, and a service coroutine comes to its end (the
   database it may wait for is external).  Nothing is assumed of the peer, except that what its
   departure does to a pending read or write is noticed. *)
Up(A) == ~down /\ A

Fairness ==
  /\ WF_vars(Up(AcceptLog)) /\ WF_vars(Up(AcceptInsert))
  /\ \A s \in Sessions :
       /\ WF_vars(Up(Reader(s)))
       /\ WF_vars(Up(Watchdog(s)))
       /\ WF_vars(Up(Service(s)))
       /\ WF_vars(Up(Sending(s)))
       /\ WF_vars(Up(RunClose(s)))
       /\ WF_vars(Up(SenderLeaves(s)))
       /\ WF_vars(Up(ReadBreaks(s)))

Spec == Safety /\ Fairness

-----------------------------------------------------------------------------
(* Properties *)

\* Every variable has its type.
TypeOK ==
  /\ acceptor \in {"waiting", "started", "logged"}
  /\ newSession \in Sessions \cup {NoSession}
  /\ sessionMap \subseteq Sessions
  /\ sender \in [Sessions -> BOOLEAN]
  /\ reader \in [Sessions -> ReaderStates]
  /\ watchdog \in [Sessions -> {"none", "spawned", "waiting", "ended"}]
  /\ handlers \in [Sessions -> 0..MsgLimit]
  /\ write \in [Sessions -> {"none", "posted", "busy", "done", "failed"}]
  /\ closing \in [Sessions -> BOOLEAN]
  /\ bStop \in [Sessions -> BOOLEAN]
  /\ sock \in [Sessions -> {"open", "closed"}]
  /\ idle \in [Sessions -> 0..IdleTicks+1]
  /\ recv \in [Sessions -> 0..MsgLimit]
  /\ peer \in [Sessions -> {"up", "finished", "reset"}]
  /\ closer \in [Sessions -> {"nobody", "reader", "watchdog", "handler", "write"}]
  /\ forgotten \in [Sessions -> BOOLEAN]
  /\ down \in BOOLEAN

\* A session in SessionLife's terms.
Place(s) == IF ~Created(s) \/ newSession = s THEN "before" ELSE IF s \in sessionMap THEN "in" ELSE "out"

Link(s) == IF sock[s] = "closed" THEN "closed" ELSE IF peer[s] = "reset" THEN "reset" ELSE "open"

Life(s) == INSTANCE SessionLife WITH
  place <- Place(s), stopped <- bStop[s], sock <- Link(s), gone <- Gone(s)

\* Whatever its reader, watchdog, handlers, writes and close task do, and in whatever order, a session
\* lives as SessionLife says.  Above all it is destroyed only after Close, and after the task Close
\* posted has closed the socket: the last to let go of it is never still serving the peer.
LivesOnce ==
  /\ \A s \in Sessions : Life(s)!Init
  /\ [][\A s \in Sessions : Life(s)!Step]_vars

\* A session that serves a peer can be found: once the accept handler is through with it and
\* until Close, it is in _sessionMap, so SendToOtherSession reaches it.
OpenIsRegistered ==
  \A s \in Sessions : Created(s) /\ newSession # s /\ ~bStop[s] => s \in sessionMap

\* Only the map still holds the session, but for senders that come and go; it is closed, and nothing
\* that could take it out is left: the session, its buffers and its client name stay for the rest of the server's life.
Leaked(s) ==
  /\ s \in sessionMap
  /\ newSession # s
  /\ reader[s] = "ended" /\ watchdog[s] = "ended"
  /\ handlers[s] = 0 /\ write[s] = "none" /\ ~closing[s]

\* A session is left in the map for good in two ways only: it was closed by HandleWrite, which
\* does not call DelSessionByUuid, or the accept handler inserted it after that call.
LeakCauses ==
  \A s \in Sessions : Leaked(s) => closer[s] = "write" \/ forgotten[s]

\* Every session ends: a peer that falls silent, vanishes or breaks the connection is noticed by
\* the reader or by the watchdog, even if the reader has died of bad_alloc.
SilentIsClosed ==
  \A s \in Sessions : Created(s) ~> (bStop[s] \/ down)

\* A session that is out of the map is destroyed: no coroutine, task, write or sender of another
\* session keeps it forever.
ForgottenIsGone ==
  \A s \in Sessions :
    (forgotten[s] /\ newSession # s /\ s \notin sessionMap) ~> (Gone(s) \/ down)

-----------------------------------------------------------------------------
(* What the code's comments say and the code does not do *)

\* A coroutine spawned for a session keeps the session alive (the comment at
\* CoroutineSession.cpp:128, of the service coroutines): as long as the reader has not ended, the
\* object it uses through `this` exists.
ReaderKeepsSession ==
  \A s \in Sessions : reader[s] \notin {"none", "ended"} => ~Gone(s)

\* "出错时清理会话" (on error, clean up the session; CSession.cpp:186): a session HandleWrite closed
\* does not stay behind in the map, registered before the error as it was.
WriteErrorCleansUp ==
  \A s \in Sessions : closer[s] = "write" /\ ~forgotten[s] => ~Leaked(s)
=============================================================================
