------------------------------ MODULE Messaging ------------------------------
(***************************************************************************)
(* The way of a request through the server: read by its session, in the    *)
(* ASYNC type of server through the queue of LogicSystem and its worker    *)
(* thread, dispatched to a service whose coroutine runs on the session's   *)
(* io_context, replied to and perhaps forwarded to another session.        *)
(* Sessions have an io_context each (those that share one interleave       *)
(* less).  The send queue is SendQueue's business: wire is what DoSend     *)
(* takes in.  The names of clients are ClientRegistry's: a client that     *)
(* has not left is bound to its own.                                       *)
(***************************************************************************)
EXTENDS Naturals, Sequences, FiniteSets, SequencesExt

CONSTANTS Sessions,
          Frail,    \* the sessions whose peer may leave, and that may be stopped from outside
          Scripts,  \* what the clients may send: a sequence of [kind, to] for each
          MaxLost   \* bound on the packets that are dropped

\* "echo" is answered at once (hello, show, register), "heart" and "forward" first ask for an endpoint,
\* "db" awaits the executor, "baddb" is a database request that does not parse, "close" closes, 
\* "unknown" has no service and "nocmd" a service without such a command.
Kinds == {"echo", "heart", "forward", "db", "baddb", "close", "unknown", "nocmd"}

ASSUME FrailAssumption == Frail \subseteq Sessions /\ MaxLost \in Nat

ASSUME ScriptAssumption ==
  \A scripts \in Scripts : \A s \in Sessions : scripts[s] \in Seq([kind : Kinds, to : Sessions])

VARIABLES type,      \* _type of the server: "COROUTINE" or "ASYNC"
          script,    \* the requests of each client
          read,      \* how many of them its session has read
          reading,   \* its reader has not ended
          stopped,   \* _bStop
          mapped,    \* it is in _sessionMap, and its client's name in _clientMap
          reset,     \* the peer is gone: remote_endpoint throws
          tasks,     \* what is posted to its io_context, in order
          awaiting,  \* its handlers that wait for the executor, by request
          wire,      \* packets DoSend has queued, in order
          lost,      \* packets DoSend dropped because the queue was full, or a Send that threw (history)
          que,       \* LogicSystem::_msgQue: <<session, request>>
          worker,    \* LogicSystem's thread, as in SafeQueue
          ending,    \* "no", "joined" (the io threads), and in ~LogicSystem "flagged", "notified"
          down       \* an exception has left a thread

sessionVars == <<read, reading, stopped, mapped, reset>>
handlingVars == <<tasks, awaiting, wire, lost>>
logicVars == <<que, worker, ending>>
vars == <<type, script, sessionVars, handlingVars, logicVars, down>>

Packet(src, seq, what) == [src |-> src, seq |-> seq, what |-> what]
Task(op, packet) == [op |-> op, packet |-> packet]
Handle(s, n) == Task("handle", Packet(s, n, "request"))
CloseTask(s) == Task("close", Packet(s, 0, "close"))

Post(s, task) == [tasks EXCEPT ![s] = Append(@, task)]

\* CSession::Close has closed the socket.
IsClosed(s) == stopped[s] /\ ~\E i \in DOMAIN tasks[s] : tasks[s][i].op = "close"
EndpointThrows(s) == reset[s] \/ IsClosed(s)

Init ==
  /\ type \in {"COROUTINE", "ASYNC"}
  /\ script \in Scripts
  /\ read = [s \in Sessions |-> 0]
  /\ reading = [s \in Sessions |-> TRUE] /\ mapped = [s \in Sessions |-> TRUE]
  /\ stopped = [s \in Sessions |-> FALSE] /\ reset = [s \in Sessions |-> FALSE]
  /\ tasks = [s \in Sessions |-> <<>>] /\ wire = [s \in Sessions |-> <<>>]
  /\ awaiting = [s \in Sessions |-> {}] /\ lost = {}
  /\ que = <<>> /\ worker = "locking" /\ ending = "no" /\ down = FALSE

-----------------------------------------------------------------------------
(* Reading *)

HasService(s, n) == script[s][n].kind # "unknown"

\* PostMsgToQue wakes the worker when the queue was empty.
WakeWorker_WhenFull == IF que # <<>> /\ worker = "waiting" THEN "locking" ELSE worker

WakeWorker == IF que = <<>> /\ worker = "waiting" THEN "locking" ELSE worker

\* A message arrives for a reader that waits for one.
Arrives(s) ==
  /\ read[s] < Len(script[s])
  /\ reading[s] /\ ~IsClosed(s) /\ ~reset[s]

\* A whole message has arrived.  Only the coroutine reader looks at _bStop, before it reads again.
Read(s) ==
  LET n == read[s] + 1 IN
  /\ Arrives(s)
  /\ read' = [read EXCEPT ![s] = n]
  /\ \/ /\ type = "COROUTINE"
        /\ reading' = [reading EXCEPT ![s] = ~stopped[s]]
        /\ tasks' = IF HasService(s, n) THEN Post(s, Handle(s, n)) ELSE tasks
        /\ UNCHANGED logicVars
     \/ /\ type = "ASYNC" /\ worker # "parking"
        /\ que' = Append(que, <<s, n>>)
        /\ worker' = WakeWorker
        /\ UNCHANGED <<reading, tasks, ending>>
  /\ UNCHANGED <<type, script, stopped, mapped, reset, awaiting, wire, lost, down>>

\* Allocate throws bad_alloc for the length in the header.  The coroutine of the reader ends, and nobody
\* is told; out of HandleHeadRead the exception leaves the io thread.
AllocateThrows(s) ==
  /\ Arrives(s)
  /\ \/ type = "COROUTINE" /\ reading' = [reading EXCEPT ![s] = FALSE] /\ UNCHANGED down
     \/ type = "ASYNC" /\ down' = TRUE /\ UNCHANGED reading
  /\ UNCHANGED <<type, script, read, stopped, mapped, reset, handlingVars, logicVars>>

\* The read fails: Close and DelSessionByUuid.
ReadFails(s) ==
  /\ reading[s] /\ (reset[s] \/ IsClosed(s))
  /\ reading' = [reading EXCEPT ![s] = FALSE]
  /\ stopped' = [stopped EXCEPT ![s] = TRUE]
  /\ mapped' = [mapped EXCEPT ![s] = FALSE]
  /\ tasks' = IF stopped[s] THEN tasks ELSE Post(s, CloseTask(s))
  /\ UNCHANGED <<type, script, read, reset, awaiting, wire, lost, logicVars, down>>

\* A write fails, or the watchdog, which only the coroutine session has, ends the session; it then
\* also leaves the map.
Stops(s) ==
  /\ s \in Frail /\ ~stopped[s]
  /\ stopped' = [stopped EXCEPT ![s] = TRUE]
  /\ \E stays \in {TRUE, type = "ASYNC"} : mapped' = [mapped EXCEPT ![s] = @ /\ stays]
  /\ tasks' = Post(s, CloseTask(s))
  /\ UNCHANGED <<type, script, read, reading, reset, awaiting, wire, lost, logicVars, down>>

PeerResets(s) ==
  /\ s \in Frail /\ ~reset[s]
  /\ reset' = [reset EXCEPT ![s] = TRUE]
  /\ UNCHANGED <<type, script, read, reading, stopped, mapped, handlingVars, logicVars, down>>

-----------------------------------------------------------------------------
(* LogicSystem *)

\* Sensitivity: the worker forgets to test _isStoped.
MustWait_StopIgnored == que = <<>>

MustWait == que = <<>> /\ ending \in {"no", "joined"}

Park ==
  /\ \/ worker = "locking" /\ MustWait /\ worker' = "parking"
     \/ worker = "parking" /\ worker' = "waiting"
     \/ worker = "waiting" /\ worker' = "locking"  \* a spurious wakeup
  /\ UNCHANGED <<type, script, sessionVars, handlingVars, que, ending, down>>

NextMessage == Head(que)
Remaining == Tail(que)

\* AssistProcessMsg.  The address is logged before the coroutine is spawned, and nothing catches.
DispatchNext ==
  LET s == NextMessage[1]
      n == NextMessage[2]
  IN  /\ worker = "locking" /\ que # <<>>
      /\ que' = Remaining
      /\ down' = (HasService(s, n) /\ EndpointThrows(s))
      /\ tasks' = IF HasService(s, n) /\ ~down' THEN Post(s, Handle(s, n)) ELSE tasks
      /\ UNCHANGED <<type, script, sessionVars, awaiting, wire, lost, worker, ending>>

\* Sensitivity: a stopped worker ends without emptying the queue.
WorkerEnds_LeavesQueue ==
  /\ worker = "locking" /\ ending \in {"flagged", "notified"} /\ worker' = "ended"
  /\ UNCHANGED <<type, script, sessionVars, handlingVars, que, ending, down>>

WorkerEnds ==
  /\ worker = "locking" /\ que = <<>> /\ ~MustWait
  /\ worker' = "ended"
  /\ UNCHANGED <<type, script, sessionVars, handlingVars, que, ending, down>>

\* AsioIOServicePool::Stop has joined the io threads, which end when nothing is left to run or await.
IoThreadsEnd ==
  /\ ending = "no"
  /\ \A s \in Sessions : ~reading[s] /\ tasks[s] = <<>> /\ awaiting[s] = {}
  /\ ending' = "joined"
  /\ UNCHANGED <<type, script, sessionVars, handlingVars, que, worker, down>>

\* ~LogicSystem: the flag is set without the mutex.  What the worker then still dispatches is spawned
\* on an io_context that nobody runs.
StopLogic ==
  /\ type = "ASYNC"
  /\ \/ ending = "joined" /\ ending' = "flagged" /\ UNCHANGED worker
     \/ /\ ending = "flagged" /\ ending' = "notified"
        /\ worker' = IF worker = "waiting" THEN "locking" ELSE worker
  /\ UNCHANGED <<type, script, sessionVars, handlingVars, que, down>>

-----------------------------------------------------------------------------
(* Tasks of an io_context *)

\* Sensitivity: a packet is sent ahead of what was posted before it.
Sent_Overtakes(queued, packet) == <<Task("send", packet)>> \o queued

Sent(queued, packet) == Append(queued, Task("send", packet))

\* CSession::Send posts the packet, or returns.
Reaches(t) == ~stopped[t]

\* The requester s, whose tasks are then queued, gets a reply to its request n.
Replied(s, n, what, queued) == IF Reaches(s) THEN Sent(queued, Packet(s, n, what)) ELSE queued

\* The receiver's name or session is not found, its endpoint throws, or it is handed the message.
ForwardReply(t) == IF ~mapped[t] \/ EndpointThrows(t) THEN "error" ELSE "ok"

\* Sensitivity: the message is handed on before the endpoint is logged.
OnSendCallBack_SendsFirst(s, n, rest) ==
  LET t    == script[s][n].to
      base == [tasks EXCEPT ![s] = rest]
      fwd  == IF mapped[t] /\ Reaches(t) THEN [base EXCEPT ![t] = Sent(@, Packet(s, n, "message"))] ELSE base
  IN  tasks' = [fwd EXCEPT ![s] = Replied(s, n, ForwardReply(t), @)]

OnSendCallBack(s, n, rest) ==
  LET t    == script[s][n].to
      base == [tasks EXCEPT ![s] = rest]
      fwd  == IF ForwardReply(t) = "ok" /\ Reaches(t)
              THEN [base EXCEPT ![t] = Sent(@, Packet(s, n, "message"))] ELSE base
  IN  tasks' = [fwd EXCEPT ![s] = Replied(s, n, ForwardReply(t), @)]

\* ClientClose stops the session, so that the reply that follows is never sent.
OnCloseCallBack(s, rest) ==
  /\ tasks' = [tasks EXCEPT ![s] = IF stopped[s] THEN rest ELSE Append(rest, CloseTask(s))]
  /\ stopped' = [stopped EXCEPT ![s] = TRUE]
  /\ mapped' = [mapped EXCEPT ![s] = FALSE]

OnHelloCallBack(s, n, rest) == tasks' = [tasks EXCEPT ![s] = Replied(s, n, "ok", rest)]

\* The endpoint is logged outside the try block; the exception ends the detached coroutine.
OnRecvHeartCallBack(s, n, rest) ==
  tasks' = [tasks EXCEPT ![s] = IF EndpointThrows(s) THEN rest ELSE Replied(s, n, "ok", rest)]

\* A request that parses waits for the executor; an exception of ParseRequest ends the coroutine.
OnExecuteCallBack(s, n, rest, parses) ==
  /\ tasks' = [tasks EXCEPT ![s] = rest]
  /\ awaiting' = IF parses THEN [awaiting EXCEPT ![s] = @ \cup {n}] ELSE awaiting

\* The coroutine of a service from its start to its end or its co_await.
RunHandler(s, n, rest) ==
  LET kind == script[s][n].kind IN
  /\ \/ kind = "echo" /\ OnHelloCallBack(s, n, rest) /\ UNCHANGED <<stopped, mapped, awaiting>>
     \/ kind = "heart" /\ OnRecvHeartCallBack(s, n, rest) /\ UNCHANGED <<stopped, mapped, awaiting>>
     \/ kind = "forward" /\ OnSendCallBack(s, n, rest) /\ UNCHANGED <<stopped, mapped, awaiting>>
     \/ kind = "close" /\ OnCloseCallBack(s, rest) /\ UNCHANGED awaiting
     \/ kind \in {"db", "baddb"} /\ OnExecuteCallBack(s, n, rest, kind = "db")
        /\ UNCHANGED <<stopped, mapped>>
     \/ kind = "nocmd" /\ tasks' = [tasks EXCEPT ![s] = rest] /\ UNCHANGED <<stopped, mapped, awaiting>>
  /\ UNCHANGED <<wire, lost>>

\* DoSend: a full queue drops the packet.
RunDoSend(s, packet) ==
  /\ IF stopped[s] THEN UNCHANGED <<wire, lost>>
     ELSE \/ wire' = [wire EXCEPT ![s] = Append(@, packet)] /\ UNCHANGED lost
          \/ Cardinality(lost) < MaxLost /\ lost' = lost \cup {<<s, packet>>} /\ UNCHANGED wire
  /\ UNCHANGED <<stopped, mapped, awaiting>>

RunTask(s) ==
  /\ tasks[s] # <<>> /\ ending = "no"
  /\ LET task == Head(tasks[s])
         rest == Tail(tasks[s])
     IN  \/ task.op = "handle" /\ RunHandler(s, task.packet.seq, rest)
         \/ task.op = "send" /\ RunDoSend(s, task.packet) /\ tasks' = [tasks EXCEPT ![s] = rest]
         \/ task.op = "close" /\ tasks' = [tasks EXCEPT ![s] = rest]
            /\ UNCHANGED <<stopped, mapped, awaiting, wire, lost>>
  /\ UNCHANGED <<type, script, read, reading, reset, logicVars, down>>

\* The executor has the result; success or not, it is a reply.  Its dump throws on text that is not
\* UTF-8, outside any try block: the coroutine ends without the reply.
Resume(s) ==
  /\ ending = "no"
  /\ \E n \in awaiting[s] :
       /\ awaiting' = [awaiting EXCEPT ![s] = @ \ {n}]
       /\ \/ tasks' = [tasks EXCEPT ![s] = Replied(s, n, "ok", @)] /\ UNCHANGED lost
          \/ /\ Cardinality(lost) < MaxLost /\ lost' = lost \cup {<<s, Packet(s, n, "ok")>>}
             /\ UNCHANGED tasks
  /\ UNCHANGED <<type, script, sessionVars, wire, logicVars, down>>

-----------------------------------------------------------------------------

WorkerStep == DispatchNext \/ WorkerEnds \/ Park

Next ==
  /\ ~down
  /\ \/ \E s \in Sessions : \/ Read(s) \/ AllocateThrows(s) \/ ReadFails(s) \/ Stops(s) \/ PeerResets(s)
                            \/ RunTask(s) \/ Resume(s)
     \/ WorkerStep \/ IoThreadsEnd \/ StopLogic

Safety == Init /\ [][Next]_vars

(* Threads run what is ready, and the executor answers (DBConnectionPool).  The worker's own steps *)
(* are fair, the spurious wakeup is not.                                                            *)
Spec ==
  /\ Safety
  /\ \A s \in Sessions : /\ WF_vars(~down /\ RunTask(s)) /\ WF_vars(~down /\ Resume(s))
                         /\ WF_vars(~down /\ ReadFails(s))
  /\ WF_vars(~down /\ worker # "waiting" /\ WorkerStep)
  /\ WF_vars(~down /\ ending = "flagged" /\ StopLogic)

-----------------------------------------------------------------------------
(* Properties *)

Packets == [src : Sessions, seq : Nat, what : {"request", "ok", "error", "message", "close"}]
Tasks == [op : {"handle", "send", "close"}, packet : Packets]

\* Every variable has its type; the reader is never ahead of its client, and the worker ends only
\* in a queue it has emptied.
MessagingTypeOK ==
  /\ type \in {"COROUTINE", "ASYNC"}
  /\ script \in Scripts
  /\ read \in [Sessions -> Nat] /\ \A s \in Sessions : read[s] <= Len(script[s])
  /\ {reading, stopped, mapped, reset} \subseteq [Sessions -> BOOLEAN]
  /\ tasks \in [Sessions -> Seq(Tasks)]
  /\ awaiting \in [Sessions -> SUBSET Nat] /\ \A s \in Sessions : awaiting[s] \subseteq 1 .. read[s]
  /\ wire \in [Sessions -> Seq(Packets)]
  /\ lost \subseteq Sessions \X Packets
  /\ que \in Seq(Sessions \X Nat)
  /\ worker \in {"locking", "parking", "waiting", "ended"} /\ (worker = "ended" => que = <<>>)
  /\ ending \in {"no", "joined", "flagged", "notified"} /\ down \in BOOLEAN

\* What a session is sent on behalf of one client comes in the order of that client's requests: the
\* messages it forwards, and the replies to its own requests but for those of the database, which
\* the comment at CoroutineSession.cpp:127 lets come late.  No request has two replies, and no message
\* comes twice.  In the ASYNC type the queue and the thread switch in between change nothing of this.
Delivery ==
  \A s \in Sessions : \A i, j \in DOMAIN wire[s] :
    LET p == wire[s][i]
        q == wire[s][j]
        sameKind == (p.what = "message") <=> (q.what = "message")
        db(r) == r.what # "message" /\ script[s][r.seq].kind = "db"
    IN  i < j /\ p.src = q.src /\ sameKind =>
          p.seq < q.seq \/ (p.seq # q.seq /\ (db(p) \/ db(q)))

\* What a sender is told of a message it forwards is true.  After "ok" the message was handed on: it is
\* queued for the receiver, on its way to the queue, dropped there because the queue was full, or the
\* receiver stopped.  After "error", on which a client may well send again, it is nowhere on its way.
OutcomeIsTrue ==
  \A s \in Sessions : \A i \in DOMAIN wire[s] :
    LET p == wire[s][i]
        t == script[s][p.seq].to
        m == Packet(s, p.seq, "message")
        underWay == Contains(wire[t], m) \/ Contains(tasks[t], Task("send", m))
    IN  p.what # "message" /\ script[s][p.seq].kind = "forward" =>
          IF p.what = "ok" THEN underWay \/ <<t, m>> \in lost \/ stopped[t] ELSE ~underWay

Numbers == UNION {DOMAIN scripts[s] : scripts \in Scripts, s \in Sessions}
Replies(s, n) == {Packet(s, n, what) : what \in {"ok", "error"}}
Answers(s, n) == script[s][n].kind \in {"echo", "heart", "forward", "db"}

\* Every request that was read is answered, through whichever type of server it came, but for a session
\* that stops, a reply lost to a full queue or to a Send that threw, the end of the program, and an
\* exception that has ended the process.
Answered ==
  \A s \in Sessions : \A n \in Numbers :
    (n <= read[s] /\ Answers(s, n)) ~>
      \/ \E reply \in Replies(s, n) : Contains(wire[s], reply) \/ <<s, reply>> \in lost
      \/ stopped[s] \/ down \/ ending # "no"

\* ~LogicSystem returns, with everything dispatched, unless the worker was between its test and its
\* wait when the destructor, which takes no mutex, began: then only a spurious wakeup helps.
LogicEnds ==
  (ending = "flagged" /\ worker # "parking") ~> (worker = "ended" \/ down)
=============================================================================
