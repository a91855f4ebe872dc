------------------------------ MODULE SendQueue ------------------------------
(***************************************************************************)
(* The send path of one session: CSession::Send, DoSend, DoWrite,          *)
(* HandleWrite and Close (src/core/session/CSession.cpp).                  *)
(*                                                                         *)
(* Send may be called from any thread: it tests _bStop, builds the packet  *)
(* and posts DoSend to the session's io_context.  That io_context is run   *)
(* by exactly one thread (AsioIOServicePool.cpp:25-30), which executes the *)
(* posted tasks in the order they were posted and the completion handlers  *)
(* of async_write whenever they become ready, one handler at a time.       *)
(***************************************************************************)
EXTENDS Naturals, Sequences

CONSTANTS Senders,      \* threads (or coroutines) that call Send on this session
          MaxSendQue,   \* MAX_SENDQUE_LEN (1000 in Const.h)
          SendLimit     \* model bound: Send calls made by one sender

ASSUME SendQueueAssumption ==
  /\ MaxSendQue \in Nat \ {0}
  /\ SendLimit \in Nat

VARIABLES sent,      \* sent[t]: Send calls of t that passed the test of _bStop
          pc,        \* pc[t]: "idle", or "built" between that test and the post
          tasks,     \* tasks posted to _ioc, in order
          sendQue,   \* _sendQue
          writes,    \* async_write operations without a completed handler
          wire,      \* what was wholly written to the socket, in order (history)
          accepted,  \* what was ever pushed on _sendQue, in order (history)
          bStop,     \* _bStop
          sockOpen   \* _socket.is_open()

vars == <<sent, pc, tasks, sendQue, writes, wire, accepted, bStop, sockOpen>>

-----------------------------------------------------------------------------
(* State *)

\* A packet is named by the thread that sent it and by its number among that thread's packets.
Messages == Senders \X (1..SendLimit)

Sending(m) == [op |-> "send", msg |-> m]
Closing == [op |-> "close"]
Task == [op : {"send"}, msg : Messages] \cup {Closing}

\* An async_write: under way, or completed with its handler still to run.
Write == [msg : Messages, st : {"busy", "ok", "failed"}]

\* What the queue holds that is not on the wire: the front stays queued until its handler runs.
Unsent ==
  IF writes # <<>> /\ writes[1].st = "ok" THEN Tail(sendQue) ELSE sendQue

Init ==
  /\ sent = [t \in Senders |-> 0]
  /\ pc = [t \in Senders |-> "idle"]
  /\ tasks = <<>>
  /\ sendQue = <<>>
  /\ writes = <<>>
  /\ wire = <<>>
  /\ accepted = <<>>
  /\ bStop = FALSE
  /\ sockOpen = TRUE

-----------------------------------------------------------------------------
(* Send, on the caller's thread *)

\* Send tests _bStop and builds the node.  With _bStop set it returns: nothing changes.
SendCheck(t) ==
  /\ pc[t] = "idle"
  /\ ~bStop
  /\ sent[t] < SendLimit
  /\ sent' = [sent EXCEPT ![t] = @ + 1]
  /\ pc' = [pc EXCEPT ![t] = "built"]
  /\ UNCHANGED <<tasks, sendQue, writes, wire, accepted, bStop, sockOpen>>

\* Sensitivity: the task overtakes those already posted (dispatch in place of post).
SendPost_Overtakes(t) ==
  /\ pc[t] = "built"
  /\ pc' = [pc EXCEPT ![t] = "idle"]
  /\ tasks' = <<Sending(<<t, sent[t]>>)>> \o tasks
  /\ UNCHANGED <<sent, sendQue, writes, wire, accepted, bStop, sockOpen>>

\* Send posts DoSend; _bStop may have been set since the test.
SendPost(t) ==
  /\ pc[t] = "built"
  /\ pc' = [pc EXCEPT ![t] = "idle"]
  /\ tasks' = Append(tasks, Sending(<<t, sent[t]>>))
  /\ UNCHANGED <<sent, sendQue, writes, wire, accepted, bStop, sockOpen>>

-----------------------------------------------------------------------------
(* The session's io thread *)

\* async_write of m is started; on a closed socket it fails at once.
Start(m) == [msg |-> m, st |-> IF sockOpen THEN "busy" ELSE "failed"]

\* Sensitivity: DoSend tests `>` and not `>=` against the limit.
DoSend_OverLimit(m) ==
  \/ /\ bStop \/ Len(sendQue) > MaxSendQue
     /\ UNCHANGED <<sendQue, writes, accepted>>
  \/ /\ ~bStop
     /\ Len(sendQue) <= MaxSendQue
     /\ sendQue' = Append(sendQue, m)
     /\ accepted' = Append(accepted, m)
     /\ writes' = IF sendQue = <<>> THEN Append(writes, Start(m)) ELSE writes

\* Sensitivity: DoSend starts a write whatever the queue holds.
DoSend_AlwaysWrites(m) ==
  \/ /\ bStop \/ Len(sendQue) >= MaxSendQue
     /\ UNCHANGED <<sendQue, writes, accepted>>
  \/ /\ ~bStop
     /\ Len(sendQue) < MaxSendQue
     /\ sendQue' = Append(sendQue, m)
     /\ accepted' = Append(accepted, m)
     /\ writes' = Append(writes, Start(Head(sendQue')))

\* Sensitivity: `writing` is computed after the push, the bug the comment at line 211 records.
DoSend_TestsAfterPush(m) ==
  \/ /\ bStop \/ Len(sendQue) >= MaxSendQue
     /\ UNCHANGED <<sendQue, writes, accepted>>
  \/ /\ ~bStop
     /\ Len(sendQue) < MaxSendQue
     /\ sendQue' = Append(sendQue, m)
     /\ accepted' = Append(accepted, m)
     /\ UNCHANGED writes

\* Sensitivity: DoSend does not look at _bStop again.
DoSend_IgnoresStop(m) ==
  \/ /\ Len(sendQue) >= MaxSendQue
     /\ UNCHANGED <<sendQue, writes, accepted>>
  \/ /\ Len(sendQue) < MaxSendQue
     /\ sendQue' = Append(sendQue, m)
     /\ accepted' = Append(accepted, m)
     /\ writes' = IF sendQue = <<>> THEN Append(writes, Start(m)) ELSE writes

\* DoSend, and DoWrite when no write is under way: `writing` is the queue's state BEFORE the push.
DoSend(m) ==
  \/ /\ bStop \/ Len(sendQue) >= MaxSendQue
     /\ UNCHANGED <<sendQue, writes, accepted>>
  \/ /\ ~bStop
     /\ Len(sendQue) < MaxSendQue
     /\ sendQue' = Append(sendQue, m)
     /\ accepted' = Append(accepted, m)
     /\ writes' = IF sendQue = <<>> THEN Append(writes, Start(m)) ELSE writes

RunDoSend ==
  /\ tasks # <<>>
  /\ Head(tasks).op = "send"
  /\ tasks' = Tail(tasks)
  /\ DoSend(Head(tasks).msg)
  /\ UNCHANGED <<sent, pc, wire, bStop, sockOpen>>

\* Sensitivity: closing the socket also throws the queued packets away.
RunClose_DropsQueue ==
  /\ tasks # <<>>
  /\ Head(tasks).op = "close"
  /\ tasks' = Tail(tasks)
  /\ sockOpen' = FALSE
  /\ sendQue' = <<>>
  /\ writes' = [i \in DOMAIN writes |->
                  IF writes[i].st = "busy" THEN [writes[i] EXCEPT !.st = "failed"] ELSE writes[i]]
  /\ UNCHANGED <<sent, pc, wire, accepted, bStop>>

\* The task Close posted: _socket.close aborts the write under way, not one already completed.
RunClose ==
  /\ tasks # <<>>
  /\ Head(tasks).op = "close"
  /\ tasks' = Tail(tasks)
  /\ sockOpen' = FALSE
  /\ writes' = [i \in DOMAIN writes |->
                  IF writes[i].st = "busy" THEN [writes[i] EXCEPT !.st = "failed"] ELSE writes[i]]
  /\ UNCHANGED <<sent, pc, sendQue, wire, accepted, bStop>>

\* Sensitivity: Close sets the flag and forgets to post.
Close_NoPost ==
  bStop' = TRUE /\ UNCHANGED tasks

\* Close: the exchange makes every call but the first return at once.
Close ==
  /\ bStop' = TRUE
  /\ tasks' = IF bStop THEN tasks ELSE Append(tasks, Closing)

\* Close is called by another handler of the session: its reader, its watchdog, OnClose.
CloseCall ==
  /\ ~bStop
  /\ Close
  /\ UNCHANGED <<sent, pc, sendQue, writes, wire, accepted, sockOpen>>

\* Sensitivity: the completed packet stays at the front of the queue.
HandleWriteOk_NoPop ==
  /\ writes # <<>>
  /\ writes[1].st = "ok"
  /\ writes' = Append(Tail(writes), Start(Head(sendQue)))
  /\ UNCHANGED <<sent, pc, tasks, sendQue, wire, accepted, bStop, sockOpen>>

\* Sensitivity: the next packet is not started.
HandleWriteOk_NoNext ==
  /\ writes # <<>>
  /\ writes[1].st = "ok"
  /\ sendQue' = Tail(sendQue)
  /\ writes' = Tail(writes)
  /\ UNCHANGED <<sent, pc, tasks, wire, accepted, bStop, sockOpen>>

\* HandleWrite without an error: pop what was sent, start the next.  _bStop is not looked at.
HandleWriteOk ==
  /\ writes # <<>>
  /\ writes[1].st = "ok"
  /\ LET rest == IF sendQue = <<>> THEN <<>> ELSE Tail(sendQue) IN
     /\ sendQue' = rest
     /\ writes' = IF rest = <<>> THEN Tail(writes)
                                 ELSE Append(Tail(writes), Start(Head(rest)))
  /\ UNCHANGED <<sent, pc, tasks, wire, accepted, bStop, sockOpen>>

\* HandleWrite with an error: the queue is left as it is and the session is closed.
HandleWriteError ==
  /\ writes # <<>>
  /\ writes[1].st = "failed"
  /\ writes' = Tail(writes)
  /\ Close
  /\ UNCHANGED <<sent, pc, sendQue, wire, accepted, sockOpen>>

-----------------------------------------------------------------------------
(* The network completes an async_write (external) *)

WriteCompletes ==
  \E i \in DOMAIN writes :
    /\ writes[i].st = "busy"
    /\ writes' = [writes EXCEPT ![i].st = "ok"]
    /\ wire' = Append(wire, writes[i].msg)
    /\ UNCHANGED <<sent, pc, tasks, sendQue, accepted, bStop, sockOpen>>

WriteFails ==
  \E i \in DOMAIN writes :
    /\ writes[i].st = "busy"
    /\ writes' = [writes EXCEPT ![i].st = "failed"]
    /\ UNCHANGED <<sent, pc, tasks, sendQue, wire, accepted, bStop, sockOpen>>

-----------------------------------------------------------------------------

IoThread == RunDoSend \/ RunClose \/ HandleWriteOk \/ HandleWriteError

Next ==
  \/ \E t \in Senders : SendCheck(t) \/ SendPost(t)
  \/ IoThread
  \/ CloseCall
  \/ WriteCompletes
  \/ WriteFails

Safety == Init /\ [][Next]_vars

(* io_context::run executes whatever is ready, and a thread inside Send reaches its post. *)
RunsHandlers ==
  /\ \A t \in Senders : WF_vars(SendPost(t))
  /\ WF_vars(RunDoSend) /\ WF_vars(RunClose)
  /\ WF_vars(HandleWriteOk) /\ WF_vars(HandleWriteError)

(* An assumption about the peer, not about the code: it reads, or its connection breaks. *)
PeerReads == WF_vars(WriteCompletes \/ WriteFails)

Spec == Safety /\ RunsHandlers
SpecPeerReads == Spec /\ PeerReads

-----------------------------------------------------------------------------
(* Properties *)

\* Every variable has its type; in particular _sendQue never outgrows MAX_SENDQUE_LEN.
TypeOK ==
  /\ sent \in [Senders -> 0..SendLimit]
  /\ pc \in [Senders -> {"idle", "built"}]
  /\ \A t \in Senders : pc[t] = "built" => sent[t] > 0
  /\ tasks \in Seq(Task)
  /\ sendQue \in Seq(Messages) /\ Len(sendQue) <= MaxSendQue
  /\ writes \in Seq(Write)
  /\ wire \in Seq(Messages)
  /\ accepted \in Seq(Messages)
  /\ bStop \in BOOLEAN /\ sockOpen \in BOOLEAN

\* At no time are two async_write operations outstanding on the socket: asio would interleave
\* their bytes.  This is what `writing` in DoSend and the chaining in HandleWrite are for.
OneWriteInFlight == Len(writes) <= 1

\* The packet being written is the front of _sendQue.  Neither completion handler captures the
\* node (CSession.cpp:176, 242), so the queue alone keeps the buffer alive during the write, and
\* the pop in HandleWrite removes the packet that was sent and no other.
BufferOwned ==
  \A i \in DOMAIN writes : sendQue # <<>> /\ writes[i].msg = Head(sendQue)

\* While the session is not stopped, a non-empty _sendQue has a write outstanding: DoSend starts
\* one only when it finds the queue empty, so without it the queue would be stuck for good.
NeverStuck == sendQue # <<>> /\ ~bStop => writes # <<>>

\* What was accepted is what was written followed by what still waits: no packet is lost,
\* repeated or reordered between the push in DoSend and the socket.
Fifo == accepted = wire \o Unsent

Ordered(s) ==
  \A i, j \in DOMAIN s : i < j /\ s[i][1] = s[j][1] => s[i][2] < s[j][2]

\* The peer sees the packets of one sender in the order of its Send calls, whatever other
\* threads send and whatever is dropped on the way (full queue, stop).
SenderOrder == Ordered(wire)

\* A stopped session's socket is closed: the task of the one effective Close is run.
StopCloses == bStop ~> ~sockOpen

\* When the peer reads, every accepted packet reaches the wire unless the session is stopped.
AcceptedSettles ==
  \A m \in Messages :
    (\E i \in DOMAIN accepted : accepted[i] = m) ~> (bStop \/ \E i \in DOMAIN wire : wire[i] = m)

-----------------------------------------------------------------------------
(* The send path implements the bounded channel. *)

Channel == INSTANCE SendChannel WITH
             Capacity <- MaxSendQue,
             pending <- Unsent,
             delivered <- wire,
             status <- IF ~bStop THEN "open" ELSE IF sockOpen THEN "stopping" ELSE "closed"

\* Every step of the send path is a step of SendChannel or changes nothing it sees: packets are
\* accepted only while not stopped, delivered one by one in order, and not at all once closed.
ChannelSafety == Channel!Safety
=============================================================================
