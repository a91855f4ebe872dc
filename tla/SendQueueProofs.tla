--------------------------- MODULE SendQueueProofs ---------------------------
(***************************************************************************)
(* Proofs about the send path of a session, for any set of senders, any    *)
(* queue limit and any number of Send calls.                               *)
(***************************************************************************)
EXTENDS SendQueue, SequenceTheorems, TLAPS

-----------------------------------------------------------------------------
(* The inductive invariant *)

\* The socket is closed, or its closing is posted, only after Close has set _bStop.
StopFirst ==
  /\ ~sockOpen => bStop
  /\ \A i \in DOMAIN tasks : tasks[i].op = "close" => bStop

\* A write that is still under way is on an open socket.
BusyOnOpen == \A i \in DOMAIN writes : writes[i].st = "busy" => sockOpen

\* Among calls numbered by s and senders at p: m was made before anything its sender is now
\* about to post.
Made(m, s, p) ==
  /\ m[2] <= s[m[1]]
  /\ p[m[1]] = "built" => m[2] < s[m[1]]

\* The packets of one sender stay in the order of its calls along the whole path: those it is
\* about to post come after those in the task queue, and these after the accepted ones.
TasksMade == \A i \in DOMAIN tasks : tasks[i].op = "send" => Made(tasks[i].msg, sent, pc)

AcceptedMade == \A i \in DOMAIN accepted : Made(accepted[i], sent, pc)

TasksOrdered ==
  \A i, j \in DOMAIN tasks :
    /\ i < j
    /\ tasks[i].op = "send" /\ tasks[j].op = "send"
    /\ tasks[i].msg[1] = tasks[j].msg[1]
    => tasks[i].msg[2] < tasks[j].msg[2]

AcceptedFirst ==
  \A i \in DOMAIN accepted, j \in DOMAIN tasks :
    tasks[j].op = "send" /\ accepted[i][1] = tasks[j].msg[1]
    => accepted[i][2] < tasks[j].msg[2]

PathOrder == TasksMade /\ AcceptedMade /\ TasksOrdered /\ AcceptedFirst /\ Ordered(accepted)

\* What the write path keeps true.
WriteInv ==
  /\ OneWriteInFlight
  /\ BufferOwned
  /\ NeverStuck
  /\ StopFirst
  /\ BusyOnOpen

-----------------------------------------------------------------------------
(* Lemmas about sequences *)

\* Reading a non-empty sequence: its head, its tail and its indices.
LEMMA HeadTail ==
  ASSUME NEW S, NEW s \in Seq(S), s # <<>>
  PROVE  /\ Len(s) \in Nat \ {0}
         /\ Head(s) = s[1]
         /\ Head(s) \in S
         /\ Tail(s) \in Seq(S)
         /\ Len(Tail(s)) = Len(s) - 1
         /\ \A i \in 1..Len(Tail(s)) : Tail(s)[i] = s[i+1]
BY HeadTailProperties, EmptySeq

\* The head of the second of two joined sequences may move to the end of the first.
LEMMA MoveHead ==
  ASSUME NEW S, NEW s \in Seq(S), NEW t \in Seq(S), t # <<>>
  PROVE  s \o t = Append(s, Head(t)) \o Tail(t)
<1>1. Head(t) \in S /\ Tail(t) \in Seq(S)
  BY HeadTail
<1>2. <<Head(t)>> \in Seq(S)
  BY <1>1
<1>3. t = <<Head(t)>> \o Tail(t)
  <2>1. <<Head(t)>> \o Tail(t) \in Seq(S)
    BY <1>1, <1>2, ConcatProperties
  <2>2. Len(<<Head(t)>> \o Tail(t)) = Len(t)
    BY <1>1, <1>2, ConcatProperties, HeadTail
  <2>3. \A i \in 1..Len(t) : (<<Head(t)>> \o Tail(t))[i] = t[i]
    BY <1>1, <1>2, ConcatProperties, HeadTail
  <2> QED BY <2>1, <2>2, <2>3, SeqEqual
<1>4. Append(s, Head(t)) = s \o <<Head(t)>>
  BY <1>1, AppendIsConcat
<1> QED BY <1>1, <1>2, <1>3, <1>4, ConcatAssociative

\* Appending to the second of two joined sequences appends to the whole.
LEMMA AppendRight ==
  ASSUME NEW S, NEW s \in Seq(S), NEW t \in Seq(S), NEW r \in Seq(S), r = s \o t, NEW e \in S
  PROVE  Append(r, e) = s \o Append(t, e)
<1>1. <<e>> \in Seq(S)
  OBVIOUS
<1>2. Append(r, e) = r \o <<e>> /\ Append(t, e) = t \o <<e>>
  BY <1>1, AppendIsConcat
<1> QED BY <1>1, <1>2, ConcatAssociative

-----------------------------------------------------------------------------
(* Type correctness *)

\* A started write is a write.
LEMMA StartType ==
  ASSUME NEW m \in Messages
  PROVE  Start(m) \in Write /\ Start(m).msg = m /\ Start(m).st # "ok"
BY DEF Start, Write

\* Changing the state of one write leaves a sequence of writes of the same length.
LEMMA Settling ==
  ASSUME NEW w \in Seq(Write), NEW i \in DOMAIN w, NEW st \in {"ok", "failed"}
  PROVE  /\ i \in 1..Len(w) /\ w[i] \in Write
         /\ [w EXCEPT ![i].st = st] \in Seq(Write)
         /\ Len([w EXCEPT ![i].st = st]) = Len(w)
         /\ [w EXCEPT ![i].st = st][i] = [msg |-> w[i].msg, st |-> st]
<1>1. i \in 1..Len(w) /\ w[i] \in Write
  BY LenProperties, ElementOfSeq
<1> DEFINE e == [w[i] EXCEPT !.st = st]
<1>2. e \in Write /\ e = [msg |-> w[i].msg, st |-> st]
  BY <1>1 DEF Write
<1>3. [w EXCEPT ![i].st = st] = [w EXCEPT ![i] = e]
  OBVIOUS
<1> QED BY <1>1, <1>2, <1>3, ExceptSeq

\* Aborting the writes under way leaves a sequence of writes of the same packets.
LEMMA Aborting ==
  ASSUME NEW w \in Seq(Write),
         NEW a, a = [i \in DOMAIN w |->
                       IF w[i].st = "busy" THEN [w[i] EXCEPT !.st = "failed"] ELSE w[i]]
  PROVE  /\ a \in Seq(Write) /\ Len(a) = Len(w) /\ DOMAIN a = DOMAIN w
         /\ \A i \in DOMAIN w : a[i].msg = w[i].msg /\ a[i].st # "busy"
         /\ \A i \in DOMAIN w : a[i].st = "ok" <=> w[i].st = "ok"
<1>1. Len(w) \in Nat /\ DOMAIN w = 1..Len(w) /\ w \in [1..Len(w) -> Write]
  BY LenProperties
<1>2. \A i \in DOMAIN w : a[i] \in Write
  BY <1>1 DEF Write
<1>3. \A i \in DOMAIN w : a[i].msg = w[i].msg /\ a[i].st # "busy"
  BY <1>1 DEF Write
<1>4. \A i \in DOMAIN w : a[i].st = "ok" <=> w[i].st = "ok"
  BY <1>1 DEF Write
<1>5. a \in [1..Len(w) -> Write]
  BY <1>1, <1>2
<1>6. a \in Seq(Write)
  BY <1>1, <1>5, SeqDef
<1>7. Len(a) = Len(w)
  BY <1>1, <1>5, <1>6, LenProperties
<1> QED BY <1>1, <1>3, <1>4, <1>5, <1>6, <1>7

\* Every step keeps the types.
LEMMA TypeStep ==
  ASSUME TypeOK, [Next]_vars
  PROVE  TypeOK'
<1> USE SendQueueAssumption DEF TypeOK
<1>1. ASSUME NEW t \in Senders, SendCheck(t) PROVE TypeOK'
  BY <1>1 DEF SendCheck
<1>2. ASSUME NEW t \in Senders, SendPost(t) PROVE TypeOK'
  <2>1. Sending(<<t, sent[t]>>) \in Task
    BY <1>2 DEF SendPost, Sending, Task, Messages
  <2> QED BY <1>2, <2>1, AppendProperties DEF SendPost
<1>3. CASE RunDoSend
  <2>1. tasks' \in Seq(Task) /\ Head(tasks) \in Task
    BY <1>3, HeadTail DEF RunDoSend
  <2>2. Head(tasks).msg \in Messages
    BY <1>3, <2>1 DEF RunDoSend, Task, Closing
  <2>3. PICK m \in Messages : DoSend(m)
    BY <1>3, <2>2 DEF RunDoSend
  <2>4. /\ Append(sendQue, m) \in Seq(Messages)
        /\ Len(Append(sendQue, m)) = Len(sendQue) + 1
        /\ Len(sendQue) \in Nat
        /\ Append(accepted, m) \in Seq(Messages)
        /\ Append(writes, Start(m)) \in Seq(Write)
    BY AppendProperties, LenProperties, StartType
  <2>5. sendQue' \in Seq(Messages) /\ Len(sendQue') <= MaxSendQue
    <3>1. CASE sendQue' = sendQue
      BY <3>1
    <3>2. CASE sendQue' = Append(sendQue, m) /\ Len(sendQue) < MaxSendQue
      BY <2>4, <3>2
    <3> QED BY <2>3, <3>1, <3>2 DEF DoSend
  <2>6. accepted' \in Seq(Messages) /\ writes' \in Seq(Write)
    BY <2>3, <2>4 DEF DoSend
  <2> QED BY <1>3, <2>1, <2>5, <2>6 DEF RunDoSend
<1>4. CASE RunClose
  <2>1. tasks' \in Seq(Task)
    BY <1>4, HeadTail DEF RunClose
  <2>2. writes' \in Seq(Write)
    BY <1>4, Aborting DEF RunClose
  <2> QED BY <1>4, <2>1, <2>2 DEF RunClose
<1>5. ASSUME Close PROVE tasks' \in Seq(Task) /\ bStop' \in BOOLEAN
  BY <1>5, AppendProperties DEF Close, Task, Closing
<1>6. CASE HandleWriteOk
  <2>1. Tail(writes) \in Seq(Write)
    BY <1>6, HeadTail DEF HandleWriteOk
  <2>2. sendQue' \in Seq(Messages) /\ Len(sendQue') <= MaxSendQue
    BY <1>6, HeadTail, LenProperties, EmptySeq DEF HandleWriteOk
  <2>3. writes' \in Seq(Write)
    BY <1>6, <2>1, <2>2, HeadTail, StartType, AppendProperties DEF HandleWriteOk
  <2> QED BY <1>6, <2>2, <2>3 DEF HandleWriteOk
<1>7. CASE HandleWriteError
  BY <1>5, <1>7, HeadTail DEF HandleWriteError
<1>8. CASE CloseCall
  BY <1>5, <1>8 DEF CloseCall
<1>9. CASE WriteCompletes
  <2>1. PICK i \in DOMAIN writes :
          /\ writes' = [writes EXCEPT ![i].st = "ok"]
          /\ wire' = Append(wire, writes[i].msg)
    BY <1>9 DEF WriteCompletes
  <2>2. writes' \in Seq(Write) /\ writes[i].msg \in Messages
    BY <2>1, Settling DEF Write
  <2>3. wire' \in Seq(Messages)
    BY <2>1, <2>2, AppendProperties
  <2> QED BY <1>9, <2>2, <2>3 DEF WriteCompletes
<1>10. CASE WriteFails
  <2>1. PICK i \in DOMAIN writes : writes' = [writes EXCEPT ![i].st = "failed"]
    BY <1>10 DEF WriteFails
  <2>2. writes' \in Seq(Write)
    BY <2>1, Settling
  <2> QED BY <1>10, <2>2 DEF WriteFails
<1>11. CASE UNCHANGED vars
  BY <1>11 DEF vars
<1> QED BY <1>1, <1>2, <1>3, <1>4, <1>6, <1>7, <1>8, <1>9, <1>10, <1>11 DEF Next, IoThread

\* Every variable keeps its type, and _sendQue its limit, in every reachable state.
THEOREM TypeCorrect == Safety => []TypeOK
<1>1. Init => TypeOK
  <2> SUFFICES ASSUME Init PROVE TypeOK
    OBVIOUS
  <2>1. /\ sent \in [Senders -> 0..SendLimit]
        /\ pc \in [Senders -> {"idle", "built"}]
        /\ \A t \in Senders : pc[t] # "built"
    BY SendQueueAssumption DEF Init
  <2>2. <<>> \in Seq(Task) /\ <<>> \in Seq(Messages) /\ <<>> \in Seq(Write)
    BY EmptySeq
  <2>3. Len(<<>>) <= MaxSendQue
    BY EmptySeq, SendQueueAssumption
  <2> QED BY <2>1, <2>2, <2>3 DEF Init, TypeOK
<1>2. TypeOK /\ [Next]_vars => TypeOK'
  BY TypeStep
<1> QED BY <1>1, <1>2, PTL DEF Safety

-----------------------------------------------------------------------------
(* The write path *)

\* With at most one write outstanding, `writes` is empty or holds one write, its first.
LEMMA SingleWrite ==
  ASSUME TypeOK, OneWriteInFlight
  PROVE  /\ writes = <<>> => DOMAIN writes = {}
         /\ writes # <<>> => /\ Len(writes) = 1 /\ DOMAIN writes = {1}
                            /\ writes[1] \in Write /\ Tail(writes) = <<>>
<1>0. writes \in Seq(Write) /\ Len(writes) <= 1
  BY DEF TypeOK, OneWriteInFlight
<1>1. writes = <<>> => DOMAIN writes = {}
  BY <1>0, LenProperties, EmptySeq
<1>2. ASSUME writes # <<>> PROVE Len(writes) = 1 /\ DOMAIN writes = {1} /\ writes[1] \in Write
  <2>1. Len(writes) \in Nat \ {0}
    BY <1>0, <1>2, EmptySeq
  <2>a. \A n \in Nat \ {0} : n <= 1 => n = 1 /\ 1 \in 1..n
    OBVIOUS
  <2>2. Len(writes) = 1 /\ 1 \in 1..Len(writes)
    BY <1>0, <2>1, <2>a
  <2>3. DOMAIN writes = {1}
    BY <1>0, <2>2, LenProperties
  <2> QED BY <1>0, <2>2, <2>3, ElementOfSeq
<1>3. ASSUME writes # <<>> PROVE Tail(writes) = <<>>
  <2>1. Tail(writes) \in Seq(Write) /\ Len(Tail(writes)) = 0
    BY <1>0, <1>2, <1>3, HeadTail
  <2> QED BY <2>1, EmptySeq
<1> QED BY <1>1, <1>2, <1>3

\* A sequence of one element.
LEMMA One ==
  ASSUME NEW S, NEW e \in S
  PROVE  /\ Append(<<>>, e) # <<>> /\ Append(<<>>, e) = <<e>>
         /\ Len(Append(<<>>, e)) = 1 /\ DOMAIN Append(<<>>, e) = {1}
         /\ Append(<<>>, e)[1] = e
<1>1. <<>> \in Seq(S) /\ Len(<<>>) = 0
  BY EmptySeq
<1>2. Append(<<>>, e) \in Seq(S) /\ Len(Append(<<>>, e)) = 1 /\ Append(<<>>, e)[1] = e
  BY <1>1, AppendProperties
<1>3. Append(<<>>, e) = <<>> \o <<e>> /\ <<e>> \in Seq(S)
  BY <1>1, AppendIsConcat
<1> QED BY <1>1, <1>2, <1>3, AppendProperties, LenProperties, ConcatEmptySeq

\* Every step keeps at most one write outstanding, on the front of the queue, until the stop.
LEMMA WriteStep ==
  ASSUME TypeOK, WriteInv, [Next]_vars
  PROVE  WriteInv'
<1> USE DEF WriteInv, OneWriteInFlight, BufferOwned, NeverStuck, StopFirst, BusyOnOpen
<1>0. /\ tasks \in Seq(Task) /\ sendQue \in Seq(Messages) /\ writes \in Seq(Write)
      /\ bStop \in BOOLEAN /\ sockOpen \in BOOLEAN
  BY DEF TypeOK
<1>a. /\ writes = <<>> => DOMAIN writes = {} /\ Len(writes) = 0
      /\ writes # <<>> => /\ Len(writes) = 1 /\ DOMAIN writes = {1}
                         /\ writes[1] \in Write /\ Tail(writes) = <<>>
  BY SingleWrite, EmptySeq
<1>1. ASSUME NEW t \in Senders, SendCheck(t) PROVE WriteInv'
  BY <1>1 DEF SendCheck
<1>2. ASSUME NEW t \in Senders, SendPost(t) PROVE WriteInv'
  <2>1. Sending(<<t, sent[t]>>) \in Task /\ Sending(<<t, sent[t]>>).op # "close"
    BY <1>2 DEF SendPost, Sending, Task, Messages, TypeOK
  <2>2. \A i \in DOMAIN tasks' : tasks'[i].op = "close" => bStop
    BY <1>0, <1>2, <2>1, AppendProperties, LenProperties DEF SendPost
  <2> QED BY <1>2, <2>2 DEF SendPost
<1>3. CASE RunDoSend
  <2>1. /\ Head(tasks) \in Task
        /\ \A i \in DOMAIN Tail(tasks) : i \in 1..Len(Tail(tasks))
        /\ \A i \in 1..Len(Tail(tasks)) : i+1 \in DOMAIN tasks /\ Tail(tasks)[i] = tasks[i+1]
    BY <1>0, <1>3, HeadTail, LenProperties DEF RunDoSend
  <2>2. StopFirst'
    BY <1>3, <2>1 DEF RunDoSend
  <2>3. PICK m \in Messages : DoSend(m)
    BY <1>3, <2>1 DEF RunDoSend, Task, Closing
  <2>4. CASE UNCHANGED <<sendQue, writes>>
    BY <1>3, <2>2, <2>4 DEF RunDoSend
  <2>5. CASE sendQue # <<>> /\ ~bStop /\ sendQue' = Append(sendQue, m) /\ writes' = writes
    <3>1. Head(sendQue') = Head(sendQue) /\ sendQue' # <<>>
      BY <1>0, <2>5, HeadTailAppend, AppendProperties
    <3> QED BY <1>3, <2>2, <2>5, <3>1 DEF RunDoSend
  <2>6. CASE sendQue = <<>> /\ ~bStop /\ sendQue' = Append(sendQue, m)
             /\ writes' = Append(writes, Start(m))
    <3>1. writes = <<>>
      BY <1>a, <2>6
    <3>2. /\ writes' # <<>> /\ Len(writes') = 1 /\ DOMAIN writes' = {1}
          /\ writes'[1] = Start(m)
      BY <2>6, <3>1, One, StartType
    <3>3. sendQue' # <<>> /\ Head(sendQue') = m
      BY <1>0, <2>6, HeadTailAppend, AppendProperties
    <3>4. Start(m).msg = m /\ (Start(m).st = "busy" => sockOpen)
      BY DEF Start
    <3> QED BY <1>3, <2>2, <3>2, <3>3, <3>4 DEF RunDoSend
  <2> QED BY <2>3, <2>4, <2>5, <2>6 DEF DoSend
<1>4. CASE RunClose
  <2>1. /\ \A i \in DOMAIN Tail(tasks) : i \in 1..Len(Tail(tasks))
        /\ \A i \in 1..Len(Tail(tasks)) : i+1 \in DOMAIN tasks /\ Tail(tasks)[i] = tasks[i+1]
        /\ 1 \in DOMAIN tasks /\ tasks[1] = Head(tasks)
    BY <1>0, <1>4, HeadTail, LenProperties DEF RunClose
  <2>2. StopFirst' /\ bStop'
    BY <1>4, <2>1 DEF RunClose
  <2>3. /\ Len(writes') = Len(writes) /\ DOMAIN writes' = DOMAIN writes
        /\ \A i \in DOMAIN writes : writes'[i].msg = writes[i].msg /\ writes'[i].st # "busy"
    BY <1>0, <1>4, Aborting DEF RunClose
  <2> QED BY <1>4, <2>2, <2>3 DEF RunClose
<1>5. CASE HandleWriteOk
  <2> DEFINE rest == IF sendQue = <<>> THEN <<>> ELSE Tail(sendQue)
  <2>1. /\ sendQue' = rest
        /\ writes' = IF rest = <<>> THEN Tail(writes) ELSE Append(Tail(writes), Start(Head(rest)))
        /\ Tail(writes) = <<>>
        /\ UNCHANGED <<tasks, bStop, sockOpen>>
    BY <1>a, <1>5 DEF HandleWriteOk
  <2>2. CASE rest = <<>>
    BY <2>1, <2>2, EmptySeq
  <2>3. CASE rest # <<>>
    <3>1. Head(rest) \in Messages
      BY <1>0, <2>3, HeadTail
    <3>2. /\ writes' # <<>> /\ Len(writes') = 1 /\ DOMAIN writes' = {1}
          /\ writes'[1] = Start(Head(rest))
      BY <2>1, <2>3, <3>1, One, StartType
    <3>3. Start(Head(rest)).msg = Head(rest) /\ (Start(Head(rest)).st = "busy" => sockOpen)
      BY DEF Start
    <3> QED BY <2>1, <2>3, <3>2, <3>3
  <2> QED BY <2>2, <2>3
<1>6. ASSUME Close PROVE bStop' /\ \A i \in DOMAIN tasks' : tasks'[i].op = "close" => bStop'
  BY <1>6 DEF Close
<1>7. CASE HandleWriteError
  <2>1. writes' = <<>> /\ UNCHANGED <<sendQue, sockOpen>> /\ Close
    BY <1>a, <1>7 DEF HandleWriteError
  <2> QED BY <1>6, <2>1, EmptySeq
<1>8. CASE CloseCall
  BY <1>6, <1>8 DEF CloseCall
<1>9. CASE WriteCompletes
  <2>1. PICK i \in DOMAIN writes :
          writes[i].st = "busy" /\ writes' = [writes EXCEPT ![i].st = "ok"]
    BY <1>9 DEF WriteCompletes
  <2>2. i = 1 /\ writes' \in Seq(Write) /\ Len(writes') = 1
        /\ writes'[1] = [msg |-> writes[1].msg, st |-> "ok"]
    BY <1>0, <1>a, <2>1, Settling
  <2>3. DOMAIN writes' = {1} /\ writes' # <<>>
    BY <2>2, LenProperties, EmptySeq
  <2> QED BY <1>9, <1>a, <2>1, <2>2, <2>3 DEF WriteCompletes
<1>10. CASE WriteFails
  <2>1. PICK i \in DOMAIN writes :
          writes[i].st = "busy" /\ writes' = [writes EXCEPT ![i].st = "failed"]
    BY <1>10 DEF WriteFails
  <2>2. i = 1 /\ writes' \in Seq(Write) /\ Len(writes') = 1
        /\ writes'[1] = [msg |-> writes[1].msg, st |-> "failed"]
    BY <1>0, <1>a, <2>1, Settling
  <2>3. DOMAIN writes' = {1} /\ writes' # <<>>
    BY <2>2, LenProperties, EmptySeq
  <2> QED BY <1>10, <1>a, <2>1, <2>2, <2>3 DEF WriteFails
<1>11. CASE UNCHANGED vars
  BY <1>11 DEF vars
<1> QED BY <1>1, <1>2, <1>3, <1>4, <1>5, <1>7, <1>8, <1>9, <1>10, <1>11 DEF Next, IoThread

\* The invariant holds in every reachable state.
LEMMA WriteInvariance == Safety => []WriteInv
<1>1. Init => WriteInv
  BY EmptySeq DEF Init, WriteInv, OneWriteInFlight, BufferOwned, NeverStuck, StopFirst, BusyOnOpen
<1>2. TypeOK /\ WriteInv /\ [Next]_vars => WriteInv'
  BY WriteStep
<1> QED BY <1>1, <1>2, TypeCorrect, PTL DEF Safety

\* At most one async_write is outstanding, it writes the front of _sendQue, and a non-empty queue
\* of a session that is not stopped has one: for any number of senders and any queue limit.
THEOREM WritePathCorrect == Safety => [](OneWriteInFlight /\ BufferOwned /\ NeverStuck)
<1>1. WriteInv => OneWriteInFlight /\ BufferOwned /\ NeverStuck
  BY DEF WriteInv
<1> QED BY <1>1, WriteInvariance, PTL

\* The packet that is written is the queue's front, which nothing removes under the write.
THEOREM BufferOwnedAlways == Safety => []BufferOwned
BY WritePathCorrect, PTL

\* While the session runs, a queue that is not empty is being written.
THEOREM NeverStuckAlways == Safety => []NeverStuck
BY WritePathCorrect, PTL

-----------------------------------------------------------------------------
(* Nothing is lost, repeated or reordered *)

\* What a step does to what still waits, to the wire and to what was accepted: a packet is
\* accepted, the oldest waiting packet reaches the wire, or nothing changes.
AcceptStep == \E m \in Messages :
  /\ ~bStop
  /\ Len(Unsent) < MaxSendQue
  /\ Unsent' = Append(Unsent, m)
  /\ accepted' = Append(accepted, m)
  /\ UNCHANGED <<wire, bStop, sockOpen>>

WireStep ==
  /\ sockOpen
  /\ Unsent # <<>>
  /\ wire' = Append(wire, Head(Unsent))
  /\ Unsent' = Tail(Unsent)
  /\ UNCHANGED <<accepted, bStop, sockOpen>>

QuietStep == UNCHANGED <<Unsent, wire, accepted>>

\* What waits is a sequence of packets, no longer than the queue.
LEMMA UnsentType ==
  ASSUME TypeOK, WriteInv
  PROVE  /\ Unsent \in Seq(Messages)
         /\ Len(Unsent) \in Nat /\ Len(sendQue) \in Nat
         /\ Len(Unsent) <= Len(sendQue)
<1>1. sendQue \in Seq(Messages) /\ Len(sendQue) \in Nat /\ writes \in Seq(Write)
  BY LenProperties DEF TypeOK
<1>2. CASE writes # <<>> /\ writes[1].st = "ok"
  <2>1. sendQue # <<>>
    BY <1>2, SingleWrite DEF WriteInv, BufferOwned
  <2>2. Tail(sendQue) \in Seq(Messages) /\ Len(Tail(sendQue)) = Len(sendQue) - 1
    BY <1>1, <2>1, HeadTail
  <2> QED BY <1>1, <1>2, <2>2, LenProperties DEF Unsent
<1>3. CASE ~(writes # <<>> /\ writes[1].st = "ok")
  BY <1>1, <1>3 DEF Unsent
<1> QED BY <1>2, <1>3

\* Every step of the session is one of the three.
LEMMA PathStep ==
  ASSUME TypeOK, WriteInv, [Next]_vars
  PROVE  AcceptStep \/ WireStep \/ QuietStep
<1>0. /\ sendQue \in Seq(Messages) /\ writes \in Seq(Write) /\ tasks \in Seq(Task)
      /\ Len(Unsent) \in Nat /\ Len(sendQue) \in Nat /\ Len(Unsent) <= Len(sendQue)
      /\ Unsent \in Seq(Messages)
  BY UnsentType DEF TypeOK
<1>a. writes # <<>> => /\ Len(writes) = 1 /\ DOMAIN writes = {1} /\ writes[1] \in Write
                       /\ Tail(writes) = <<>>
                       /\ sendQue # <<>> /\ writes[1].msg = Head(sendQue)
  BY SingleWrite DEF WriteInv, BufferOwned
<1>b. writes = <<>> => DOMAIN writes = {}
  BY SingleWrite DEF WriteInv
<1>1. ASSUME NEW t \in Senders, SendCheck(t) \/ SendPost(t) PROVE QuietStep
  BY <1>1 DEF SendCheck, SendPost, QuietStep, Unsent
<1>2. CASE RunDoSend
  <2>1. Head(tasks) \in Task
    BY <1>0, <1>2, HeadTail DEF RunDoSend
  <2>2. PICK m \in Messages : DoSend(m)
    BY <1>2, <2>1 DEF RunDoSend, Task, Closing
  <2>3. CASE UNCHANGED <<sendQue, writes, accepted>>
    BY <1>2, <2>3 DEF RunDoSend, QuietStep, Unsent
  <2>4. CASE /\ ~bStop /\ Len(sendQue) < MaxSendQue
             /\ sendQue' = Append(sendQue, m) /\ accepted' = Append(accepted, m)
             /\ writes' = IF sendQue = <<>> THEN Append(writes, Start(m)) ELSE writes
    <3>1. Len(Unsent) < MaxSendQue
      BY <1>0, <2>4, SendQueueAssumption
    <3>2. Unsent' = Append(Unsent, m)
      <4>1. CASE sendQue = <<>>
        <5>1. writes = <<>> /\ writes'[1] = Start(m)
          BY <1>a, <2>4, <4>1, One, StartType
        <5> QED BY <2>4, <4>1, <5>1, StartType DEF Unsent
      <4>2. CASE sendQue # <<>>
        <5>1. Tail(Append(sendQue, m)) = Append(Tail(sendQue), m)
          BY <1>0, <4>2, HeadTailAppend
        <5> QED BY <2>4, <4>2, <5>1 DEF Unsent
      <4> QED BY <4>1, <4>2
    <3> QED BY <1>2, <2>4, <3>1, <3>2 DEF RunDoSend, AcceptStep
  <2> QED BY <2>2, <2>3, <2>4 DEF DoSend
<1>3. CASE RunClose
  <2>1. /\ writes' \in Seq(Write) /\ Len(writes') = Len(writes)
        /\ \A i \in DOMAIN writes : writes'[i].st = "ok" <=> writes[i].st = "ok"
    BY <1>0, <1>3, Aborting DEF RunClose
  <2>2. writes' = <<>> <=> writes = <<>>
    BY <1>0, <2>1, EmptySeq
  <2>3. Unsent' = Unsent
    BY <1>3, <1>a, <2>1, <2>2 DEF RunClose, Unsent
  <2> QED BY <1>3, <2>3 DEF RunClose, QuietStep
<1>4. CASE HandleWriteOk
  <2> DEFINE rest == IF sendQue = <<>> THEN <<>> ELSE Tail(sendQue)
  <2>1. /\ Unsent = Tail(sendQue) /\ rest = Tail(sendQue) /\ rest \in Seq(Messages)
        /\ sendQue' = rest
        /\ writes' = IF rest = <<>> THEN <<>> ELSE Append(<<>>, Start(Head(rest)))
    BY <1>0, <1>4, <1>a, HeadTail DEF HandleWriteOk, Unsent
  <2>2. CASE rest = <<>>
    BY <1>4, <2>1, <2>2 DEF HandleWriteOk, QuietStep, Unsent
  <2>3. CASE rest # <<>>
    <3>1. Head(rest) \in Messages
      BY <2>1, <2>3, HeadTail
    <3>2. writes'[1].st # "ok"
      BY <2>1, <2>3, <3>1, One, StartType
    <3> QED BY <1>4, <2>1, <3>2 DEF HandleWriteOk, QuietStep, Unsent
  <2> QED BY <2>2, <2>3
<1>5. CASE HandleWriteError
  BY <1>5, <1>a DEF HandleWriteError, QuietStep, Unsent
<1>6. CASE CloseCall
  BY <1>6 DEF CloseCall, QuietStep, Unsent
<1>7. CASE WriteCompletes
  <2>1. PICK i \in DOMAIN writes :
          /\ writes[i].st = "busy"
          /\ writes' = [writes EXCEPT ![i].st = "ok"]
          /\ wire' = Append(wire, writes[i].msg)
    BY <1>7 DEF WriteCompletes
  <2>a. writes # <<>> /\ i = 1 /\ Len(writes) = 1
    BY <1>a, <1>b
  <2>b. /\ writes' \in Seq(Write) /\ Len(writes') = Len(writes)
        /\ writes'[i] = [msg |-> writes[i].msg, st |-> "ok"]
    BY <1>0, <2>1, Settling
  <2>2. /\ writes # <<>> /\ i = 1 /\ writes' \in Seq(Write) /\ Len(writes') = 1
        /\ writes'[1].st = "ok"
    BY <2>a, <2>b
  <2>3. writes' # <<>>
    BY <2>2, EmptySeq
  <2>4. Unsent = sendQue /\ Unsent' = Tail(sendQue) /\ writes[i].msg = Head(sendQue)
    BY <1>7, <1>a, <2>1, <2>2, <2>3 DEF WriteCompletes, Unsent
  <2>5. sockOpen
    BY <2>1 DEF WriteInv, BusyOnOpen
  <2> QED BY <1>7, <1>a, <2>1, <2>2, <2>4, <2>5 DEF WriteCompletes, WireStep
<1>8. CASE WriteFails
  <2>1. PICK i \in DOMAIN writes :
          writes[i].st = "busy" /\ writes' = [writes EXCEPT ![i].st = "failed"]
    BY <1>8 DEF WriteFails
  <2>a. writes # <<>> /\ i = 1 /\ Len(writes) = 1
    BY <1>a, <1>b
  <2>b. /\ writes' \in Seq(Write) /\ Len(writes') = Len(writes)
        /\ writes'[i] = [msg |-> writes[i].msg, st |-> "failed"]
    BY <1>0, <2>1, Settling
  <2>2. /\ writes # <<>> /\ i = 1 /\ writes' \in Seq(Write) /\ Len(writes') = 1
        /\ writes'[1].st = "failed"
    BY <2>a, <2>b
  <2>3. Unsent' = Unsent
    BY <1>8, <1>a, <2>1, <2>2 DEF WriteFails, Unsent
  <2> QED BY <1>8, <2>3 DEF WriteFails, QuietStep
<1>9. CASE UNCHANGED vars
  BY <1>9 DEF vars, QuietStep, Unsent
<1> QED BY <1>1, <1>2, <1>3, <1>4, <1>5, <1>6, <1>7, <1>8, <1>9 DEF Next, IoThread

\* What was accepted is what was written followed by what waits, in every reachable state.
THEOREM FifoCorrect == Safety => []Fifo
<1>1. Init => WriteInv /\ Fifo
  <2>1. \A S : <<>> \o <<>> = <<>>
    BY EmptySeq, ConcatEmptySeq
  <2> QED BY <2>1, EmptySeq
      DEF Init, Fifo, Unsent, WriteInv, OneWriteInFlight, BufferOwned, NeverStuck, StopFirst, BusyOnOpen
<1>2. TypeOK /\ WriteInv /\ Fifo /\ [Next]_vars => WriteInv' /\ Fifo'
  <2> SUFFICES ASSUME TypeOK, WriteInv, Fifo, [Next]_vars PROVE Fifo'
    BY WriteStep
  <2>1. wire \in Seq(Messages) /\ accepted \in Seq(Messages) /\ Unsent \in Seq(Messages)
    BY UnsentType DEF TypeOK
  <2>2. CASE AcceptStep
    <3>1. PICK m \in Messages : /\ Unsent' = Append(Unsent, m)
                               /\ accepted' = Append(accepted, m) /\ wire' = wire
      BY <2>2 DEF AcceptStep
    <3>2. Append(accepted, m) = wire \o Append(Unsent, m)
      BY <2>1, AppendRight DEF Fifo
    <3> QED BY <3>1, <3>2 DEF Fifo
  <2>3. CASE WireStep
    BY <2>1, <2>3, MoveHead DEF WireStep, Fifo
  <2>4. CASE QuietStep
    BY <2>4 DEF QuietStep, Fifo
  <2> QED BY <2>2, <2>3, <2>4, PathStep
<1> QED BY <1>1, <1>2, TypeCorrect, PTL DEF Safety

-----------------------------------------------------------------------------
(* The order of one sender's packets *)

\* Every step keeps the packets of one sender in the order of its calls along the path.
LEMMA OrderStep ==
  ASSUME TypeOK, PathOrder, [Next]_vars
  PROVE  PathOrder'
<1>0. /\ tasks \in Seq(Task) /\ accepted \in Seq(Messages)
      /\ DOMAIN tasks = 1..Len(tasks) /\ DOMAIN accepted = 1..Len(accepted)
      /\ Len(tasks) \in Nat /\ Len(accepted) \in Nat
      /\ sent \in [Senders -> 0..SendLimit]
      /\ pc \in [Senders -> {"idle", "built"}]
  BY LenProperties DEF TypeOK
<1>a. /\ \A i \in DOMAIN tasks : tasks[i] \in Task
      /\ \A i \in DOMAIN accepted : accepted[i] \in Messages
  BY <1>0, ElementOfSeq
<1>b. \A i \in DOMAIN tasks : tasks[i].op = "send" => tasks[i].msg \in Messages
  BY <1>a DEF Task, Closing
<1> USE DEF PathOrder
<1>1. ASSUME NEW t \in Senders, SendCheck(t) PROVE PathOrder'
  <2>1. \A m \in Messages : Made(m, sent, pc) => Made(m, sent', pc')
    BY <1>0, <1>1, SendQueueAssumption DEF SendCheck, Made, Messages
  <2>2. TasksMade' /\ AcceptedMade'
    BY <1>1, <1>a, <1>b, <2>1 DEF SendCheck, TasksMade, AcceptedMade
  <2> QED BY <1>1, <2>2 DEF SendCheck, TasksOrdered, AcceptedFirst, Ordered
<1>2. ASSUME NEW t \in Senders, SendPost(t) PROVE PathOrder'
  <2> DEFINE new == <<t, sent[t]>>
  <2>1. /\ new \in Messages /\ Sending(new) \in Task /\ new[1] = t /\ new[2] = sent[t]
        /\ Sending(new).op = "send" /\ Sending(new).msg = new
    BY <1>2 DEF SendPost, Sending, Task, Messages, TypeOK
  <2>2. /\ DOMAIN tasks' = 1..Len(tasks) + 1
        /\ \A i \in DOMAIN tasks : tasks'[i] = tasks[i]
        /\ tasks'[Len(tasks) + 1] = Sending(new)
    <3>1. tasks' = Append(tasks, Sending(new))
      BY <1>2 DEF SendPost
    <3> QED BY <1>0, <2>1, <3>1, AppendProperties, LenProperties
  <2>3. /\ \A m \in Messages : Made(m, sent, pc) => Made(m, sent', pc')
        /\ \A m \in Messages : Made(m, sent, pc) /\ m[1] = t => m[2] < sent[t]
    BY <1>0, <1>2 DEF SendPost, Made, Messages
  <2>4. Made(new, sent', pc')
    BY <1>0, <1>2, <2>1 DEF SendPost, Made
  <2>a. accepted' = accepted
    BY <1>2 DEF SendPost
  <2> HIDE DEF new
  <2>5. TasksMade'
    BY <1>0, <1>b, <2>1, <2>2, <2>3, <2>4 DEF TasksMade
  <2>6. AcceptedMade'
    BY <1>a, <2>3, <2>a DEF AcceptedMade
  <2>7. TasksOrdered'
    <3> SUFFICES ASSUME NEW i \in 1..Len(tasks) + 1, NEW j \in 1..Len(tasks) + 1, i < j,
                        tasks'[i].op = "send", tasks'[j].op = "send",
                        tasks'[i].msg[1] = tasks'[j].msg[1]
                 PROVE  tasks'[i].msg[2] < tasks'[j].msg[2]
      BY <2>2 DEF TasksOrdered
    <3>a. \A n \in Nat : \A x, y \in 1..n+1 : x < y => x \in 1..n
      OBVIOUS
    <3>1. i \in DOMAIN tasks /\ tasks'[i] = tasks[i]
      BY <1>0, <2>2, <3>a
    <3>2. CASE j \in DOMAIN tasks
      BY <3>1, <3>2, <2>2 DEF TasksOrdered
    <3>3. CASE j \notin DOMAIN tasks
      <4>1. j = Len(tasks) + 1
        BY <1>0, <3>3
      <4>2. tasks'[j].msg = new
        BY <2>1, <2>2, <4>1
      <4>3. tasks[i].msg \in Messages /\ Made(tasks[i].msg, sent, pc) /\ tasks[i].msg[1] = t
        BY <1>b, <2>1, <3>1, <4>2 DEF TasksMade
      <4> QED BY <2>1, <2>3, <3>1, <4>2, <4>3
    <3> QED BY <3>2, <3>3
  <2>8. AcceptedFirst'
    <3> SUFFICES ASSUME NEW i \in DOMAIN accepted, NEW j \in 1..Len(tasks) + 1,
                        tasks'[j].op = "send", accepted[i][1] = tasks'[j].msg[1]
                 PROVE  accepted[i][2] < tasks'[j].msg[2]
      BY <2>2, <2>a DEF AcceptedFirst
    <3>1. CASE j \in DOMAIN tasks
      BY <3>1, <2>2 DEF AcceptedFirst
    <3>2. CASE j \notin DOMAIN tasks
      <4>1. j = Len(tasks) + 1
        BY <1>0, <3>2
      <4>2. tasks'[j].msg = new
        BY <2>1, <2>2, <4>1
      <4>3. accepted[i] \in Messages /\ Made(accepted[i], sent, pc) /\ accepted[i][1] = t
        BY <1>a, <2>1, <4>2 DEF AcceptedMade
      <4> QED BY <2>1, <2>3, <4>2, <4>3
    <3> QED BY <3>1, <3>2
  <2> QED BY <2>5, <2>6, <2>7, <2>8, <2>a DEF Ordered
<1>3. ASSUME tasks # <<>>, tasks' = Tail(tasks), UNCHANGED <<sent, pc>>,
             \/ accepted' = accepted
             \/ tasks[1].op = "send" /\ accepted' = Append(accepted, tasks[1].msg)
      PROVE  PathOrder'
  <2>1. /\ 1 \in DOMAIN tasks
        /\ DOMAIN tasks' = 1..Len(tasks) - 1
        /\ \A i \in DOMAIN tasks' : i+1 \in DOMAIN tasks /\ tasks'[i] = tasks[i+1]
    BY <1>0, <1>3, HeadTail, LenProperties
  <2>2. TasksMade'
    BY <1>3, <2>1 DEF TasksMade
  <2>3. TasksOrdered'
    BY <1>0, <2>1 DEF TasksOrdered
  <2>4. CASE accepted' = accepted
    <3>1. AcceptedFirst'
      BY <1>0, <2>1, <2>4 DEF AcceptedFirst
    <3>2. AcceptedMade' /\ Ordered(accepted')
      BY <1>3, <2>4 DEF AcceptedMade, Ordered
    <3> QED BY <2>2, <2>3, <3>1, <3>2
  <2>5. CASE tasks[1].op = "send" /\ accepted' = Append(accepted, tasks[1].msg)
    <3> DEFINE m == tasks[1].msg
    <3>1. m \in Messages
      BY <1>b, <2>1, <2>5
    <3>2. /\ DOMAIN accepted' = 1..Len(accepted) + 1
          /\ \A i \in DOMAIN accepted : accepted'[i] = accepted[i]
          /\ accepted'[Len(accepted) + 1] = m
      BY <1>0, <2>5, <3>1, AppendProperties, LenProperties
    <3>3. AcceptedFirst'
      <4> SUFFICES ASSUME NEW i \in 1..Len(accepted) + 1, NEW j \in DOMAIN tasks',
                          tasks'[j].op = "send", accepted'[i][1] = tasks'[j].msg[1]
                   PROVE  accepted'[i][2] < tasks'[j].msg[2]
        BY <3>2 DEF AcceptedFirst
      <4>1. j+1 \in DOMAIN tasks /\ 1 < j+1 /\ tasks'[j] = tasks[j+1]
        BY <1>0, <2>1
      <4>2. CASE i \in DOMAIN accepted
        BY <3>2, <4>1, <4>2 DEF AcceptedFirst
      <4>3. CASE i \notin DOMAIN accepted
        <5>1. accepted'[i] = m
          BY <1>0, <3>2, <4>3
        <5> QED BY <2>1, <2>5, <4>1, <5>1 DEF TasksOrdered
      <4> QED BY <4>2, <4>3
    <3>4. AcceptedMade'
      <4>1. Made(m, sent, pc)
        BY <2>1, <2>5 DEF TasksMade
      <4>2. \A i \in DOMAIN accepted' : i \in DOMAIN accepted \/ i = Len(accepted) + 1
        BY <1>0, <3>2
      <4>3. \A i \in DOMAIN accepted' : Made(accepted'[i], sent, pc)
        BY <3>2, <4>1, <4>2 DEF AcceptedMade
      <4> QED BY <1>3, <4>3 DEF AcceptedMade
    <3>5. Ordered(accepted')
      <4>1. \A i \in DOMAIN accepted : accepted[i][1] = m[1] => accepted[i][2] < m[2]
        BY <2>1, <2>5 DEF AcceptedFirst
      <4> HIDE DEF m
      <4> SUFFICES ASSUME NEW i \in DOMAIN accepted', NEW j \in DOMAIN accepted',
                          i < j, accepted'[i][1] = accepted'[j][1]
                   PROVE  accepted'[i][2] < accepted'[j][2]
        BY DEF Ordered
      <4>2. i \in DOMAIN accepted /\ accepted'[i] = accepted[i]
        BY <1>0, <3>2
      <4>3. CASE j \in DOMAIN accepted
        <5>1. accepted'[j] = accepted[j]
          BY <3>2, <4>3
        <5> QED BY <4>2, <4>3, <5>1 DEF Ordered
      <4>4. CASE j \notin DOMAIN accepted
        <5>1. accepted'[j] = m
          BY <1>0, <3>2, <4>4
        <5> QED BY <4>1, <4>2, <5>1
      <4> QED BY <4>3, <4>4
    <3> QED BY <2>2, <2>3, <3>3, <3>4, <3>5
  <2> QED BY <1>3, <2>4, <2>5
<1>4. CASE RunDoSend
  <2>1. Head(tasks) = tasks[1]
    BY <1>0, <1>4, HeadTail DEF RunDoSend
  <2> QED BY <1>3, <1>4, <2>1 DEF RunDoSend, DoSend
<1>5. CASE RunClose
  BY <1>3, <1>5 DEF RunClose
<1>6. ASSUME Close, UNCHANGED <<sent, pc, accepted>> PROVE PathOrder'
  <2> USE DEF TasksMade, AcceptedMade, TasksOrdered, AcceptedFirst, Ordered
  <2>1. CASE tasks' = tasks
    BY <1>6, <2>1
  <2>2. CASE tasks' = Append(tasks, Closing)
    <3>1. Closing \in Task /\ Closing.op # "send"
      BY DEF Task, Closing
    <3>2. /\ DOMAIN tasks' = 1..Len(tasks) + 1
          /\ \A i \in DOMAIN tasks : tasks'[i] = tasks[i]
          /\ tasks'[Len(tasks) + 1] = Closing
      BY <1>0, <2>2, <3>1, AppendProperties, LenProperties
    <3>3. \A i \in DOMAIN tasks' : tasks'[i].op = "send" => i \in DOMAIN tasks
      BY <1>0, <3>1, <3>2
    <3> QED BY <1>6, <3>2, <3>3
  <2> QED BY <1>6, <2>1, <2>2 DEF Close
<1>7. CASE HandleWriteError \/ CloseCall
  BY <1>6, <1>7 DEF HandleWriteError, CloseCall
<1>8. CASE UNCHANGED <<sent, pc, tasks, accepted>>
  BY <1>8 DEF TasksMade, AcceptedMade, TasksOrdered, AcceptedFirst, Ordered
<1>9. HandleWriteOk \/ WriteCompletes \/ WriteFails \/ UNCHANGED vars
      => UNCHANGED <<sent, pc, tasks, accepted>>
  BY DEF HandleWriteOk, WriteCompletes, WriteFails, vars
<1> QED BY <1>1, <1>2, <1>4, <1>5, <1>7, <1>8, <1>9 DEF Next, IoThread

\* The peer sees the packets of one sender in the order of its calls of Send, whatever other
\* threads send and whatever is dropped: for any number of senders and of calls.
THEOREM SenderOrderCorrect == Safety => []SenderOrder
<1>1. Init => PathOrder
  <2>1. \A S : DOMAIN <<>> = {}
    BY EmptySeq, LenProperties
  <2> QED BY <2>1 DEF Init, PathOrder, TasksMade, AcceptedMade, TasksOrdered, AcceptedFirst, Ordered
<1>2. TypeOK /\ PathOrder /\ [Next]_vars => PathOrder'
  BY OrderStep
<1>3. TypeOK /\ WriteInv /\ Fifo /\ PathOrder => SenderOrder
  <2> SUFFICES ASSUME TypeOK, WriteInv, Fifo, PathOrder PROVE Ordered(wire)
    BY DEF SenderOrder
  <2>1. wire \in Seq(Messages) /\ Unsent \in Seq(Messages) /\ accepted \in Seq(Messages)
    BY UnsentType DEF TypeOK
  <2>2. /\ Len(wire) \in Nat /\ Len(Unsent) \in Nat
        /\ DOMAIN wire = 1..Len(wire) /\ DOMAIN accepted = 1..Len(accepted)
        /\ Len(accepted) = Len(wire) + Len(Unsent)
        /\ \A i \in 1..Len(wire) + Len(Unsent) : i <= Len(wire) => accepted[i] = wire[i]
    BY <2>1, ConcatProperties, LenProperties DEF Fifo
  <2>3. \A i \in DOMAIN wire : i \in DOMAIN accepted /\ wire[i] = accepted[i]
    BY <2>2
  <2> QED BY <2>3 DEF PathOrder, Ordered
<1> QED BY <1>1, <1>2, <1>3, WriteInvariance, TypeCorrect, FifoCorrect, PTL DEF Safety

-----------------------------------------------------------------------------
(* The socket is closed once *)

CloseTasks == {i \in DOMAIN tasks : tasks[i].op = "close"}

\* The task that closes the socket is posted by the first Close and by no other: it waits exactly
\* while the session is stopped and the socket is still open, and there is one of it.
CloseOnce ==
  /\ \A i, j \in CloseTasks : i = j
  /\ CloseTasks # {} <=> bStop /\ sockOpen
  /\ ~sockOpen => bStop

\* A task posted joins those that wait.
LEMMA CloseTasksPosted ==
  ASSUME tasks \in Seq(Task), NEW x \in Task, tasks' = Append(tasks, x)
  PROVE  /\ x.op # "close" => CloseTasks' = CloseTasks
         /\ x.op = "close" => CloseTasks' = CloseTasks \cup {Len(tasks) + 1}
<1>1. /\ Len(tasks) \in Nat
      /\ DOMAIN tasks = 1 .. Len(tasks) /\ DOMAIN tasks' = 1 .. Len(tasks) + 1
      /\ \A i \in 1 .. Len(tasks) : tasks'[i] = tasks[i]
      /\ tasks'[Len(tasks) + 1] = x
  BY AppendProperties, LenProperties
<1>2. \A i : i \in 1 .. Len(tasks) + 1 <=> i \in 1 .. Len(tasks) \/ i = Len(tasks) + 1
  BY <1>1
<1> QED BY <1>1, <1>2 DEF CloseTasks

\* When the first task is taken, the others move up by one.
LEMMA CloseTasksTaken ==
  ASSUME tasks \in Seq(Task), tasks # <<>>, tasks' = Tail(tasks)
  PROVE  /\ Head(tasks).op = "close" <=> 1 \in CloseTasks
         /\ \A i \in CloseTasks' : i + 1 \in CloseTasks /\ i \in Nat \ {0}
         /\ \A i \in CloseTasks : i \in Nat /\ (i # 1 => i - 1 \in CloseTasks')
<1>1. /\ Len(tasks) \in Nat \ {0} /\ DOMAIN tasks = 1 .. Len(tasks)
      /\ DOMAIN tasks' = 1 .. Len(tasks) - 1
      /\ \A i \in 1 .. Len(tasks) - 1 : tasks'[i] = tasks[i + 1]
      /\ Head(tasks) = tasks[1]
  BY HeadTail, LenProperties
<1>2. 1 \in DOMAIN tasks
  BY <1>1
<1>3. ASSUME NEW i \in CloseTasks' PROVE i + 1 \in CloseTasks /\ i \in Nat \ {0}
  BY <1>1, <1>3 DEF CloseTasks
<1>4. ASSUME NEW i \in CloseTasks PROVE i \in Nat /\ (i # 1 => i - 1 \in CloseTasks')
  <2>1. i \in 1 .. Len(tasks) /\ tasks[i].op = "close"
    BY <1>1 DEF CloseTasks
  <2>2. ASSUME i # 1 PROVE i - 1 \in DOMAIN tasks' /\ tasks'[i - 1] = tasks[i]
    <3>1. i - 1 \in 1 .. Len(tasks) - 1 /\ (i - 1) + 1 = i
      BY <1>1, <2>1, <2>2
    <3> QED BY <1>1, <3>1
  <2> QED BY <2>1, <2>2 DEF CloseTasks
<1> QED BY <1>1, <1>2, <1>3, <1>4 DEF CloseTasks

\* Every step keeps it so: above all, Close posts nothing the second time it is called.
LEMMA CloseOnceStep ==
  ASSUME TypeOK, CloseOnce, [Next]_vars
  PROVE  CloseOnce'
<1>0. tasks \in Seq(Task) /\ bStop \in BOOLEAN /\ sockOpen \in BOOLEAN
  BY DEF TypeOK
<1>1. CASE UNCHANGED <<tasks, bStop, sockOpen>>
  BY <1>1 DEF CloseOnce, CloseTasks
<1>2. ASSUME NEW t \in Senders, SendPost(t) PROVE CloseOnce'
  <2>1. Sending(<<t, sent[t]>>) \in Task /\ Sending(<<t, sent[t]>>).op # "close"
    BY <1>2 DEF SendPost, Sending, Task, Messages, TypeOK
  <2>2. CloseTasks' = CloseTasks /\ UNCHANGED <<bStop, sockOpen>>
    BY <1>0, <1>2, <2>1, CloseTasksPosted DEF SendPost
  <2> QED BY <2>2 DEF CloseOnce
<1>3. CASE RunDoSend
  <2>1. tasks # <<>> /\ tasks' = Tail(tasks) /\ Head(tasks).op # "close" /\ UNCHANGED <<bStop, sockOpen>>
    BY <1>3 DEF RunDoSend
  <2>2. /\ 1 \notin CloseTasks
        /\ \A i \in CloseTasks' : i + 1 \in CloseTasks /\ i \in Nat \ {0}
        /\ \A i \in CloseTasks : i - 1 \in CloseTasks'
    BY <1>0, <2>1, CloseTasksTaken
  <2>3. \A i, j \in CloseTasks' : i = j
    <3> SUFFICES ASSUME NEW i \in CloseTasks', NEW j \in CloseTasks' PROVE i = j
      OBVIOUS
    <3>1. i + 1 = j + 1 /\ i \in Nat /\ j \in Nat
      BY <2>2 DEF CloseOnce
    <3> QED BY <3>1
  <2>4. CloseTasks' # {} <=> CloseTasks # {}
    BY <2>2
  <2> QED BY <2>1, <2>3, <2>4 DEF CloseOnce
<1>4. CASE RunClose
  <2>1. /\ tasks # <<>> /\ tasks' = Tail(tasks) /\ Head(tasks).op = "close"
        /\ sockOpen' = FALSE /\ bStop' = bStop
    BY <1>4 DEF RunClose
  <2>2. 1 \in CloseTasks /\ \A i \in CloseTasks' : i + 1 \in CloseTasks /\ i \in Nat \ {0}
    BY <1>0, <2>1, CloseTasksTaken
  <2>3. CloseTasks' = {}
    <3> SUFFICES ASSUME NEW i \in CloseTasks' PROVE FALSE
      OBVIOUS
    <3>1. i + 1 = 1 /\ i \in Nat \ {0}
      BY <2>2 DEF CloseOnce
    <3> QED BY <3>1
  <2>4. bStop
    BY <2>2 DEF CloseOnce
  <2> QED BY <2>1, <2>3, <2>4 DEF CloseOnce
<1>5. ASSUME Close, UNCHANGED sockOpen PROVE CloseOnce'
  <2>1. CASE bStop
    BY <1>0, <1>5, <2>1 DEF Close, CloseOnce, CloseTasks
  <2>2. CASE ~bStop
    <3>1. Closing \in Task /\ Closing.op = "close" /\ tasks' = Append(tasks, Closing) /\ bStop'
      BY <1>5, <2>2 DEF Close, Closing, Task
    <3>2. CloseTasks = {} /\ sockOpen
      BY <2>2 DEF CloseOnce
    <3>3. CloseTasks' = {Len(tasks) + 1}
      <4>1. CloseTasks' = CloseTasks \cup {Len(tasks) + 1}
        BY <1>0, <3>1, CloseTasksPosted
      <4> QED BY <3>2, <4>1
    <3> QED BY <1>5, <3>1, <3>2, <3>3 DEF CloseOnce
  <2> QED BY <1>0, <2>1, <2>2
<1>6. CASE CloseCall \/ HandleWriteError
  BY <1>5, <1>6 DEF CloseCall, HandleWriteError
<1>7. (\E t \in Senders : SendCheck(t)) \/ HandleWriteOk \/ WriteCompletes \/ WriteFails \/ UNCHANGED vars
      => UNCHANGED <<tasks, bStop, sockOpen>>
  BY DEF SendCheck, HandleWriteOk, WriteCompletes, WriteFails, vars
<1> QED BY <1>1, <1>2, <1>3, <1>4, <1>6, <1>7 DEF Next, IoThread

\* However many handlers call Close, and in whatever order: the socket of a stopped session is
\* closed or its closing is posted, and it is closed once.  (That it is then closed is StopCloses.)
THEOREM CloseOnceAlways == Safety => []CloseOnce
<1>1. Init => CloseOnce
  <2> SUFFICES ASSUME Init PROVE CloseOnce
    OBVIOUS
  <2>1. CloseTasks = {} /\ bStop = FALSE /\ sockOpen = TRUE
    BY EmptySeq DEF Init, CloseTasks
  <2> QED BY <2>1 DEF CloseOnce
<1>2. TypeOK /\ CloseOnce /\ [Next]_vars => CloseOnce'
  BY CloseOnceStep
<1> QED BY <1>1, <1>2, TypeCorrect, PTL DEF Safety

\* What was accepted has reached the wire, or waits behind a write that is outstanding; only a
\* session that was stopped keeps a packet that nothing will send.
AcceptedOnTheWay ==
  \A i \in DOMAIN accepted :
    \/ \E j \in DOMAIN wire : wire[j] = accepted[i]
    \/ bStop
    \/ writes # <<>> /\ \E j \in DOMAIN Unsent : Unsent[j] = accepted[i]

\* An accepted packet of a session that runs is never left without a write that leads to it: the
\* safety half of AcceptedSettles.
THEOREM AcceptedOnTheWayAlways == Safety => []AcceptedOnTheWay
<1>1. TypeOK /\ WriteInv /\ Fifo => AcceptedOnTheWay
  <2> SUFFICES ASSUME TypeOK, WriteInv, Fifo, NEW i \in DOMAIN accepted,
                      ~\E j \in DOMAIN wire : wire[j] = accepted[i], ~bStop
               PROVE  writes # <<>> /\ \E j \in DOMAIN Unsent : Unsent[j] = accepted[i]
    BY DEF AcceptedOnTheWay
  <2>1. wire \in Seq(Messages) /\ Unsent \in Seq(Messages) /\ accepted \in Seq(Messages)
    BY UnsentType DEF TypeOK
  <2>2. /\ Len(wire) \in Nat /\ Len(Unsent) \in Nat
        /\ DOMAIN wire = 1 .. Len(wire) /\ DOMAIN Unsent = 1 .. Len(Unsent)
        /\ DOMAIN accepted = 1 .. Len(wire) + Len(Unsent)
        /\ \A k \in 1 .. Len(wire) + Len(Unsent) :
             accepted[k] = IF k <= Len(wire) THEN wire[k] ELSE Unsent[k - Len(wire)]
    BY <2>1, ConcatProperties, LenProperties DEF Fifo
  <2>3. i \in 1 .. Len(wire) + Len(Unsent) /\ ~(i <= Len(wire))
    BY <2>2
  <2>4. i - Len(wire) \in DOMAIN Unsent /\ Unsent[i - Len(wire)] = accepted[i]
    BY <2>2, <2>3
  <2>5. writes # <<>>
    <3>1. Unsent # <<>>
      BY <2>2, <2>4, EmptySeq
    <3> QED BY <3>1 DEF WriteInv, NeverStuck, Unsent
  <2> QED BY <2>4, <2>5
<1> QED BY <1>1, TypeCorrect, WriteInvariance, FifoCorrect, PTL

-----------------------------------------------------------------------------
(* The send path implements the bounded channel *)

\* Each step of the send path is a step of SendChannel, or changes nothing SendChannel sees: for
\* any number of senders, any queue limit, and whatever the network and the other handlers do.
THEOREM ImplementsChannel == Safety => ChannelSafety
<1> USE DEF Channel!vars
<1>1. Init => WriteInv /\ Channel!Init
  BY EmptySeq DEF Init, Channel!Init, Unsent, WriteInv, OneWriteInFlight, BufferOwned,
                  NeverStuck, StopFirst, BusyOnOpen
<1>2. TypeOK /\ WriteInv /\ [Next]_vars => WriteInv' /\ [Channel!Next]_(Channel!vars)
  <2> SUFFICES ASSUME TypeOK, WriteInv, [Next]_vars PROVE [Channel!Next]_(Channel!vars)
    BY WriteStep
  <2>1. CASE AcceptStep
    BY <2>1 DEF AcceptStep, Channel!Next, Channel!Accept
  <2>2. CASE WireStep
    BY <2>2 DEF WireStep, Channel!Next, Channel!Deliver
  <2>3. CASE QuietStep
    <3>1. \/ UNCHANGED <<bStop, sockOpen>>
          \/ bStop' /\ UNCHANGED sockOpen
          \/ bStop /\ bStop' /\ ~sockOpen'
      <4>1. CASE RunClose
        <5>1. 1 \in DOMAIN tasks /\ tasks[1] = Head(tasks)
          BY <4>1, HeadTail, LenProperties DEF RunClose, TypeOK
        <5> QED BY <4>1, <5>1 DEF RunClose, WriteInv, StopFirst
      <4>2. CASE ~RunClose
        BY <4>2 DEF Next, IoThread, SendCheck, SendPost, RunDoSend, HandleWriteOk, HandleWriteError,
                    CloseCall, Close, WriteCompletes, WriteFails, vars
      <4> QED BY <4>1, <4>2
    <3>2. /\ bStop \in BOOLEAN /\ sockOpen \in BOOLEAN /\ bStop' \in BOOLEAN
          /\ ~sockOpen => bStop
      <4>1. TypeOK'
        BY TypeStep
      <4> QED BY <4>1 DEF TypeOK, WriteInv, StopFirst
    <3> QED BY <2>3, <3>1, <3>2 DEF QuietStep, Channel!Next, Channel!Stop, Channel!Shut
  <2> QED BY <2>1, <2>2, <2>3, PathStep
<1> QED BY <1>1, <1>2, TypeCorrect, PTL DEF Safety, ChannelSafety, Channel!Safety
=============================================================================
