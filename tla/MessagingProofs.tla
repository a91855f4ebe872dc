--------------------------- MODULE MessagingProofs ---------------------------
(***************************************************************************)
(* Proofs about Messaging, for any sessions, any scripts and any bound.    *)
(* The invariant is stated of its operands (tasks tk, wires wr, LogicSystem's *)
(* queue qu, requests read rd, handlers that await aw, scripts sc), because *)
(* a service's coroutine changes the tasks more than once in a step.       *)
(***************************************************************************)
EXTENDS Messaging, TLAPS

-----------------------------------------------------------------------------
(* The inductive invariant *)

\* Packet p is on r's wire, or its DoSend is posted to r's io_context.
Sending(tk, r, p) == \E i \in DOMAIN tk[r] : tk[r][i].op = "send" /\ tk[r][i].packet = p
IsSent(tk, wr, r, p) == (\E i \in DOMAIN wr[r] : wr[r][i] = p) \/ Sending(tk, r, p)

\* Request n of s waits to be handled.
Handling(tk, s, n) == \E i \in DOMAIN tk[s] : tk[s][i].op = "handle" /\ tk[s][i].packet.seq = n
Queued(qu, s, n) == \E i \in DOMAIN qu : qu[i] = <<s, n>>
Pending(tk, qu, s, n) == Handling(tk, s, n) \/ Queued(qu, s, n)

\* p may come before q in what r is sent: the body of Delivery.
OfDatabase(sc, r, p) == p.what # "message" /\ sc[r][p.seq].kind = "db"
InOrder(sc, r, p, q) ==
  p.src = q.src /\ ((p.what = "message") <=> (q.what = "message")) =>
    p.seq < q.seq \/ (p.seq # q.seq /\ (OfDatabase(sc, r, p) \/ OfDatabase(sc, r, q)))

\* What is sent, or will be, is in order.
SentInOrder(sc, tk, wr) ==
  \A r \in Sessions :
    /\ \A i, j \in DOMAIN wr[r] : i < j => InOrder(sc, r, wr[r][i], wr[r][j])
    /\ \A i \in DOMAIN wr[r], j \in DOMAIN tk[r] :
         tk[r][j].op = "send" => InOrder(sc, r, wr[r][i], tk[r][j].packet)
    /\ \A i, j \in DOMAIN tk[r] :
         i < j /\ tk[r][i].op = "send" /\ tk[r][j].op = "send" =>
           InOrder(sc, r, tk[r][i].packet, tk[r][j].packet)

\* Requests are handled in the order they were read in, also when they pass through LogicSystem.
HandledInOrder(tk, qu) ==
  \A s \in Sessions :
    /\ \A i, j \in DOMAIN tk[s] :
         i < j /\ tk[s][i].op = "handle" /\ tk[s][j].op = "handle" =>
           tk[s][i].packet.seq < tk[s][j].packet.seq
    /\ \A m, n \in Nat : Handling(tk, s, m) /\ Queued(qu, s, n) => m < n
    /\ \A i, j \in DOMAIN qu : i < j /\ qu[i][1] = s /\ qu[j][1] = s => qu[i][2] < qu[j][2]

\* A request is read before it waits, waits before anything is sent for it, and a reply goes to the
\* requester, after the executor's answer if there is one to wait for.
OneAtATime(sc, tk, wr, qu, rd, aw) ==
  /\ \A s \in Sessions, n \in Nat : Pending(tk, qu, s, n) => 1 <= n /\ n <= rd[s]
  /\ \A r \in Sessions, p \in Packets : IsSent(tk, wr, r, p) =>
       /\ 1 <= p.seq /\ p.seq <= rd[p.src]
       /\ \A n \in Nat : Pending(tk, qu, p.src, n) => p.seq < n
       /\ p.what # "message" => p.src = r /\ p.seq \notin aw[r]
  /\ \A s \in Sessions : \A m \in aw[s] :
       /\ 1 <= m /\ m <= rd[s] /\ sc[s][m].kind = "db"
       /\ \A n \in Nat : Pending(tk, qu, s, n) => m < n

Orderly(sc, tk, wr, qu, rd, aw) ==
  SentInOrder(sc, tk, wr) /\ HandledInOrder(tk, qu) /\ OneAtATime(sc, tk, wr, qu, rd, aw)

Typed(tk, wr, qu, rd, aw) ==
  /\ tk \in [Sessions -> Seq(Tasks)] /\ wr \in [Sessions -> Seq(Packets)]
  /\ qu \in Seq(Sessions \X Nat)
  /\ rd \in [Sessions -> Nat] /\ aw \in [Sessions -> SUBSET Nat]

\* Request n of s is the one that is being handled: it comes after all that was, before all that waits.
Current(tk, wr, qu, rd, aw, s, n) ==
  /\ 1 <= n /\ n <= rd[s]
  /\ \A m \in Nat : Pending(tk, qu, s, m) => n < m
  /\ \A r \in Sessions, p \in Packets : IsSent(tk, wr, r, p) /\ p.src = s => p.seq < n
  /\ \A m \in aw[s] : m < n

-----------------------------------------------------------------------------
(* What posting a task and taking one does *)

Posted(tk, r, x) == [tk EXCEPT ![r] = Append(tk[r], x)]
Taken(tk, s) == [tk EXCEPT ![s] = Tail(tk[s])]

\* One element more.
LEMMA AppendFacts ==
  ASSUME NEW S, NEW q \in Seq(S), NEW e \in S
  PROVE  /\ Append(q, e) \in Seq(S)
         /\ \A i \in DOMAIN q : i \in DOMAIN Append(q, e) /\ Append(q, e)[i] = q[i] /\ i < Len(q) + 1
         /\ Len(q) + 1 \in DOMAIN Append(q, e) /\ Append(q, e)[Len(q) + 1] = e
         /\ \A i \in DOMAIN Append(q, e) : i \in DOMAIN q \/ i = Len(q) + 1
         /\ DOMAIN Append(q, e) \subseteq Nat /\ DOMAIN q \subseteq Nat /\ Len(q) \in Nat
OBVIOUS

\* One element less.
LEMMA TailFacts ==
  ASSUME NEW S, NEW q \in Seq(S), q # <<>>
  PROVE  /\ Tail(q) \in Seq(S) /\ Head(q) \in S
         /\ 1 \in DOMAIN q /\ q[1] = Head(q)
         /\ \A i \in DOMAIN Tail(q) : i + 1 \in DOMAIN q /\ Tail(q)[i] = q[i + 1] /\ 1 < i + 1
         /\ \A i \in DOMAIN q : i = 1 \/ (i - 1 \in DOMAIN Tail(q) /\ Tail(q)[i - 1] = q[i])
         /\ DOMAIN Tail(q) \subseteq Nat /\ DOMAIN q \subseteq Nat
OBVIOUS

\* tk2 is tk with task x posted to r.
IsPosted(tk, tk2, r, x) ==
  /\ tk2 \in [Sessions -> Seq(Tasks)]
  /\ \A u \in Sessions : u # r => tk2[u] = tk[u]
  /\ \A i \in DOMAIN tk[r] : i \in DOMAIN tk2[r] /\ tk2[r][i] = tk[r][i] /\ i < Len(tk[r]) + 1
  /\ Len(tk[r]) + 1 \in DOMAIN tk2[r] /\ tk2[r][Len(tk[r]) + 1] = x
  /\ \A i \in DOMAIN tk2[r] : i \in DOMAIN tk[r] \/ i = Len(tk[r]) + 1
  /\ DOMAIN tk2[r] \subseteq Nat /\ Len(tk[r]) \in Nat

\* tk2 is tk without the first task of s.
IsTaken(tk, tk2, s) ==
  /\ tk2 \in [Sessions -> Seq(Tasks)] /\ Head(tk[s]) \in Tasks
  /\ \A u \in Sessions : u # s => tk2[u] = tk[u]
  /\ 1 \in DOMAIN tk[s] /\ tk[s][1] = Head(tk[s])
  /\ \A i \in DOMAIN tk2[s] : i + 1 \in DOMAIN tk[s] /\ tk2[s][i] = tk[s][i + 1] /\ 1 < i + 1
  /\ \A i \in DOMAIN tk[s] : i = 1 \/ (i - 1 \in DOMAIN tk2[s] /\ tk2[s][i - 1] = tk[s][i])
  /\ DOMAIN tk2[s] \subseteq Nat

\* Posting to r leaves the other io_contexts alone.
LEMMA PostFacts ==
  ASSUME NEW tk \in [Sessions -> Seq(Tasks)], NEW r \in Sessions, NEW x \in Tasks
  PROVE  IsPosted(tk, Posted(tk, r, x), r, x)
<1>1. tk[r] \in Seq(Tasks)
  OBVIOUS
<1>2. /\ Posted(tk, r, x)[r] = Append(tk[r], x)
      /\ \A u \in Sessions : u # r => Posted(tk, r, x)[u] = tk[u]
  BY DEF Posted
<1> HIDE DEF Tasks
<1>3. Posted(tk, r, x) \in [Sessions -> Seq(Tasks)]
  BY <1>1, AppendFacts DEF Posted
<1> QED BY <1>1, <1>2, <1>3, AppendFacts DEF IsPosted

\* Taking the first task of s leaves the other io_contexts alone.
LEMMA TakeFacts ==
  ASSUME NEW tk \in [Sessions -> Seq(Tasks)], NEW s \in Sessions, tk[s] # <<>>
  PROVE  IsTaken(tk, Taken(tk, s), s)
<1>1. tk[s] \in Seq(Tasks)
  OBVIOUS
<1>2. Taken(tk, s)[s] = Tail(tk[s]) /\ \A u \in Sessions : u # s => Taken(tk, s)[u] = tk[u]
  BY DEF Taken
<1>3. Taken(tk, s) \in [Sessions -> Seq(Tasks)]
  BY <1>1, TailFacts DEF Taken
<1> QED BY <1>1, <1>2, <1>3, TailFacts DEF IsTaken

\* What is sent and what waits after a task is posted.
LEMMA PostedTasks ==
  ASSUME NEW tk \in [Sessions -> Seq(Tasks)], NEW r \in Sessions, NEW x \in Tasks,
         NEW tk2, tk2 = Posted(tk, r, x)
  PROVE  /\ \A u \in Sessions : \A p : Sending(tk2, u, p) <=>
              Sending(tk, u, p) \/ (u = r /\ x.op = "send" /\ x.packet = p)
         /\ \A u \in Sessions : \A n : Handling(tk2, u, n) <=>
              Handling(tk, u, n) \/ (u = r /\ x.op = "handle" /\ x.packet.seq = n)
<1> HIDE DEF Tasks
<1>0. IsPosted(tk, tk2, r, x)
  BY PostFacts
<1>1. ASSUME NEW u \in Sessions, NEW p
      PROVE  Sending(tk2, u, p) <=> Sending(tk, u, p) \/ (u = r /\ x.op = "send" /\ x.packet = p)
  <2>1. CASE u # r
    BY <1>0, <2>1 DEF Sending, IsPosted
  <2>2. CASE u = r
    BY <1>0, <2>2 DEF Sending, IsPosted
  <2> QED BY <2>1, <2>2
<1>2. ASSUME NEW u \in Sessions, NEW n
      PROVE  Handling(tk2, u, n) <=> Handling(tk, u, n) \/ (u = r /\ x.op = "handle" /\ x.packet.seq = n)
  <2>1. CASE u # r
    BY <1>0, <2>1 DEF Handling, IsPosted
  <2>2. CASE u = r
    BY <1>0, <2>2 DEF Handling, IsPosted
  <2> QED BY <2>1, <2>2
<1> QED BY <1>1, <1>2

\* What is sent and what waits after a task is taken.
LEMMA TakenTasks ==
  ASSUME NEW tk \in [Sessions -> Seq(Tasks)], NEW s \in Sessions, tk[s] # <<>>,
         NEW tk2, tk2 = Taken(tk, s)
  PROVE  /\ \A u \in Sessions : \A p : Sending(tk, u, p) <=>
              Sending(tk2, u, p) \/ (u = s /\ Head(tk[s]).op = "send" /\ Head(tk[s]).packet = p)
         /\ \A u \in Sessions : \A n : Handling(tk, u, n) <=>
              Handling(tk2, u, n) \/ (u = s /\ Head(tk[s]).op = "handle" /\ Head(tk[s]).packet.seq = n)
<1> HIDE DEF Tasks
<1>0. IsTaken(tk, tk2, s)
  BY TakeFacts
<1>1. ASSUME NEW u \in Sessions, NEW p
      PROVE  Sending(tk, u, p) <=>
               Sending(tk2, u, p) \/ (u = s /\ Head(tk[s]).op = "send" /\ Head(tk[s]).packet = p)
  <2>1. CASE u # s
    BY <1>0, <2>1 DEF Sending, IsTaken
  <2>2. CASE u = s
    <3>1. ASSUME Sending(tk, s, p) PROVE Sending(tk2, s, p) \/ (Head(tk[s]).op = "send" /\ Head(tk[s]).packet = p)
      <4>1. PICK i \in DOMAIN tk[s] : tk[s][i].op = "send" /\ tk[s][i].packet = p
        BY <3>1 DEF Sending
      <4>2. CASE i = 1
        BY <1>0, <4>1, <4>2 DEF IsTaken
      <4>3. CASE i - 1 \in DOMAIN tk2[s] /\ tk2[s][i - 1] = tk[s][i]
        BY <4>1, <4>3 DEF Sending
      <4> QED BY <1>0, <4>2, <4>3 DEF IsTaken
    <3>2. ASSUME Sending(tk2, s, p) PROVE Sending(tk, s, p)
      BY <1>0, <3>2 DEF Sending, IsTaken
    <3>3. ASSUME Head(tk[s]).op = "send" /\ Head(tk[s]).packet = p PROVE Sending(tk, s, p)
      BY <1>0, <3>3 DEF Sending, IsTaken
    <3> QED BY <2>2, <3>1, <3>2, <3>3
  <2> QED BY <2>1, <2>2
<1>2. ASSUME NEW u \in Sessions, NEW n
      PROVE  Handling(tk, u, n) <=>
               Handling(tk2, u, n) \/ (u = s /\ Head(tk[s]).op = "handle" /\ Head(tk[s]).packet.seq = n)
  <2>1. CASE u # s
    BY <1>0, <2>1 DEF Handling, IsTaken
  <2>2. CASE u = s
    <3>1. ASSUME Handling(tk, s, n) PROVE Handling(tk2, s, n) \/ (Head(tk[s]).op = "handle" /\ Head(tk[s]).packet.seq = n)
      <4>1. PICK i \in DOMAIN tk[s] : tk[s][i].op = "handle" /\ tk[s][i].packet.seq = n
        BY <3>1 DEF Handling
      <4>2. CASE i = 1
        BY <1>0, <4>1, <4>2 DEF IsTaken
      <4>3. CASE i - 1 \in DOMAIN tk2[s] /\ tk2[s][i - 1] = tk[s][i]
        BY <4>1, <4>3 DEF Handling
      <4> QED BY <1>0, <4>2, <4>3 DEF IsTaken
    <3>2. ASSUME Handling(tk2, s, n) PROVE Handling(tk, s, n)
      BY <1>0, <3>2 DEF Handling, IsTaken
    <3>3. ASSUME Head(tk[s]).op = "handle" /\ Head(tk[s]).packet.seq = n PROVE Handling(tk, s, n)
      BY <1>0, <3>3 DEF Handling, IsTaken
    <3> QED BY <2>2, <3>1, <3>2, <3>3
  <2> QED BY <2>1, <2>2
<1> QED BY <1>1, <1>2

-----------------------------------------------------------------------------
(* What keeps the order *)

\* A task that handles no request leaves the order of those that do.
LEMMA PostedNoRequest ==
  ASSUME NEW tk \in [Sessions -> Seq(Tasks)], NEW qu, NEW r \in Sessions, NEW x \in Tasks,
         x.op # "handle", HandledInOrder(tk, qu),
         NEW tk2, tk2 = Posted(tk, r, x)
  PROVE  HandledInOrder(tk2, qu)
<1> HIDE DEF Tasks
<1>0. IsPosted(tk, tk2, r, x)
  BY PostFacts
<1>1. \A u \in Sessions : \A n : Handling(tk2, u, n) => Handling(tk, u, n)
  <2>1. \A u \in Sessions : \A n : Handling(tk2, u, n) <=>
          Handling(tk, u, n) \/ (u = r /\ x.op = "handle" /\ x.packet.seq = n)
    BY PostedTasks
  <2> QED BY <2>1
<1>2. ASSUME NEW u \in Sessions, NEW i \in DOMAIN tk2[u], NEW j \in DOMAIN tk2[u],
             i < j, tk2[u][i].op = "handle", tk2[u][j].op = "handle"
      PROVE  tk2[u][i].packet.seq < tk2[u][j].packet.seq
  <2>1. CASE u # r
    BY <1>0, <1>2, <2>1 DEF HandledInOrder, IsPosted
  <2>2. CASE u = r
    <3>1. i \in DOMAIN tk[r] /\ j \in DOMAIN tk[r] /\ tk2[r][i] = tk[r][i] /\ tk2[r][j] = tk[r][j]
      BY <1>0, <1>2, <2>2 DEF IsPosted
    <3> QED BY <1>2, <2>2, <3>1 DEF HandledInOrder
  <2> QED BY <2>1, <2>2
<1> QED BY <1>1, <1>2 DEF HandledInOrder

\* A task that sends nothing leaves the order of those that do.
LEMMA PostedNoPacket ==
  ASSUME NEW sc, NEW wr, NEW tk \in [Sessions -> Seq(Tasks)], NEW r \in Sessions, NEW x \in Tasks,
         x.op # "send", SentInOrder(sc, tk, wr),
         NEW tk2, tk2 = Posted(tk, r, x)
  PROVE  SentInOrder(sc, tk2, wr)
<1> HIDE DEF Tasks
<1>0. IsPosted(tk, tk2, r, x)
  BY PostFacts
<1>1. \A u \in Sessions : \A i \in DOMAIN tk2[u] : tk2[u][i].op = "send" =>
        i \in DOMAIN tk[u] /\ tk2[u][i] = tk[u][i]
  <2>1. ASSUME NEW i \in DOMAIN tk2[r], tk2[r][i].op = "send" PROVE i \in DOMAIN tk[r] /\ tk2[r][i] = tk[r][i]
    BY <1>0, <2>1 DEF IsPosted
  <2>2. \A u \in Sessions : u # r => tk2[u] = tk[u]
    BY <1>0 DEF IsPosted
  <2> QED BY <2>1, <2>2
<1> QED BY <1>1 DEF SentInOrder

\* Where less is sent, waits and is awaited, what is read before is.
LEMMA FewerAtATime ==
  ASSUME NEW sc, NEW tk, NEW wr, NEW qu, NEW rd, NEW aw, NEW tk2, NEW wr2, NEW qu2, NEW aw2,
         OneAtATime(sc, tk, wr, qu, rd, aw),
         \A u \in Sessions, p \in Packets : IsSent(tk2, wr2, u, p) => IsSent(tk, wr, u, p),
         \A u \in Sessions, n \in Nat : Pending(tk2, qu2, u, n) => Pending(tk, qu, u, n),
         \A u \in Sessions : aw2[u] \subseteq aw[u]
  PROVE  OneAtATime(sc, tk2, wr2, qu2, rd, aw2)
<1>1. \A u \in Sessions, n \in Nat : Pending(tk2, qu2, u, n) => 1 <= n /\ n <= rd[u]
  BY DEF OneAtATime
<1>2. ASSUME NEW u \in Sessions, NEW p \in Packets, IsSent(tk2, wr2, u, p)
      PROVE  /\ 1 <= p.seq /\ p.seq <= rd[p.src]
             /\ \A n \in Nat : Pending(tk2, qu2, p.src, n) => p.seq < n
             /\ p.what # "message" => p.src = u /\ p.seq \notin aw2[u]
  <2>1. p.src \in Sessions /\ IsSent(tk, wr, u, p)
    BY <1>2 DEF Packets
  <2> QED BY <2>1 DEF OneAtATime
<1>3. \A u \in Sessions : \A m \in aw2[u] :
        /\ 1 <= m /\ m <= rd[u] /\ sc[u][m].kind = "db"
        /\ \A n \in Nat : Pending(tk2, qu2, u, n) => m < n
  BY DEF OneAtATime
<1> QED BY <1>1, <1>2, <1>3 DEF OneAtATime

\* A packet is posted that comes after all that its receiver is sent and before what waits.
LEMMA PostedSend ==
  ASSUME NEW sc, NEW tk, NEW wr, NEW qu, NEW rd, NEW aw,
         Typed(tk, wr, qu, rd, aw), Orderly(sc, tk, wr, qu, rd, aw),
         NEW r \in Sessions, NEW q \in Packets,
         1 <= q.seq /\ q.seq <= rd[q.src],
         \A n \in Nat : Pending(tk, qu, q.src, n) => q.seq < n,
         q.what # "message" => q.src = r /\ q.seq \notin aw[r],
         \A p \in Packets : IsSent(tk, wr, r, p) => InOrder(sc, r, p, q)
  PROVE  /\ Orderly(sc, Posted(tk, r, Task("send", q)), wr, qu, rd, aw)
         /\ Typed(Posted(tk, r, Task("send", q)), wr, qu, rd, aw)
         /\ \A u \in Sessions : \A p : IsSent(Posted(tk, r, Task("send", q)), wr, u, p) <=>
              IsSent(tk, wr, u, p) \/ (u = r /\ p = q)
         /\ \A u \in Sessions : \A n : Pending(Posted(tk, r, Task("send", q)), qu, u, n) <=> Pending(tk, qu, u, n)
<1> DEFINE tk2 == Posted(tk, r, Task("send", q))
<1> DEFINE x == Task("send", q)
<1>1. x \in Tasks /\ x.op = "send" /\ x.packet = q
  BY DEF Task, Tasks
<1> HIDE DEF x
<1>2. tk \in [Sessions -> Seq(Tasks)] /\ tk2 = Posted(tk, r, x)
  BY DEF Typed, x
<1>3. /\ \A u \in Sessions : \A p : Sending(tk2, u, p) <=> Sending(tk, u, p) \/ (u = r /\ p = q)
      /\ \A u \in Sessions : \A n : Handling(tk2, u, n) <=> Handling(tk, u, n)
  <2>1. /\ \A u \in Sessions : \A p : Sending(tk2, u, p) <=>
             Sending(tk, u, p) \/ (u = r /\ x.op = "send" /\ x.packet = p)
        /\ \A u \in Sessions : \A n : Handling(tk2, u, n) <=>
             Handling(tk, u, n) \/ (u = r /\ x.op = "handle" /\ x.packet.seq = n)
    BY <1>1, <1>2, PostedTasks
  <2> QED BY <1>1, <2>1
<1>0. IsPosted(tk, tk2, r, x)
  BY <1>1, <1>2, PostFacts
<1>4. \A u \in Sessions : \A p : IsSent(tk2, wr, u, p) <=> IsSent(tk, wr, u, p) \/ (u = r /\ p = q)
  BY <1>3 DEF IsSent
<1>5. \A u \in Sessions : \A n : Pending(tk2, qu, u, n) <=> Pending(tk, qu, u, n)
  BY <1>3 DEF Pending
<1>6. Typed(tk2, wr, qu, rd, aw)
  BY <1>0 DEF Typed, IsPosted
<1>7. \A u \in Sessions : u # r => tk2[u] = tk[u]
  BY <1>0 DEF IsPosted
<1>8. SentInOrder(sc, tk2, wr)
  <2> SUFFICES ASSUME NEW u \in Sessions
               PROVE  /\ \A i, j \in DOMAIN wr[u] : i < j => InOrder(sc, u, wr[u][i], wr[u][j])
                      /\ \A i \in DOMAIN wr[u], j \in DOMAIN tk2[u] :
                           tk2[u][j].op = "send" => InOrder(sc, u, wr[u][i], tk2[u][j].packet)
                      /\ \A i, j \in DOMAIN tk2[u] :
                           i < j /\ tk2[u][i].op = "send" /\ tk2[u][j].op = "send" =>
                             InOrder(sc, u, tk2[u][i].packet, tk2[u][j].packet)
    BY DEF SentInOrder
  <2>1. SentInOrder(sc, tk, wr)
    BY DEF Orderly
  <2>2. CASE u # r
    BY <1>7, <2>1, <2>2 DEF SentInOrder
  <2>3. CASE u = r
    <3>1. \A i \in DOMAIN wr[r] : InOrder(sc, r, wr[r][i], q)
      BY DEF IsSent, Typed
    <3>2. \A i \in DOMAIN tk[r] : tk[r][i].op = "send" => InOrder(sc, r, tk[r][i].packet, q)
      <4>1. \A i \in DOMAIN tk[r] : tk[r][i] \in Tasks
        BY <1>2
      <4> QED BY <4>1 DEF IsSent, Sending, Tasks
    <3>3. /\ \A i \in DOMAIN tk[r] : i \in DOMAIN tk2[r] /\ tk2[r][i] = tk[r][i] /\ i < Len(tk[r]) + 1
          /\ Len(tk[r]) + 1 \in DOMAIN tk2[r] /\ tk2[r][Len(tk[r]) + 1] = x
          /\ \A i \in DOMAIN tk2[r] : i \in DOMAIN tk[r] \/ i = Len(tk[r]) + 1
          /\ DOMAIN tk2[r] \subseteq Nat /\ Len(tk[r]) \in Nat
      BY <1>0, <1>1 DEF IsPosted
    <3>4. \A i \in DOMAIN wr[r], j \in DOMAIN tk2[r] :
            tk2[r][j].op = "send" => InOrder(sc, r, wr[r][i], tk2[r][j].packet)
      BY <1>1, <2>1, <3>1, <3>3 DEF SentInOrder
    <3>5. ASSUME NEW i \in DOMAIN tk2[r], NEW j \in DOMAIN tk2[r],
                 i < j, tk2[r][i].op = "send", tk2[r][j].op = "send"
          PROVE  InOrder(sc, r, tk2[r][i].packet, tk2[r][j].packet)
      <4>1. i \in DOMAIN tk[r]
        BY <3>3, <3>5
      <4>2. CASE j \in DOMAIN tk[r]
        BY <2>1, <3>3, <3>5, <4>1, <4>2 DEF SentInOrder
      <4>3. CASE j = Len(tk[r]) + 1
        BY <1>1, <3>2, <3>3, <3>5, <4>1, <4>3
      <4> QED BY <3>3, <4>2, <4>3
    <3> QED BY <2>1, <2>3, <3>4, <3>5 DEF SentInOrder
  <2> QED BY <2>2, <2>3
<1>9. HandledInOrder(tk2, qu)
  <2>1. HandledInOrder(tk, qu) /\ x.op # "handle"
    BY <1>1 DEF Orderly
  <2> QED BY <1>1, <1>2, <2>1, PostedNoRequest
<1>10. OneAtATime(sc, tk2, wr, qu, rd, aw)
  <2>1. OneAtATime(sc, tk, wr, qu, rd, aw)
    BY DEF Orderly
  <2>2. \A u \in Sessions, n \in Nat : Pending(tk2, qu, u, n) => 1 <= n /\ n <= rd[u]
    BY <1>5, <2>1 DEF OneAtATime
  <2>3. ASSUME NEW u \in Sessions, NEW p \in Packets, IsSent(tk2, wr, u, p)
        PROVE  /\ 1 <= p.seq /\ p.seq <= rd[p.src]
               /\ \A n \in Nat : Pending(tk2, qu, p.src, n) => p.seq < n
               /\ p.what # "message" => p.src = u /\ p.seq \notin aw[u]
    <3>1. p.src \in Sessions
      BY DEF Packets
    <3>2. CASE IsSent(tk, wr, u, p)
      BY <1>5, <2>1, <3>1, <3>2 DEF OneAtATime
    <3>3. CASE u = r /\ p = q
      BY <1>5, <3>1, <3>3
    <3> QED BY <1>4, <2>3, <3>2, <3>3
  <2>4. \A u \in Sessions : \A m \in aw[u] :
          /\ 1 <= m /\ m <= rd[u] /\ sc[u][m].kind = "db"
          /\ \A n \in Nat : Pending(tk2, qu, u, n) => m < n
    BY <1>5, <2>1 DEF OneAtATime
  <2> QED BY <2>2, <2>3, <2>4 DEF OneAtATime
<1> QED BY <1>4, <1>5, <1>6, <1>8, <1>9, <1>10 DEF Orderly

\* The task that closes the socket is posted.
LEMMA PostedClose ==
  ASSUME NEW sc, NEW tk, NEW wr, NEW qu, NEW rd, NEW aw,
         Typed(tk, wr, qu, rd, aw), Orderly(sc, tk, wr, qu, rd, aw),
         NEW r \in Sessions
  PROVE  /\ Orderly(sc, Posted(tk, r, CloseTask(r)), wr, qu, rd, aw)
         /\ Typed(Posted(tk, r, CloseTask(r)), wr, qu, rd, aw)
         /\ \A u \in Sessions : \A p : IsSent(Posted(tk, r, CloseTask(r)), wr, u, p) <=> IsSent(tk, wr, u, p)
<1> DEFINE tk2 == Posted(tk, r, CloseTask(r))
<1> DEFINE x == CloseTask(r)
<1>1. x \in Tasks /\ x.op = "close"
  BY DEF CloseTask, Task, Packet, Tasks, Packets
<1> HIDE DEF x
<1>2. tk \in [Sessions -> Seq(Tasks)] /\ tk2 = Posted(tk, r, x)
  BY DEF Typed, x
<1>3. /\ \A u \in Sessions : \A p : Sending(tk2, u, p) <=>
           Sending(tk, u, p) \/ (u = r /\ x.op = "send" /\ x.packet = p)
      /\ \A u \in Sessions : \A n : Handling(tk2, u, n) <=>
           Handling(tk, u, n) \/ (u = r /\ x.op = "handle" /\ x.packet.seq = n)
  BY <1>1, <1>2, PostedTasks
<1>0. IsPosted(tk, tk2, r, x)
  BY <1>1, <1>2, PostFacts
<1>4. \A u \in Sessions : \A p : IsSent(tk2, wr, u, p) <=> IsSent(tk, wr, u, p)
  BY <1>1, <1>3 DEF IsSent
<1>5. \A u \in Sessions : \A n : Pending(tk2, qu, u, n) => Pending(tk, qu, u, n)
  BY <1>1, <1>3 DEF Pending
<1>6. OneAtATime(sc, tk2, wr, qu, rd, aw)
  <2>1. OneAtATime(sc, tk, wr, qu, rd, aw)
    BY DEF Orderly
  <2> QED BY <1>4, <1>5, <2>1, FewerAtATime
<1>7. SentInOrder(sc, tk2, wr) /\ HandledInOrder(tk2, qu)
  BY <1>1, <1>2, PostedNoPacket, PostedNoRequest DEF Orderly
<1>8. Typed(tk2, wr, qu, rd, aw)
  BY <1>0 DEF Typed, IsPosted
<1> QED BY <1>4, <1>6, <1>7, <1>8 DEF Orderly

\* What is sent and what waits after a request is posted.
LEMMA PostedHandle ==
  ASSUME NEW tk \in [Sessions -> Seq(Tasks)], NEW s \in Sessions, NEW n \in Nat,
         NEW x, x = Handle(s, n), NEW tk2, tk2 = Posted(tk, s, x)
  PROVE  /\ x \in Tasks /\ x.op = "handle" /\ x.packet.seq = n
         /\ \A u \in Sessions : \A p : Sending(tk2, u, p) <=> Sending(tk, u, p)
         /\ \A u \in Sessions : \A m : Handling(tk2, u, m) <=> Handling(tk, u, m) \/ (u = s /\ m = n)
<1>1. x \in Tasks /\ x.op = "handle" /\ x.packet.seq = n
  BY DEF Handle, Task, Packet, Tasks, Packets
<1>2. /\ \A u \in Sessions : \A p : Sending(tk2, u, p) <=>
           Sending(tk, u, p) \/ (u = s /\ x.op = "send" /\ x.packet = p)
      /\ \A u \in Sessions : \A m : Handling(tk2, u, m) <=>
           Handling(tk, u, m) \/ (u = s /\ x.op = "handle" /\ x.packet.seq = m)
  BY <1>1, PostedTasks
<1> QED BY <1>1, <1>2

\* A request is handed to the io_context of its session, after those that are there already and
\* before those that are to come.
LEMMA PostedRequest ==
  ASSUME NEW sc, NEW tk, NEW wr, NEW qu, NEW rd, NEW aw,
         Typed(tk, wr, qu, rd, aw), Orderly(sc, tk, wr, qu, rd, aw),
         NEW s \in Sessions, NEW n \in Nat, 1 <= n, n <= rd[s],
         \A m \in Nat : (Handling(tk, s, m) => m < n) /\ (Queued(qu, s, m) => n < m),
         \A r \in Sessions, p \in Packets : IsSent(tk, wr, r, p) /\ p.src = s => p.seq < n,
         \A m \in aw[s] : m < n
  PROVE  /\ Orderly(sc, Posted(tk, s, Handle(s, n)), wr, qu, rd, aw)
         /\ Typed(Posted(tk, s, Handle(s, n)), wr, qu, rd, aw)
         /\ \A u \in Sessions : \A p : IsSent(Posted(tk, s, Handle(s, n)), wr, u, p) <=> IsSent(tk, wr, u, p)
<1> DEFINE tk2 == Posted(tk, s, Handle(s, n))
<1> DEFINE x == Handle(s, n)
<1>2. tk \in [Sessions -> Seq(Tasks)] /\ tk2 = Posted(tk, s, x)
  BY DEF Typed
<1>3. /\ x \in Tasks /\ x.op = "handle" /\ x.packet.seq = n
      /\ \A u \in Sessions : \A p : Sending(tk2, u, p) <=> Sending(tk, u, p)
      /\ \A u \in Sessions : \A m : Handling(tk2, u, m) <=> Handling(tk, u, m) \/ (u = s /\ m = n)
  BY <1>2, PostedHandle
<1>1. x \in Tasks /\ x.op = "handle" /\ x.packet.seq = n
  BY <1>3
<1> HIDE DEF x
<1>0. IsPosted(tk, tk2, s, x)
  BY <1>1, <1>2, PostFacts
<1>4. \A u \in Sessions : \A p : IsSent(tk2, wr, u, p) <=> IsSent(tk, wr, u, p)
  BY <1>1, <1>3 DEF IsSent
<1>5. \A u \in Sessions : \A m : Pending(tk2, qu, u, m) <=> Pending(tk, qu, u, m) \/ (u = s /\ m = n)
  BY <1>1, <1>3 DEF Pending
<1>6. OneAtATime(sc, tk2, wr, qu, rd, aw)
  <2>1. OneAtATime(sc, tk, wr, qu, rd, aw)
    BY DEF Orderly
  <2>2. \A u \in Sessions, m \in Nat : Pending(tk2, qu, u, m) => 1 <= m /\ m <= rd[u]
    BY <1>5, <2>1 DEF OneAtATime
  <2>3. ASSUME NEW u \in Sessions, NEW p \in Packets, IsSent(tk2, wr, u, p)
        PROVE  /\ 1 <= p.seq /\ p.seq <= rd[p.src]
               /\ \A m \in Nat : Pending(tk2, qu, p.src, m) => p.seq < m
               /\ p.what # "message" => p.src = u /\ p.seq \notin aw[u]
    <3>1. p.src \in Sessions /\ IsSent(tk, wr, u, p)
      BY <1>4, <2>3 DEF Packets
    <3>2. /\ 1 <= p.seq /\ p.seq <= rd[p.src]
          /\ \A m \in Nat : Pending(tk, qu, p.src, m) => p.seq < m
          /\ p.what # "message" => p.src = u /\ p.seq \notin aw[u]
      BY <2>1, <3>1 DEF OneAtATime
    <3> QED BY <1>5, <3>1, <3>2
  <2>4. \A u \in Sessions : \A k \in aw[u] :
          /\ 1 <= k /\ k <= rd[u] /\ sc[u][k].kind = "db"
          /\ \A m \in Nat : Pending(tk2, qu, u, m) => k < m
    BY <1>5, <2>1 DEF OneAtATime
  <2> QED BY <2>2, <2>3, <2>4 DEF OneAtATime
<1>7. SentInOrder(sc, tk2, wr)
  BY <1>1, <1>2, PostedNoPacket DEF Orderly
<1>8. HandledInOrder(tk2, qu)
  <2>1. HandledInOrder(tk, qu)
    BY DEF Orderly
  <2>2. ASSUME NEW u \in Sessions, NEW i \in DOMAIN tk2[u], NEW j \in DOMAIN tk2[u],
               i < j, tk2[u][i].op = "handle", tk2[u][j].op = "handle"
        PROVE  tk2[u][i].packet.seq < tk2[u][j].packet.seq
    <3>1. CASE u # s
      BY <1>0, <2>1, <2>2, <3>1 DEF HandledInOrder, IsPosted
    <3>2. CASE u = s
      <4>1. /\ \A k \in DOMAIN tk[s] : k \in DOMAIN tk2[s] /\ tk2[s][k] = tk[s][k] /\ k < Len(tk[s]) + 1
            /\ tk2[s][Len(tk[s]) + 1] = x
            /\ \A k \in DOMAIN tk2[s] : k \in DOMAIN tk[s] \/ k = Len(tk[s]) + 1
            /\ DOMAIN tk2[s] \subseteq Nat /\ Len(tk[s]) \in Nat
        BY <1>0, <1>1 DEF IsPosted
      <4>2. i \in DOMAIN tk[s] /\ tk2[s][i] = tk[s][i]
        BY <2>2, <3>2, <4>1
      <4>3. CASE j \in DOMAIN tk[s]
        BY <2>1, <2>2, <3>2, <4>1, <4>2, <4>3 DEF HandledInOrder
      <4>4. CASE j = Len(tk[s]) + 1
        <5>1. tk[s][i].packet.seq \in Nat
          <6>1. tk[s][i] \in Tasks
            BY <1>2, <4>2
          <6> QED BY <6>1 DEF Tasks, Packets
        <5>2. Handling(tk, s, tk[s][i].packet.seq)
          BY <2>2, <3>2, <4>2 DEF Handling
        <5> QED BY <1>1, <3>2, <4>1, <4>2, <4>4, <5>1, <5>2
      <4> QED BY <2>2, <3>2, <4>1, <4>3, <4>4
    <3> QED BY <3>1, <3>2
  <2>3. \A u \in Sessions, k, m \in Nat : Handling(tk2, u, k) /\ Queued(qu, u, m) => k < m
    BY <1>1, <1>3, <2>1 DEF HandledInOrder
  <2> QED BY <2>1, <2>2, <2>3 DEF HandledInOrder
<1>9. Typed(tk2, wr, qu, rd, aw)
  BY <1>0 DEF Typed, IsPosted
<1> QED BY <1>4, <1>6, <1>7, <1>8, <1>9 DEF Orderly

\* A task is taken.  If it handles a request, that is now the current one of its session.
LEMMA TakenFirst ==
  ASSUME NEW sc, NEW tk, NEW wr, NEW qu, NEW rd, NEW aw,
         Typed(tk, wr, qu, rd, aw), Orderly(sc, tk, wr, qu, rd, aw),
         NEW s \in Sessions, tk[s] # <<>>
  PROVE  /\ Orderly(sc, Taken(tk, s), wr, qu, rd, aw)
         /\ Typed(Taken(tk, s), wr, qu, rd, aw)
         /\ \A u \in Sessions : \A p : IsSent(tk, wr, u, p) <=>
              IsSent(Taken(tk, s), wr, u, p) \/ (u = s /\ Head(tk[s]).op = "send" /\ Head(tk[s]).packet = p)
         /\ Head(tk[s]).op = "handle" => Current(Taken(tk, s), wr, qu, rd, aw, s, Head(tk[s]).packet.seq)
<1> DEFINE tk2 == Taken(tk, s)
<1> DEFINE h == Head(tk[s])
<1>1. tk \in [Sessions -> Seq(Tasks)] /\ HandledInOrder(tk, qu) /\ OneAtATime(sc, tk, wr, qu, rd, aw)
  BY DEF Typed, Orderly
<1>2. IsTaken(tk, tk2, s)
  BY <1>1, TakeFacts
<1>3. /\ \A u \in Sessions : \A p : Sending(tk, u, p) <=>
           Sending(tk2, u, p) \/ (u = s /\ h.op = "send" /\ h.packet = p)
      /\ \A u \in Sessions : \A n : Handling(tk, u, n) <=>
           Handling(tk2, u, n) \/ (u = s /\ h.op = "handle" /\ h.packet.seq = n)
  BY <1>1, TakenTasks
<1>4. h = tk[s][1] /\ h \in Tasks /\ h.packet.seq \in Nat
  BY <1>2 DEF IsTaken, Tasks, Packets
<1> HIDE DEF h
<1>5. \A u \in Sessions : \A p : IsSent(tk, wr, u, p) <=>
        IsSent(tk2, wr, u, p) \/ (u = s /\ h.op = "send" /\ h.packet = p)
  BY <1>3 DEF IsSent
<1>6. \A u \in Sessions : \A n : Pending(tk2, qu, u, n) => Pending(tk, qu, u, n)
  BY <1>3 DEF Pending
<1>7. OneAtATime(sc, tk2, wr, qu, rd, aw)
  BY <1>1, <1>5, <1>6, FewerAtATime
<1>8. SentInOrder(sc, tk2, wr)
  <2>1. SentInOrder(sc, tk, wr)
    BY DEF Orderly
  <2>2. \A i \in DOMAIN wr[s], j \in DOMAIN tk2[s] :
          tk2[s][j].op = "send" => InOrder(sc, s, wr[s][i], tk2[s][j].packet)
    BY <1>2, <2>1 DEF IsTaken, SentInOrder
  <2>3. ASSUME NEW i \in DOMAIN tk2[s], NEW j \in DOMAIN tk2[s],
               i < j, tk2[s][i].op = "send", tk2[s][j].op = "send"
        PROVE  InOrder(sc, s, tk2[s][i].packet, tk2[s][j].packet)
    <3>1. /\ i + 1 \in DOMAIN tk[s] /\ j + 1 \in DOMAIN tk[s] /\ i + 1 < j + 1
          /\ tk2[s][i] = tk[s][i + 1] /\ tk2[s][j] = tk[s][j + 1]
      BY <1>2, <2>3 DEF IsTaken
    <3> QED BY <2>1, <2>3, <3>1 DEF SentInOrder
  <2> QED BY <1>2, <2>1, <2>2, <2>3 DEF IsTaken, SentInOrder
<1>9. HandledInOrder(tk2, qu)
  <2>1. ASSUME NEW i \in DOMAIN tk2[s], NEW j \in DOMAIN tk2[s],
               i < j, tk2[s][i].op = "handle", tk2[s][j].op = "handle"
        PROVE  tk2[s][i].packet.seq < tk2[s][j].packet.seq
    <3>1. /\ i + 1 \in DOMAIN tk[s] /\ j + 1 \in DOMAIN tk[s] /\ i + 1 < j + 1
          /\ tk2[s][i] = tk[s][i + 1] /\ tk2[s][j] = tk[s][j + 1]
      BY <1>2, <2>1 DEF IsTaken
    <3> QED BY <1>1, <2>1, <3>1 DEF HandledInOrder
  <2>2. \A u \in Sessions, m, n \in Nat : Handling(tk2, u, m) /\ Queued(qu, u, n) => m < n
    BY <1>1, <1>3 DEF HandledInOrder
  <2>3. ASSUME NEW u \in Sessions, u # s, NEW i \in DOMAIN tk2[u], NEW j \in DOMAIN tk2[u],
               i < j, tk2[u][i].op = "handle", tk2[u][j].op = "handle"
        PROVE  tk2[u][i].packet.seq < tk2[u][j].packet.seq
    BY <1>1, <1>2, <2>3 DEF IsTaken, HandledInOrder
  <2>4. \A u \in Sessions : \A i, j \in DOMAIN qu : i < j /\ qu[i][1] = u /\ qu[j][1] = u => qu[i][2] < qu[j][2]
    BY <1>1 DEF HandledInOrder
  <2> QED BY <2>1, <2>2, <2>3, <2>4 DEF HandledInOrder
<1>10. ASSUME h.op = "handle" PROVE Current(tk2, wr, qu, rd, aw, s, h.packet.seq)
  <2> DEFINE n == h.packet.seq
  <2>1. n \in Nat /\ Handling(tk, s, n) /\ Pending(tk, qu, s, n)
    BY <1>3, <1>4, <1>10 DEF Pending
  <2> HIDE DEF n
  <2>2. 1 <= n /\ n <= rd[s]
    BY <1>1, <2>1 DEF OneAtATime
  <2>3. ASSUME NEW m \in Nat, Pending(tk2, qu, s, m) PROVE n < m
    <3>1. CASE Queued(qu, s, m)
      BY <1>1, <2>1, <3>1 DEF HandledInOrder
    <3>2. CASE Handling(tk2, s, m)
      <4>1. PICK i \in DOMAIN tk2[s] : tk2[s][i].op = "handle" /\ tk2[s][i].packet.seq = m
        BY <3>2 DEF Handling
      <4>2. 1 \in DOMAIN tk[s] /\ i + 1 \in DOMAIN tk[s] /\ 1 < i + 1 /\ tk[s][i + 1] = tk2[s][i]
        BY <1>2 DEF IsTaken
      <4> QED BY <1>1, <1>4, <1>10, <4>1, <4>2 DEF HandledInOrder, n
    <3> QED BY <2>3, <3>1, <3>2 DEF Pending
  <2>4. ASSUME NEW r \in Sessions, NEW p \in Packets, IsSent(tk2, wr, r, p), p.src = s PROVE p.seq < n
    BY <1>1, <1>5, <2>1, <2>4 DEF OneAtATime
  <2>5. \A m \in aw[s] : m < n
    BY <1>1, <2>1 DEF OneAtATime
  <2> QED BY <2>2, <2>3, <2>4, <2>5 DEF Current, n
<1>11. Typed(tk2, wr, qu, rd, aw)
  BY <1>2 DEF Typed, IsTaken
<1> QED BY <1>5, <1>7, <1>8, <1>9, <1>10, <1>11 DEF Orderly, h

Received(tk, wr, s) == [wr EXCEPT ![s] = Append(wr[s], Head(tk[s]).packet)]

\* The packet of a send task moves to the wire.
LEMMA Delivered ==
  ASSUME NEW sc, NEW tk, NEW wr, NEW qu, NEW rd, NEW aw,
         Typed(tk, wr, qu, rd, aw), Orderly(sc, tk, wr, qu, rd, aw),
         NEW s \in Sessions, tk[s] # <<>>, Head(tk[s]).op = "send"
  PROVE  /\ Orderly(sc, Taken(tk, s), Received(tk, wr, s), qu, rd, aw)
         /\ Typed(Taken(tk, s), Received(tk, wr, s), qu, rd, aw)
         /\ \A u \in Sessions : \A p : IsSent(Taken(tk, s), Received(tk, wr, s), u, p) <=> IsSent(tk, wr, u, p)
<1> DEFINE tk2 == Taken(tk, s)
           wr2 == [wr EXCEPT ![s] = Append(wr[s], Head(tk[s]).packet)]
<1> DEFINE q == Head(tk[s]).packet
           L == Len(wr[s]) + 1
<1>1. /\ tk \in [Sessions -> Seq(Tasks)] /\ wr \in [Sessions -> Seq(Packets)]
      /\ SentInOrder(sc, tk, wr) /\ OneAtATime(sc, tk, wr, qu, rd, aw)
  BY DEF Typed, Orderly
<1>2. /\ Orderly(sc, tk2, wr, qu, rd, aw) /\ Typed(tk2, wr, qu, rd, aw)
      /\ \A u \in Sessions : \A p : IsSent(tk, wr, u, p) <=> IsSent(tk2, wr, u, p) \/ (u = s /\ q = p)
  BY TakenFirst
<1>3. IsTaken(tk, tk2, s)
  BY <1>1, TakeFacts
<1>4. q \in Packets /\ q = tk[s][1].packet /\ tk[s][1].op = "send" /\ 1 \in DOMAIN tk[s]
  BY <1>3 DEF IsTaken, Tasks
<1> HIDE DEF q, L
<1>5. wr[s] \in Seq(Packets) /\ wr2[s] = Append(wr[s], q) /\ \A u \in Sessions : u # s => wr2[u] = wr[u]
  BY <1>1 DEF q
<1>6. /\ Append(wr[s], q) \in Seq(Packets)
      /\ \A i \in DOMAIN wr[s] : i \in DOMAIN wr2[s] /\ wr2[s][i] = wr[s][i] /\ i < L
      /\ L \in DOMAIN wr2[s] /\ wr2[s][L] = q
      /\ \A i \in DOMAIN wr2[s] : i \in DOMAIN wr[s] \/ i = L
      /\ DOMAIN wr2[s] \subseteq Nat /\ L \in Nat
  BY <1>4, <1>5, AppendFacts DEF L
<1>7. wr2 \in [Sessions -> Seq(Packets)]
  BY <1>1, <1>6 DEF q
<1>8. \A u \in Sessions : \A p : IsSent(tk2, wr2, u, p) <=> IsSent(tk, wr, u, p)
  <2>1. ASSUME NEW u \in Sessions, NEW p PROVE IsSent(tk2, wr2, u, p) <=> IsSent(tk, wr, u, p)
    <3>1. CASE u # s
      BY <1>2, <1>5, <3>1 DEF IsSent
    <3>2. CASE u = s
      <4>1. (\E i \in DOMAIN wr2[s] : wr2[s][i] = p) <=> (\E i \in DOMAIN wr[s] : wr[s][i] = p) \/ p = q
        BY <1>6
      <4> QED BY <1>2, <3>2, <4>1 DEF IsSent
    <3> QED BY <3>1, <3>2
  <2> QED BY <2>1
<1>9. SentInOrder(sc, tk2, wr2)
  <2>1. SentInOrder(sc, tk2, wr)
    BY <1>2 DEF Orderly
  <2>2. \A i \in DOMAIN wr[s] : InOrder(sc, s, wr[s][i], q)
    BY <1>1, <1>4 DEF SentInOrder
  <2>3. ASSUME NEW i \in DOMAIN wr2[s], NEW j \in DOMAIN wr2[s], i < j
        PROVE  InOrder(sc, s, wr2[s][i], wr2[s][j])
    <3>1. i \in DOMAIN wr[s]
      BY <1>6, <2>3
    <3>2. CASE j \in DOMAIN wr[s]
      BY <1>1, <1>6, <2>3, <3>1, <3>2 DEF SentInOrder
    <3>3. CASE j = L
      BY <1>6, <2>2, <3>1, <3>3
    <3> QED BY <1>6, <3>2, <3>3
  <2>4. ASSUME NEW i \in DOMAIN wr2[s], NEW j \in DOMAIN tk2[s], tk2[s][j].op = "send"
        PROVE  InOrder(sc, s, wr2[s][i], tk2[s][j].packet)
    <3>1. CASE i \in DOMAIN wr[s]
      BY <1>6, <2>1, <2>4, <3>1 DEF SentInOrder
    <3>2. CASE i = L
      <4>1. j + 1 \in DOMAIN tk[s] /\ tk2[s][j] = tk[s][j + 1] /\ 1 < j + 1
        BY <1>3 DEF IsTaken
      <4>2. InOrder(sc, s, q, tk2[s][j].packet)
        BY <1>1, <1>4, <2>4, <4>1 DEF SentInOrder
      <4> QED BY <1>6, <3>2, <4>2
    <3> QED BY <1>6, <3>1, <3>2
  <2> QED BY <1>5, <2>1, <2>3, <2>4 DEF SentInOrder
<1>10. OneAtATime(sc, tk2, wr2, qu, rd, aw)
  <2>1. OneAtATime(sc, tk2, wr, qu, rd, aw)
    BY <1>2 DEF Orderly
  <2>2. \A u \in Sessions, n \in Nat : Pending(tk2, qu, u, n) => Pending(tk, qu, u, n)
    <3>1. \A u \in Sessions : \A n : Handling(tk, u, n) <=>
            Handling(tk2, u, n) \/ (u = s /\ Head(tk[s]).op = "handle" /\ Head(tk[s]).packet.seq = n)
      BY <1>1, TakenTasks
    <3> QED BY <3>1 DEF Pending
  <2> QED BY <1>1, <1>8, <2>2, FewerAtATime
<1>11. Typed(tk2, wr2, qu, rd, aw)
  BY <1>2, <1>7 DEF Typed
<1> QED BY <1>2, <1>8, <1>9, <1>10, <1>11 DEF Orderly, Received

\* Reading on changes nothing of what was read before.
LEMMA ReadOn ==
  ASSUME NEW sc, NEW tk, NEW wr, NEW qu, NEW rd, NEW aw,
         Typed(tk, wr, qu, rd, aw), Orderly(sc, tk, wr, qu, rd, aw),
         NEW s \in Sessions, NEW rd2, rd2 = [rd EXCEPT ![s] = rd[s] + 1]
  PROVE  Orderly(sc, tk, wr, qu, rd2, aw) /\ Typed(tk, wr, qu, rd2, aw)
<1>1. rd2 \in [Sessions -> Nat] /\ \A u \in Sessions : rd[u] \in Nat /\ rd[u] <= rd2[u]
  BY DEF Typed
<1>2. Typed(tk, wr, qu, rd2, aw) /\ OneAtATime(sc, tk, wr, qu, rd, aw)
  BY <1>1 DEF Typed, Orderly
<1>3. \A u \in Sessions, n \in Nat : Pending(tk, qu, u, n) => 1 <= n /\ n <= rd2[u]
  BY <1>1, <1>2 DEF OneAtATime
<1>4. ASSUME NEW u \in Sessions, NEW p \in Packets, IsSent(tk, wr, u, p)
      PROVE  1 <= p.seq /\ p.seq <= rd2[p.src]
  <2>1. p.src \in Sessions /\ p.seq \in Nat /\ 1 <= p.seq /\ p.seq <= rd[p.src]
    BY <1>2, <1>4 DEF OneAtATime, Packets
  <2> QED BY <1>1, <2>1
<1>5. \A u \in Sessions : \A m \in aw[u] : 1 <= m /\ m <= rd2[u]
  <2>1. \A u \in Sessions : \A m \in aw[u] : m \in Nat
    BY DEF Typed
  <2> QED BY <1>1, <1>2, <2>1 DEF OneAtATime
<1>6. OneAtATime(sc, tk, wr, qu, rd2, aw)
  BY <1>2, <1>3, <1>4, <1>5 DEF OneAtATime
<1> QED BY <1>2, <1>6 DEF Orderly

\* The handler of the current request begins to wait for the executor.
LEMMA Awaits ==
  ASSUME NEW sc, NEW tk, NEW wr, NEW qu, NEW rd, NEW aw,
         Typed(tk, wr, qu, rd, aw), Orderly(sc, tk, wr, qu, rd, aw),
         NEW s \in Sessions, NEW n \in Nat, Current(tk, wr, qu, rd, aw, s, n), sc[s][n].kind = "db",
         NEW aw2, aw2 = [aw EXCEPT ![s] = aw[s] \cup {n}]
  PROVE  Orderly(sc, tk, wr, qu, rd, aw2) /\ Typed(tk, wr, qu, rd, aw2)
<1>1. OneAtATime(sc, tk, wr, qu, rd, aw) /\ aw \in [Sessions -> SUBSET Nat]
  BY DEF Orderly, Typed
<1>2. aw2 \in [Sessions -> SUBSET Nat] /\ aw2[s] = aw[s] \cup {n} /\ \A u \in Sessions : u # s => aw2[u] = aw[u]
  BY <1>1
<1>3. Typed(tk, wr, qu, rd, aw2)
  BY <1>2 DEF Typed
<1>4. ASSUME NEW r \in Sessions, NEW p \in Packets, IsSent(tk, wr, r, p)
      PROVE  /\ 1 <= p.seq /\ p.seq <= rd[p.src]
             /\ \A m \in Nat : Pending(tk, qu, p.src, m) => p.seq < m
             /\ p.what # "message" => p.src = r /\ p.seq \notin aw2[r]
  <2>1. /\ 1 <= p.seq /\ p.seq <= rd[p.src]
        /\ \A m \in Nat : Pending(tk, qu, p.src, m) => p.seq < m
        /\ p.what # "message" => p.src = r /\ p.seq \notin aw[r]
    BY <1>1, <1>4 DEF OneAtATime
  <2>2. p.src = s => p.seq < n /\ p.seq \in Nat
    BY <1>4 DEF Current, Packets
  <2> QED BY <1>2, <2>1, <2>2
<1>5. \A u \in Sessions : \A m \in aw2[u] :
        /\ 1 <= m /\ m <= rd[u] /\ sc[u][m].kind = "db"
        /\ \A k \in Nat : Pending(tk, qu, u, k) => m < k
  BY <1>1, <1>2 DEF OneAtATime, Current
<1>6. OneAtATime(sc, tk, wr, qu, rd, aw2)
  BY <1>1, <1>4, <1>5 DEF OneAtATime
<1> QED BY <1>3, <1>6 DEF Orderly

\* What has just been read comes after everything else of its session.
LEMMA ReadNext ==
  ASSUME NEW sc, NEW tk, NEW wr, NEW qu, NEW rd, NEW aw,
         Typed(tk, wr, qu, rd, aw), Orderly(sc, tk, wr, qu, rd, aw),
         NEW s \in Sessions, NEW n, n = rd[s] + 1
  PROVE  /\ n \in Nat /\ 1 <= n
         /\ \A m \in Nat : Pending(tk, qu, s, m) => m < n
         /\ \A r \in Sessions, p \in Packets : IsSent(tk, wr, r, p) /\ p.src = s => p.seq < n
         /\ \A m \in aw[s] : m < n
<1>1. OneAtATime(sc, tk, wr, qu, rd, aw) /\ rd[s] \in Nat /\ aw[s] \subseteq Nat
  BY DEF Orderly, Typed
<1>2. \A m \in Nat : Pending(tk, qu, s, m) => m < n
  BY <1>1 DEF OneAtATime
<1>3. ASSUME NEW r \in Sessions, NEW p \in Packets, IsSent(tk, wr, r, p), p.src = s PROVE p.seq < n
  <2>1. p.seq \in Nat /\ p.seq <= rd[s]
    BY <1>1, <1>3 DEF OneAtATime, Packets
  <2> QED BY <1>1, <2>1
<1>4. \A m \in aw[s] : m < n
  BY <1>1 DEF OneAtATime
<1> QED BY <1>1, <1>2, <1>3, <1>4

\* A request that was just read is queued for LogicSystem.
LEMMA QueuedLast ==
  ASSUME NEW sc, NEW tk, NEW wr, NEW qu, NEW rd, NEW aw,
         Typed(tk, wr, qu, rd, aw), Orderly(sc, tk, wr, qu, rd, aw),
         NEW s \in Sessions, NEW n, n = rd[s] + 1,
         NEW rd2, rd2 = [rd EXCEPT ![s] = n], NEW qu2, qu2 = Append(qu, <<s, n>>)
  PROVE  Orderly(sc, tk, wr, qu2, rd2, aw) /\ Typed(tk, wr, qu2, rd2, aw)
<1>1. Orderly(sc, tk, wr, qu, rd2, aw) /\ Typed(tk, wr, qu, rd2, aw)
  BY ReadOn
<1>2. /\ n \in Nat /\ 1 <= n
      /\ \A m \in Nat : Pending(tk, qu, s, m) => m < n
      /\ \A r \in Sessions, p \in Packets : IsSent(tk, wr, r, p) /\ p.src = s => p.seq < n
      /\ \A m \in aw[s] : m < n
  BY ReadNext
<1>3. rd2[s] = n /\ qu \in Seq(Sessions \X Nat) /\ <<s, n>> \in Sessions \X Nat
  BY <1>2 DEF Typed
<1> DEFINE L == Len(qu) + 1
<1>4. /\ qu2 \in Seq(Sessions \X Nat)
      /\ \A i \in DOMAIN qu : i \in DOMAIN qu2 /\ qu2[i] = qu[i] /\ i < L
      /\ L \in DOMAIN qu2 /\ qu2[L] = <<s, n>>
      /\ \A i \in DOMAIN qu2 : i \in DOMAIN qu \/ i = L
      /\ DOMAIN qu2 \subseteq Nat /\ L \in Nat
  BY <1>3, AppendFacts
<1> HIDE DEF L
<1>5. \A u \in Sessions : \A m : Queued(qu2, u, m) <=> Queued(qu, u, m) \/ (u = s /\ m = n)
  <2>1. ASSUME NEW u \in Sessions, NEW m, Queued(qu2, u, m) PROVE Queued(qu, u, m) \/ (u = s /\ m = n)
    <3>1. PICK i \in DOMAIN qu2 : qu2[i] = <<u, m>>
      BY <2>1 DEF Queued
    <3>2. CASE i \in DOMAIN qu
      BY <1>4, <3>1, <3>2 DEF Queued
    <3>3. CASE i = L
      BY <1>4, <3>1, <3>3
    <3> QED BY <1>4, <3>2, <3>3
  <2>2. ASSUME NEW u \in Sessions, NEW m, Queued(qu, u, m) \/ (u = s /\ m = n) PROVE Queued(qu2, u, m)
    BY <1>4, <2>2 DEF Queued
  <2> QED BY <2>1, <2>2
<1>6. HandledInOrder(tk, qu2)
  <2>1. HandledInOrder(tk, qu)
    BY DEF Orderly
  <2>2. \A u \in Sessions, k, m \in Nat : Handling(tk, u, k) /\ Queued(qu2, u, m) => k < m
    BY <1>2, <1>5, <2>1 DEF HandledInOrder, Pending
  <2>3. ASSUME NEW u \in Sessions, NEW i \in DOMAIN qu2, NEW j \in DOMAIN qu2,
               i < j, qu2[i][1] = u, qu2[j][1] = u
        PROVE  qu2[i][2] < qu2[j][2]
    <3>1. i \in DOMAIN qu
      BY <1>4, <2>3
    <3>2. CASE j \in DOMAIN qu
      BY <1>4, <2>1, <2>3, <3>1, <3>2 DEF HandledInOrder
    <3>3. CASE j = L
      <4>1. u = s /\ qu2[j][2] = n
        BY <1>4, <2>3, <3>3
      <4>2. qu[i] \in Sessions \X Nat
        BY <1>3, <3>1
      <4>3. qu[i] = <<s, qu[i][2]>> /\ qu[i][2] \in Nat
        BY <1>4, <2>3, <3>1, <4>1, <4>2
      <4>4. Pending(tk, qu, s, qu[i][2])
        BY <3>1, <4>3 DEF Pending, Queued
      <4> QED BY <1>2, <1>4, <3>1, <4>1, <4>3, <4>4
    <3> QED BY <1>4, <3>2, <3>3
  <2>4. \A u \in Sessions : \A i, j \in DOMAIN tk[u] :
          i < j /\ tk[u][i].op = "handle" /\ tk[u][j].op = "handle" => tk[u][i].packet.seq < tk[u][j].packet.seq
    BY <2>1 DEF HandledInOrder
  <2> QED BY <2>2, <2>3, <2>4 DEF HandledInOrder
<1>7. OneAtATime(sc, tk, wr, qu2, rd2, aw)
  <2>1. OneAtATime(sc, tk, wr, qu, rd2, aw)
    BY <1>1 DEF Orderly
  <2>2. \A u \in Sessions : \A m : Pending(tk, qu2, u, m) <=> Pending(tk, qu, u, m) \/ (u = s /\ m = n)
    BY <1>5 DEF Pending
  <2>3. \A u \in Sessions, m \in Nat : Pending(tk, qu2, u, m) => 1 <= m /\ m <= rd2[u]
    <3>1. \A u \in Sessions, m \in Nat : Pending(tk, qu, u, m) => 1 <= m /\ m <= rd2[u]
      BY <2>1 DEF OneAtATime
    <3>2. 1 <= n /\ n <= rd2[s]
      BY <1>2, <1>3
    <3> QED BY <2>2, <3>1, <3>2
  <2>4. ASSUME NEW r \in Sessions, NEW p \in Packets, IsSent(tk, wr, r, p)
        PROVE  /\ 1 <= p.seq /\ p.seq <= rd2[p.src]
               /\ \A m \in Nat : Pending(tk, qu2, p.src, m) => p.seq < m
               /\ p.what # "message" => p.src = r /\ p.seq \notin aw[r]
    <3>1. p.src \in Sessions
      BY DEF Packets
    <3>2. /\ 1 <= p.seq /\ p.seq <= rd2[p.src]
          /\ \A m \in Nat : Pending(tk, qu, p.src, m) => p.seq < m
          /\ p.what # "message" => p.src = r /\ p.seq \notin aw[r]
      BY <2>1, <2>4 DEF OneAtATime
    <3> QED BY <1>2, <2>2, <2>4, <3>1, <3>2
  <2>5. \A u \in Sessions : \A k \in aw[u] :
          /\ 1 <= k /\ k <= rd2[u] /\ sc[u][k].kind = "db"
          /\ \A m \in Nat : Pending(tk, qu2, u, m) => k < m
    <3>1. \A u \in Sessions : \A k \in aw[u] :
            /\ 1 <= k /\ k <= rd2[u] /\ sc[u][k].kind = "db"
            /\ \A m \in Nat : Pending(tk, qu, u, m) => k < m
      BY <2>1 DEF OneAtATime
    <3> QED BY <1>2, <2>2, <3>1
  <2> QED BY <2>3, <2>4, <2>5 DEF OneAtATime
<1>8. Typed(tk, wr, qu2, rd2, aw)
  BY <1>1, <1>4 DEF Typed
<1> QED BY <1>1, <1>6, <1>7, <1>8 DEF Orderly

\* LogicSystem takes its first message: it is the next of its session to be handled.
LEMMA DispatchedFirst ==
  ASSUME NEW sc, NEW tk, NEW wr, NEW qu, NEW rd, NEW aw,
         Typed(tk, wr, qu, rd, aw), Orderly(sc, tk, wr, qu, rd, aw), qu # <<>>
  PROVE  LET s == Head(qu)[1]
             n == Head(qu)[2]
         IN  /\ Orderly(sc, tk, wr, Tail(qu), rd, aw) /\ Typed(tk, wr, Tail(qu), rd, aw)
             /\ s \in Sessions /\ n \in Nat /\ 1 <= n /\ n <= rd[s]
             /\ \A m \in Nat : (Handling(tk, s, m) => m < n) /\ (Queued(Tail(qu), s, m) => n < m)
             /\ \A r \in Sessions, p \in Packets : IsSent(tk, wr, r, p) /\ p.src = s => p.seq < n
             /\ \A m \in aw[s] : m < n
<1> DEFINE qu2 == Tail(qu)
           s == Head(qu)[1]
           n == Head(qu)[2]
<1>1. qu \in Seq(Sessions \X Nat) /\ HandledInOrder(tk, qu) /\ OneAtATime(sc, tk, wr, qu, rd, aw)
  BY DEF Typed, Orderly
<1>2. /\ qu2 \in Seq(Sessions \X Nat) /\ Head(qu) \in Sessions \X Nat
      /\ 1 \in DOMAIN qu /\ qu[1] = Head(qu)
      /\ \A i \in DOMAIN qu2 : i + 1 \in DOMAIN qu /\ qu2[i] = qu[i + 1] /\ 1 < i + 1
      /\ DOMAIN qu2 \subseteq Nat
  BY <1>1, TailFacts
<1>3. s \in Sessions /\ n \in Nat /\ qu[1] = <<s, n>>
  BY <1>2
<1> HIDE DEF qu2, s, n
<1>4. Queued(qu, s, n) /\ Pending(tk, qu, s, n)
  BY <1>2, <1>3 DEF Queued, Pending
<1>5. \A u \in Sessions : \A m : Queued(qu2, u, m) => Queued(qu, u, m)
  BY <1>2 DEF Queued
<1>6. HandledInOrder(tk, qu2)
  <2>1. ASSUME NEW u \in Sessions, NEW i \in DOMAIN qu2, NEW j \in DOMAIN qu2,
               i < j, qu2[i][1] = u, qu2[j][1] = u
        PROVE  qu2[i][2] < qu2[j][2]
    <3>1. /\ i + 1 \in DOMAIN qu /\ j + 1 \in DOMAIN qu /\ i + 1 < j + 1
          /\ qu2[i] = qu[i + 1] /\ qu2[j] = qu[j + 1]
      BY <1>2, <2>1
    <3> QED BY <1>1, <2>1, <3>1 DEF HandledInOrder
  <2>2. \A u \in Sessions, k, m \in Nat : Handling(tk, u, k) /\ Queued(qu2, u, m) => k < m
    BY <1>1, <1>5 DEF HandledInOrder
  <2>3. \A u \in Sessions : \A i, j \in DOMAIN tk[u] :
          i < j /\ tk[u][i].op = "handle" /\ tk[u][j].op = "handle" => tk[u][i].packet.seq < tk[u][j].packet.seq
    BY <1>1 DEF HandledInOrder
  <2> QED BY <2>1, <2>2, <2>3 DEF HandledInOrder
<1>7. OneAtATime(sc, tk, wr, qu2, rd, aw)
  <2>1. \A u \in Sessions, m \in Nat : Pending(tk, qu2, u, m) => Pending(tk, qu, u, m)
    BY <1>5 DEF Pending
  <2> QED BY <1>1, <2>1, FewerAtATime
<1>8. 1 <= n /\ n <= rd[s]
  BY <1>1, <1>3, <1>4 DEF OneAtATime
<1>9. \A m \in Nat : Handling(tk, s, m) => m < n
  BY <1>1, <1>3, <1>4 DEF HandledInOrder
<1>10. ASSUME NEW m \in Nat, Queued(qu2, s, m) PROVE n < m
  <2>1. PICK i \in DOMAIN qu2 : qu2[i] = <<s, m>>
    BY <1>10 DEF Queued
  <2>2. i + 1 \in DOMAIN qu /\ 1 < i + 1 /\ qu[i + 1][1] = s /\ qu[i + 1][2] = m
    BY <1>2, <2>1
  <2>3. qu[1][1] = s /\ qu[1][2] = n
    BY <1>3
  <2> QED BY <1>1, <1>2, <1>3, <2>2, <2>3 DEF HandledInOrder
<1>11. ASSUME NEW r \in Sessions, NEW p \in Packets, IsSent(tk, wr, r, p), p.src = s PROVE p.seq < n
  BY <1>1, <1>3, <1>4, <1>11 DEF OneAtATime
<1>12. \A m \in aw[s] : m < n
  BY <1>1, <1>3, <1>4 DEF OneAtATime
<1>13. Typed(tk, wr, qu2, rd, aw)
  BY <1>2 DEF Typed
<1> QED BY <1>3, <1>6, <1>7, <1>8, <1>9, <1>10, <1>11, <1>12, <1>13 DEF Orderly, qu2, s, n

WithReply(tk, s, n, what) == [tk EXCEPT ![s] = Replied(s, n, what, tk[s])]

\* The requester gets a reply, or has stopped.
LEMMA ReplyPosted ==
  ASSUME NEW sc, NEW tk, NEW wr, NEW qu, NEW rd, NEW aw,
         Typed(tk, wr, qu, rd, aw), Orderly(sc, tk, wr, qu, rd, aw),
         NEW s \in Sessions, NEW n \in Nat, 1 <= n, n <= rd[s], n \notin aw[s],
         \A m \in Nat : Pending(tk, qu, s, m) => n < m,
         \A p \in Packets : IsSent(tk, wr, s, p) /\ p.src = s /\ p.what # "message" =>
           p.seq < n \/ (p.seq # n /\ sc[s][n].kind = "db"),
         NEW what \in {"ok", "error"}
  PROVE  /\ Orderly(sc, WithReply(tk, s, n, what), wr, qu, rd, aw)
         /\ Typed(WithReply(tk, s, n, what), wr, qu, rd, aw)
         /\ \A u \in Sessions : \A p : IsSent(WithReply(tk, s, n, what), wr, u, p) <=>
              IsSent(tk, wr, u, p) \/ (Reaches(s) /\ u = s /\ p = Packet(s, n, what))
<1> DEFINE tk2 == WithReply(tk, s, n, what)
<1>1. CASE Reaches(s)
  <2> DEFINE q == Packet(s, n, what)
  <2>1. q \in Packets /\ q.seq = n /\ q.src = s /\ q.what = what /\ what # "message"
    BY DEF Packet, Packets
  <2>2. tk2 = Posted(tk, s, Task("send", q))
    BY <1>1 DEF WithReply, Replied, Sent, Posted
  <2>3. \A p \in Packets : IsSent(tk, wr, s, p) => InOrder(sc, s, p, q)
    BY <2>1 DEF InOrder, OfDatabase
  <2> HIDE DEF q
  <2>4. /\ Orderly(sc, tk2, wr, qu, rd, aw) /\ Typed(tk2, wr, qu, rd, aw)
        /\ \A u \in Sessions : \A p : IsSent(tk2, wr, u, p) <=> IsSent(tk, wr, u, p) \/ (u = s /\ p = q)
    <3>1. 1 <= q.seq /\ q.seq <= rd[q.src] /\ (\A m \in Nat : Pending(tk, qu, q.src, m) => q.seq < m)
      BY <2>1
    <3>2. q.what # "message" => q.src = s /\ q.seq \notin aw[s]
      BY <2>1
    <3> DEFINE t2 == Posted(tk, s, Task("send", q))
    <3>3. /\ Orderly(sc, t2, wr, qu, rd, aw) /\ Typed(t2, wr, qu, rd, aw)
          /\ \A u \in Sessions : \A p : IsSent(t2, wr, u, p) <=> IsSent(tk, wr, u, p) \/ (u = s /\ p = q)
      BY <2>1, <2>3, <3>1, <3>2, PostedSend
    <3> QED BY <2>2, <3>3
  <2> QED BY <1>1, <2>4 DEF q
<1>2. CASE ~Reaches(s)
  <2>1. tk2 = tk
    BY <1>2 DEF WithReply, Replied, Typed
  <2> QED BY <1>2, <2>1
<1> QED BY <1>1, <1>2

-----------------------------------------------------------------------------
(* The steps keep the order *)

\* LogicSystem's queue is used by the ASYNC type only, and nothing is read while it is destroyed.
QueueUse ==
  /\ type = "COROUTINE" => que = <<>>
  /\ worker = "ended" => ending # "no"
  /\ ending # "no" => \A s \in Sessions : ~reading[s]

InOrderNow == Orderly(script, tasks, wire, que, read, awaiting)
TypedNow == Typed(tasks, wire, que, read, awaiting)
SentNow(r, p) == IsSent(tasks, wire, r, p)

\* A step that puts nothing new on its way.
NothingSent == \A r \in Sessions : \A p : SentNow(r, p)' <=> SentNow(r, p)

\* The part of the types that the order is stated with.
LEMMA TypesUsed ==
  ASSUME MessagingTypeOK
  PROVE  TypedNow
BY DEF MessagingTypeOK, TypedNow, Typed

\* An element of a sequence.
LEMMA ElementFacts ==
  ASSUME NEW S, NEW q \in Seq(S), NEW i \in 1 .. Len(q)
  PROVE  q[i] \in S
OBVIOUS

\* A request that was read is one of the script.
LEMMA ScriptEntry ==
  ASSUME MessagingTypeOK, NEW s \in Sessions, NEW n \in Nat, 1 <= n, n <= read[s]
  PROVE  script[s][n] \in [kind : Kinds, to : Sessions] /\ n <= Len(script[s])
<1>1. script[s] \in Seq([kind : Kinds, to : Sessions])
  BY ScriptAssumption DEF MessagingTypeOK
<1>2. read[s] \in Nat /\ read[s] <= Len(script[s]) /\ Len(script[s]) \in Nat
  BY <1>1 DEF MessagingTypeOK
<1>3. n \in 1 .. Len(script[s])
  BY <1>2
<1> DEFINE S == [kind : Kinds, to : Sessions]
<1> HIDE DEF S
<1>4. script[s] \in Seq(S)
  BY <1>1 DEF S
<1>5. script[s][n] \in S
  BY <1>3, <1>4, ElementFacts
<1> QED BY <1>2, <1>3, <1>5 DEF S

\* A session reads a request.
LEMMA ReadStep ==
  ASSUME MessagingTypeOK, QueueUse, InOrderNow, NEW s \in Sessions, Read(s)
  PROVE  InOrderNow' /\ TypedNow' /\ NothingSent
<1> DEFINE n == read[s] + 1
<1>1. TypedNow /\ script' = script /\ wire' = wire /\ awaiting' = awaiting /\ read' = [read EXCEPT ![s] = n]
  BY TypesUsed DEF Read
<1>2. Orderly(script, tasks, wire, que, read', awaiting) /\ Typed(tasks, wire, que, read', awaiting)
  BY <1>1, ReadOn DEF InOrderNow, TypedNow
<1>3. CASE type = "COROUTINE" /\ que' = que /\
           tasks' = IF HasService(s, n) THEN Post(s, Handle(s, n)) ELSE tasks
  <2>1. CASE ~HasService(s, n)
    <3>1. tasks' = tasks
      BY <1>3, <2>1
    <3> QED BY <1>1, <1>2, <1>3, <3>1 DEF InOrderNow, TypedNow, NothingSent, SentNow, IsSent, Sending
  <2>2. CASE HasService(s, n)
    <3>1. tasks' = Posted(tasks, s, Handle(s, n))
      BY <1>3, <2>2 DEF Post, Posted
    <3>2. /\ n \in Nat /\ 1 <= n
          /\ \A m \in Nat : Pending(tasks, que, s, m) => m < n
          /\ \A r \in Sessions, p \in Packets : IsSent(tasks, wire, r, p) /\ p.src = s => p.seq < n
          /\ \A m \in awaiting[s] : m < n
      BY <1>1, ReadNext DEF InOrderNow, TypedNow
    <3>3. n <= read'[s]
      BY <1>1, <3>2 DEF TypedNow, Typed
    <3>4. \A m \in Nat : (Handling(tasks, s, m) => m < n) /\ (Queued(que, s, m) => n < m)
      BY <1>3, <3>2 DEF QueueUse, Queued, Pending
    <3> HIDE DEF n
    <3>5. /\ Orderly(script, tasks', wire, que, read', awaiting)
          /\ Typed(tasks', wire, que, read', awaiting)
          /\ \A u \in Sessions : \A p : IsSent(tasks', wire, u, p) <=> IsSent(tasks, wire, u, p)
      BY <1>2, <3>1, <3>2, <3>3, <3>4, PostedRequest
    <3> QED BY <1>1, <1>3, <3>5 DEF InOrderNow, TypedNow, NothingSent, SentNow
  <2> QED BY <2>1, <2>2
<1>4. CASE que' = Append(que, <<s, n>>) /\ tasks' = tasks
  <2>1. Orderly(script, tasks, wire, que', read', awaiting) /\ Typed(tasks, wire, que', read', awaiting)
    BY <1>1, <1>4, QueuedLast DEF InOrderNow, TypedNow
  <2> QED BY <1>1, <1>4, <2>1 DEF InOrderNow, TypedNow, NothingSent, SentNow
<1> QED BY <1>3, <1>4 DEF Read, logicVars

\* Close posts its task.
LEMMA ClosingStep ==
  ASSUME MessagingTypeOK, InOrderNow, NEW s \in Sessions, ReadFails(s) \/ Stops(s)
  PROVE  InOrderNow' /\ TypedNow' /\ NothingSent
<1>1. TypedNow /\ UNCHANGED <<script, wire, que, read, awaiting>>
  BY TypesUsed DEF ReadFails, Stops, logicVars
<1>2. tasks' = tasks \/ tasks' = Posted(tasks, s, CloseTask(s))
  BY DEF ReadFails, Stops, Post, Posted
<1>3. CASE tasks' = tasks
  BY <1>1, <1>3 DEF InOrderNow, TypedNow, NothingSent, SentNow
<1>4. CASE tasks' = Posted(tasks, s, CloseTask(s))
  <2>1. /\ Orderly(script, tasks', wire, que, read, awaiting)
        /\ Typed(tasks', wire, que, read, awaiting)
        /\ \A u \in Sessions : \A p : IsSent(tasks', wire, u, p) <=> IsSent(tasks, wire, u, p)
    BY <1>1, <1>4, PostedClose DEF InOrderNow, TypedNow
  <2> QED BY <1>1, <2>1 DEF InOrderNow, TypedNow, NothingSent, SentNow
<1> QED BY <1>2, <1>3, <1>4

\* LogicSystem's worker dispatches a message.
LEMMA DispatchStep ==
  ASSUME MessagingTypeOK, InOrderNow, DispatchNext
  PROVE  InOrderNow' /\ TypedNow' /\ NothingSent
<1> DEFINE s == Head(que)[1]
           n == Head(que)[2]
<1>1. /\ TypedNow /\ UNCHANGED <<script, wire, read, awaiting>>
      /\ que # <<>> /\ que' = Tail(que)
      /\ tasks' = tasks \/ tasks' = Post(s, Handle(s, n))
  BY TypesUsed DEF DispatchNext, NextMessage, Remaining, sessionVars
<1>2. /\ Orderly(script, tasks, wire, que', read, awaiting) /\ Typed(tasks, wire, que', read, awaiting)
      /\ s \in Sessions /\ n \in Nat /\ 1 <= n /\ n <= read[s]
      /\ \A m \in Nat : (Handling(tasks, s, m) => m < n) /\ (Queued(que', s, m) => n < m)
      /\ \A r \in Sessions, p \in Packets : IsSent(tasks, wire, r, p) /\ p.src = s => p.seq < n
      /\ \A m \in awaiting[s] : m < n
  <2>1. Typed(tasks, wire, que, read, awaiting) /\ Orderly(script, tasks, wire, que, read, awaiting)
    BY <1>1 DEF InOrderNow, TypedNow
  <2> QED BY <1>1, <2>1, DispatchedFirst
<1> HIDE DEF s, n
<1>3. CASE tasks' = tasks
  BY <1>1, <1>2, <1>3 DEF InOrderNow, TypedNow, NothingSent, SentNow
<1>4. CASE tasks' = Post(s, Handle(s, n))
  <2>1. tasks' = Posted(tasks, s, Handle(s, n))
    BY <1>4 DEF Post, Posted
  <2>2. /\ Orderly(script, tasks', wire, que', read, awaiting)
        /\ Typed(tasks', wire, que', read, awaiting)
        /\ \A u \in Sessions : \A p : IsSent(tasks', wire, u, p) <=> IsSent(tasks, wire, u, p)
    BY <1>2, <2>1, PostedRequest
  <2> QED BY <1>1, <2>2 DEF InOrderNow, TypedNow, NothingSent, SentNow
<1> QED BY <1>1, <1>3, <1>4

\* A step from which what was sent is still on its way, unless DoSend dropped it.
NothingVanishes ==
  \A r \in Sessions : \A p : SentNow(r, p) => SentNow(r, p)' \/ stopped'[r] \/ <<r, p>> \in lost'

FirstTask(s) == Head(tasks[s])

\* DoSend and the closing of the socket.
LEMMA SendOrCloseStep ==
  ASSUME MessagingTypeOK, InOrderNow, NEW s \in Sessions, tasks[s] # <<>>,
         tasks' = Taken(tasks, s), UNCHANGED <<script, que, read, awaiting, stopped>>,
         \/ FirstTask(s).op = "send" /\ RunDoSend(s, FirstTask(s).packet)
         \/ FirstTask(s).op = "close" /\ wire' = wire /\ lost' = lost
  PROVE  /\ InOrderNow' /\ TypedNow' /\ lost \subseteq lost' /\ lost' \subseteq Sessions \X Packets
         /\ \A r \in Sessions : \A p : SentNow(r, p)' => SentNow(r, p)
         /\ NothingVanishes
<1>1. TypedNow /\ Typed(tasks, wire, que, read, awaiting) /\ Orderly(script, tasks, wire, que, read, awaiting)
  BY TypesUsed DEF InOrderNow, TypedNow
<1>2. /\ Orderly(script, Taken(tasks, s), wire, que, read, awaiting)
      /\ Typed(Taken(tasks, s), wire, que, read, awaiting)
      /\ \A u \in Sessions : \A p : IsSent(tasks, wire, u, p) <=>
           IsSent(Taken(tasks, s), wire, u, p) \/ (u = s /\ FirstTask(s).op = "send" /\ FirstTask(s).packet = p)
  BY <1>1, TakenFirst DEF FirstTask
<1>3. FirstTask(s).packet \in Packets
  <2>1. tasks \in [Sessions -> Seq(Tasks)]
    BY DEF MessagingTypeOK
  <2>2. FirstTask(s) \in Tasks
    BY <2>1, TakeFacts DEF IsTaken, FirstTask
  <2> QED BY <2>2 DEF Tasks
<1>4. CASE wire' = wire /\ lost' = lost /\ (FirstTask(s).op = "close" \/ stopped[s])
  BY <1>2, <1>4 DEF InOrderNow, TypedNow, SentNow, NothingVanishes, MessagingTypeOK
<1>5. CASE wire' = wire /\ lost' = lost \cup {<<s, FirstTask(s).packet>>}
  BY <1>2, <1>3, <1>5 DEF InOrderNow, TypedNow, SentNow, NothingVanishes, MessagingTypeOK
<1>6. CASE FirstTask(s).op = "send" /\ lost' = lost /\ wire' = [wire EXCEPT ![s] = Append(wire[s], FirstTask(s).packet)]
  <2>1. /\ Orderly(script, tasks', wire', que, read, awaiting)
        /\ Typed(tasks', wire', que, read, awaiting)
        /\ \A u \in Sessions : \A p : IsSent(tasks', wire', u, p) <=> IsSent(tasks, wire, u, p)
    <3>1. wire' = Received(tasks, wire, s)
      BY <1>6 DEF Received, FirstTask
    <3> DEFINE t2 == Taken(tasks, s)
               w2 == Received(tasks, wire, s)
    <3>2. /\ Orderly(script, t2, w2, que, read, awaiting) /\ Typed(t2, w2, que, read, awaiting)
          /\ \A u \in Sessions : \A p : IsSent(t2, w2, u, p) <=> IsSent(tasks, wire, u, p)
      BY <1>1, <1>6, Delivered DEF FirstTask
    <3> QED BY <3>1, <3>2
  <2> QED BY <1>6, <2>1 DEF InOrderNow, TypedNow, SentNow, NothingVanishes, MessagingTypeOK
<1> QED BY <1>4, <1>5, <1>6 DEF RunDoSend

\* The executor's answer is replied, or the reply is lost.
LEMMA ResumeStep ==
  ASSUME MessagingTypeOK, InOrderNow, NEW s \in Sessions, Resume(s)
  PROVE  /\ InOrderNow' /\ TypedNow'
         /\ lost \subseteq lost' /\ lost' \subseteq Sessions \X Packets
         /\ \E n \in awaiting[s] : \A r \in Sessions : \A p :
              /\ SentNow(r, p) => SentNow(r, p)'
              /\ SentNow(r, p)' => SentNow(r, p) \/ (r = s /\ p = Packet(s, n, "ok"))
         /\ \A n \in awaiting[s] : n \in Nat /\ script[s][n].kind = "db"
<1>1. /\ Typed(tasks, wire, que, read, awaiting) /\ Orderly(script, tasks, wire, que, read, awaiting)
      /\ OneAtATime(script, tasks, wire, que, read, awaiting) /\ UNCHANGED <<script, wire, que, read>>
  BY TypesUsed DEF InOrderNow, TypedNow, Orderly, Resume, sessionVars, logicVars
<1>2. PICK n \in awaiting[s] :
        /\ awaiting' = [awaiting EXCEPT ![s] = @ \ {n}]
        /\ \/ tasks' = [tasks EXCEPT ![s] = Replied(s, n, "ok", @)] /\ lost' = lost
           \/ tasks' = tasks /\ lost' = lost \cup {<<s, Packet(s, n, "ok")>>}
  BY DEF Resume
<1>3. n \in Nat /\ 1 <= n /\ n <= read[s] /\ (\A m \in Nat : Pending(tasks, que, s, m) => n < m)
  BY <1>1 DEF OneAtATime, Typed
<1>4. /\ awaiting' \in [Sessions -> SUBSET Nat] /\ n \notin awaiting'[s]
      /\ \A u \in Sessions : awaiting'[u] \subseteq awaiting[u]
  BY <1>1, <1>2 DEF Typed
<1>5. OneAtATime(script, tasks, wire, que, read, awaiting')
  BY <1>1, <1>4, FewerAtATime
<1>6. Orderly(script, tasks, wire, que, read, awaiting') /\ Typed(tasks, wire, que, read, awaiting')
  BY <1>1, <1>4, <1>5 DEF Orderly, Typed
<1>7. \A k \in awaiting[s] : k \in Nat /\ script[s][k].kind = "db"
  BY <1>1 DEF OneAtATime, Typed
<1>8. lost \subseteq lost' /\ lost' \subseteq Sessions \X Packets
  BY <1>2, <1>3 DEF MessagingTypeOK, Packet, Packets
<1>9. CASE tasks' = [tasks EXCEPT ![s] = Replied(s, n, "ok", @)]
  <2>1. \A p \in Packets : IsSent(tasks, wire, s, p) /\ p.src = s /\ p.what # "message" =>
          p.seq # n /\ script[s][n].kind = "db"
    BY <1>1 DEF OneAtATime
  <2>2. tasks' = WithReply(tasks, s, n, "ok")
    BY <1>9 DEF WithReply
  <2>3. /\ Orderly(script, tasks', wire, que, read, awaiting') /\ Typed(tasks', wire, que, read, awaiting')
        /\ \A u \in Sessions : \A p : IsSent(tasks', wire, u, p) <=>
             IsSent(tasks, wire, u, p) \/ (Reaches(s) /\ u = s /\ p = Packet(s, n, "ok"))
    BY <1>3, <1>4, <1>6, <2>1, <2>2, ReplyPosted
  <2> QED BY <1>1, <1>7, <1>8, <2>3 DEF InOrderNow, TypedNow, SentNow
<1>10. CASE tasks' = tasks
  BY <1>1, <1>6, <1>7, <1>8, <1>10 DEF InOrderNow, TypedNow, SentNow
<1> QED BY <1>2, <1>9, <1>10

\* The request that a task handles is the current one once the task is taken.
LEMMA HandledRequest ==
  ASSUME MessagingTypeOK, InOrderNow, NEW s \in Sessions, tasks[s] # <<>>, FirstTask(s).op = "handle"
  PROVE  LET n  == FirstTask(s).packet.seq
             t2 == Taken(tasks, s)
         IN  /\ Orderly(script, t2, wire, que, read, awaiting) /\ Typed(t2, wire, que, read, awaiting)
             /\ n \in Nat /\ Current(t2, wire, que, read, awaiting, s, n) /\ n \notin awaiting[s]
             /\ \A r \in Sessions : \A p : IsSent(t2, wire, r, p) <=> SentNow(r, p)
<1> DEFINE n == FirstTask(s).packet.seq
           t2 == Taken(tasks, s)
<1>1. Typed(tasks, wire, que, read, awaiting) /\ Orderly(script, tasks, wire, que, read, awaiting)
  BY TypesUsed DEF InOrderNow, TypedNow
<1>2. /\ Orderly(script, t2, wire, que, read, awaiting) /\ Typed(t2, wire, que, read, awaiting)
      /\ \A u \in Sessions : \A p : IsSent(tasks, wire, u, p) <=>
           IsSent(t2, wire, u, p) \/ (u = s /\ FirstTask(s).op = "send" /\ FirstTask(s).packet = p)
      /\ Current(t2, wire, que, read, awaiting, s, n)
  BY <1>1, TakenFirst DEF FirstTask
<1>3. n \in Nat
  <2>1. tasks \in [Sessions -> Seq(Tasks)]
    BY DEF MessagingTypeOK
  <2>2. FirstTask(s) \in Tasks
    BY <2>1, TakeFacts DEF IsTaken, FirstTask
  <2> QED BY <2>2 DEF Tasks, Packets
<1>4. n \notin awaiting[s]
  BY <1>2, <1>3 DEF Current
<1> QED BY <1>2, <1>3, <1>4 DEF SentNow

\* A service replies to request n of s, or does not, or closes the session, or waits for the executor.
LEMMA ServiceStep ==
  ASSUME MessagingTypeOK, InOrderNow, NEW s \in Sessions, tasks[s] # <<>>, FirstTask(s).op = "handle",
         NEW n, n = FirstTask(s).packet.seq, UNCHANGED <<script, wire, que, read>>,
         \/ tasks' = WithReply(Taken(tasks, s), s, n, "ok") /\ awaiting' = awaiting
         \/ tasks' = Taken(tasks, s) /\ awaiting' = awaiting
         \/ tasks' = Posted(Taken(tasks, s), s, CloseTask(s)) /\ awaiting' = awaiting
         \/ /\ tasks' = Taken(tasks, s) /\ script[s][n].kind = "db"
            /\ awaiting' = [awaiting EXCEPT ![s] = awaiting[s] \cup {n}]
  PROVE  /\ InOrderNow' /\ TypedNow'
         /\ \A r \in Sessions : \A p : SentNow(r, p) => SentNow(r, p)'
         /\ \A r \in Sessions : \A p : SentNow(r, p)' => SentNow(r, p) \/ (r = s /\ p = Packet(s, n, "ok"))
<1> DEFINE t2 == Taken(tasks, s)
<1>1. /\ Orderly(script, t2, wire, que, read, awaiting) /\ Typed(t2, wire, que, read, awaiting)
      /\ n \in Nat /\ Current(t2, wire, que, read, awaiting, s, n) /\ n \notin awaiting[s]
      /\ \A r \in Sessions : \A p : IsSent(t2, wire, r, p) <=> SentNow(r, p)
  BY HandledRequest
<1> HIDE DEF t2
<1>2. CASE tasks' = WithReply(t2, s, n, "ok") /\ awaiting' = awaiting
  <2>1. /\ 1 <= n /\ n <= read[s] /\ (\A m \in Nat : Pending(t2, que, s, m) => n < m)
        /\ \A p \in Packets : IsSent(t2, wire, s, p) /\ p.src = s /\ p.what # "message" => p.seq < n
    BY <1>1 DEF Current
  <2> DEFINE t3 == WithReply(t2, s, n, "ok")
  <2>2. /\ Orderly(script, t3, wire, que, read, awaiting) /\ Typed(t3, wire, que, read, awaiting)
        /\ \A u \in Sessions : \A p : IsSent(t3, wire, u, p) <=>
             IsSent(t2, wire, u, p) \/ (Reaches(s) /\ u = s /\ p = Packet(s, n, "ok"))
    BY <1>1, <2>1, ReplyPosted
  <2> QED BY <1>1, <1>2, <2>2 DEF InOrderNow, TypedNow, SentNow
<1>3. CASE tasks' = t2 /\ awaiting' = awaiting
  BY <1>1, <1>3 DEF InOrderNow, TypedNow, SentNow
<1>4. CASE tasks' = Posted(t2, s, CloseTask(s)) /\ awaiting' = awaiting
  <2> DEFINE t3 == Posted(t2, s, CloseTask(s))
  <2>1. /\ Orderly(script, t3, wire, que, read, awaiting) /\ Typed(t3, wire, que, read, awaiting)
        /\ \A u \in Sessions : \A p : IsSent(t3, wire, u, p) <=> IsSent(t2, wire, u, p)
    BY <1>1, PostedClose
  <2> QED BY <1>1, <1>4, <2>1 DEF InOrderNow, TypedNow, SentNow
<1>5. CASE tasks' = t2 /\ script[s][n].kind = "db" /\ awaiting' = [awaiting EXCEPT ![s] = awaiting[s] \cup {n}]
  <2>1. Orderly(script, t2, wire, que, read, awaiting') /\ Typed(t2, wire, que, read, awaiting')
    BY <1>1, <1>5, Awaits
  <2> QED BY <1>1, <1>5, <2>1 DEF InOrderNow, TypedNow, SentNow
<1> QED BY <1>2, <1>3, <1>4, <1>5 DEF t2

\* A message is forwarded to t, or is not, and its sender is told.
LEMMA ForwardStep ==
  ASSUME MessagingTypeOK, InOrderNow, NEW s \in Sessions, tasks[s] # <<>>, FirstTask(s).op = "handle",
         NEW n, n = FirstTask(s).packet.seq, UNCHANGED <<script, wire, que, read, awaiting>>,
         NEW t \in Sessions, t = script[s][n].to, OnSendCallBack(s, n, Tail(tasks[s]))
  PROVE  /\ InOrderNow' /\ TypedNow' /\ n \in Nat
         /\ \A r \in Sessions, p \in Packets : SentNow(r, p) /\ p.src = s => p.seq < n
         /\ \A r \in Sessions : \A p : SentNow(r, p)' <=>
              \/ SentNow(r, p)
              \/ ForwardReply(t) = "ok" /\ Reaches(t) /\ r = t /\ p = Packet(s, n, "message")
              \/ Reaches(s) /\ r = s /\ p = Packet(s, n, ForwardReply(t))
<1> DEFINE t2 == Taken(tasks, s)
           m == Packet(s, n, "message")
           forwards == ForwardReply(t) = "ok" /\ Reaches(t)
           t3 == IF forwards THEN Posted(t2, t, Task("send", m)) ELSE t2
<1>1. /\ Orderly(script, t2, wire, que, read, awaiting) /\ Typed(t2, wire, que, read, awaiting)
      /\ n \in Nat /\ Current(t2, wire, que, read, awaiting, s, n) /\ n \notin awaiting[s]
      /\ \A r \in Sessions : \A p : IsSent(t2, wire, r, p) <=> SentNow(r, p)
  BY HandledRequest
<1>2. tasks' = WithReply(t3, s, n, ForwardReply(t))
  BY DEF OnSendCallBack, WithReply, Taken, Posted, Sent
<1>3. m \in Packets /\ m.src = s /\ m.seq = n /\ m.what = "message"
  BY <1>1 DEF Packet, Packets
<1> HIDE DEF t2, m
<1>4. /\ 1 <= n /\ n <= read[s] /\ (\A k \in Nat : Pending(t2, que, s, k) => n < k)
      /\ \A r \in Sessions, p \in Packets : IsSent(t2, wire, r, p) /\ p.src = s => p.seq < n
  BY <1>1 DEF Current
<1>5. /\ Orderly(script, t3, wire, que, read, awaiting) /\ Typed(t3, wire, que, read, awaiting)
      /\ \A k \in Nat : Pending(t3, que, s, k) => n < k
      /\ \A r \in Sessions : \A p : IsSent(t3, wire, r, p) <=> SentNow(r, p) \/ (forwards /\ r = t /\ p = m)
  <2>1. CASE forwards
    <3>1. \A p \in Packets : IsSent(t2, wire, t, p) => InOrder(script, t, p, m)
      BY <1>3, <1>4 DEF InOrder
    <3> DEFINE t4 == Posted(t2, t, Task("send", m))
    <3>2. /\ Orderly(script, t4, wire, que, read, awaiting) /\ Typed(t4, wire, que, read, awaiting)
          /\ \A u \in Sessions : \A p : IsSent(t4, wire, u, p) <=> IsSent(t2, wire, u, p) \/ (u = t /\ p = m)
          /\ \A u \in Sessions : \A k : Pending(t4, que, u, k) <=> Pending(t2, que, u, k)
      BY <1>1, <1>3, <1>4, <3>1, PostedSend
    <3> HIDE DEF t4, forwards
    <3>3. t3 = t4
      BY <2>1 DEF t4
    <3> QED BY <1>1, <1>4, <2>1, <3>2, <3>3
  <2>2. CASE ~forwards
    BY <1>1, <1>4, <2>2
  <2> QED BY <2>1, <2>2
<1> HIDE DEF t3, forwards
<1>6. \A p \in Packets : IsSent(t3, wire, s, p) /\ p.src = s /\ p.what # "message" => p.seq < n
  BY <1>1, <1>3, <1>4, <1>5
<1>7. ForwardReply(t) \in {"ok", "error"}
  BY DEF ForwardReply
<1> DEFINE t5 == WithReply(t3, s, n, ForwardReply(t))
<1>8. /\ Orderly(script, t5, wire, que, read, awaiting) /\ Typed(t5, wire, que, read, awaiting)
      /\ \A u \in Sessions : \A p : IsSent(t5, wire, u, p) <=>
           IsSent(t3, wire, u, p) \/ (Reaches(s) /\ u = s /\ p = Packet(s, n, ForwardReply(t)))
  BY <1>1, <1>4, <1>5, <1>6, <1>7, ReplyPosted
<1> HIDE DEF t5
<1>9. tasks' = t5
  BY <1>2 DEF t5
<1>10. \A r \in Sessions, p \in Packets : SentNow(r, p) /\ p.src = s => p.seq < n
  BY <1>1, <1>4
<1> QED BY <1>1, <1>5, <1>8, <1>9, <1>10 DEF InOrderNow, TypedNow, SentNow, forwards, m

-----------------------------------------------------------------------------
(* What a sender is told *)

\* What p, a reply of s to a forwarding request, says of the message m to t.
Told(p, t, m) == IF p.what = "ok" THEN SentNow(t, m) \/ <<t, m>> \in lost \/ stopped[t] ELSE ~SentNow(t, m)

Truthful ==
  \A s \in Sessions, p \in Packets :
    SentNow(s, p) /\ p.what # "message" /\ script[s][p.seq].kind = "forward" =>
      Told(p, script[s][p.seq].to, Packet(s, p.seq, "message"))

\* A reply is to a request of the script.
LEMMA ReplyEntry ==
  ASSUME MessagingTypeOK, InOrderNow, NEW s \in Sessions, NEW p \in Packets,
         SentNow(s, p), p.what # "message"
  PROVE  p.src = s /\ p.seq \in Nat /\ script[s][p.seq].to \in Sessions
<1>1. OneAtATime(script, tasks, wire, que, read, awaiting) /\ p.seq \in Nat
  BY DEF InOrderNow, Orderly, Packets
<1>2. p.src = s /\ 1 <= p.seq /\ p.seq <= read[s]
  BY <1>1 DEF OneAtATime, SentNow
<1> QED BY <1>1, <1>2, ScriptEntry

\* No message is sent, and no reply to a request to forward one.
LEMMA TruthKept ==
  ASSUME MessagingTypeOK, InOrderNow, Truthful, script' = script, lost \subseteq lost',
         \A r \in Sessions : stopped[r] => stopped'[r],
         NothingVanishes,
         \A r \in Sessions, p \in Packets : SentNow(r, p)' => SentNow(r, p) \/
           (p.what # "message" /\ script[r][p.seq].kind # "forward")
  PROVE  Truthful'
<1> SUFFICES ASSUME NEW s \in Sessions, NEW p \in Packets,
                    SentNow(s, p)', p.what # "message", script[s][p.seq].kind = "forward"
             PROVE  Told(p, script[s][p.seq].to, Packet(s, p.seq, "message"))'
  BY DEF Truthful
<1>1. SentNow(s, p) /\ script[s][p.seq].to \in Sessions /\ p.seq \in Nat
  <2>1. SentNow(s, p)
    OBVIOUS
  <2> QED BY <2>1, ReplyEntry
<1>2. PICK t \in Sessions : t = script[s][p.seq].to
  BY <1>1
<1>3. PICK m \in Packets : m = Packet(s, p.seq, "message")
  BY <1>1 DEF Packet, Packets
<1>4. Told(p, t, m)
  BY <1>1, <1>2, <1>3 DEF Truthful
<1>5. m.what = "message"
  BY <1>3 DEF Packet
<1>6. CASE p.what = "ok"
  <2>1. SentNow(t, m)' \/ <<t, m>> \in lost' \/ stopped'[t]
    BY <1>4, <1>6 DEF Told, NothingVanishes
  <2> QED BY <1>2, <1>3, <1>6, <2>1 DEF Told, Packet
<1>7. CASE p.what # "ok"
  <2>1. ~SentNow(t, m)'
    BY <1>4, <1>5, <1>7 DEF Told
  <2> QED BY <1>2, <1>3, <1>7, <2>1 DEF Told, Packet
<1> QED BY <1>6, <1>7

\* A message is forwarded: its sender is told what is done.
LEMMA TruthTold ==
  ASSUME MessagingTypeOK, InOrderNow, Truthful, UNCHANGED <<script, lost, stopped>>,
         NEW s \in Sessions, NEW n \in Nat, NEW t \in Sessions, t = script[s][n].to,
         NEW what, what = ForwardReply(t),
         \A r \in Sessions, p \in Packets : SentNow(r, p) /\ p.src = s => p.seq < n,
         \A r \in Sessions : \A p : SentNow(r, p)' <=>
           \/ SentNow(r, p)
           \/ what = "ok" /\ Reaches(t) /\ r = t /\ p = Packet(s, n, "message")
           \/ Reaches(s) /\ r = s /\ p = Packet(s, n, what)
  PROVE  Truthful'
<1> SUFFICES ASSUME NEW r \in Sessions, NEW p \in Packets,
                    SentNow(r, p)', p.what # "message", script[r][p.seq].kind = "forward"
             PROVE  Told(p, script[r][p.seq].to, Packet(r, p.seq, "message"))'
  BY DEF Truthful
<1>1. what # "message" /\ what \in {"ok", "error"}
  BY DEF ForwardReply
<1>2. /\ \A q : q = Packet(s, n, "message") => q.src = s /\ q.seq = n /\ q.what = "message"
      /\ \A q : q = Packet(s, n, what) => q.src = s /\ q.seq = n /\ q.what = what
  BY DEF Packet
<1>3. CASE SentNow(r, p)
  <2>1. p.src = r /\ p.seq \in Nat /\ script[r][p.seq].to \in Sessions
    BY <1>3, ReplyEntry
  <2>2. PICK u \in Sessions : u = script[r][p.seq].to
    BY <2>1
  <2>3. PICK m \in Packets : m = Packet(r, p.seq, "message")
    BY <2>1 DEF Packet, Packets
  <2>4. Told(p, u, m)
    BY <1>3, <2>2, <2>3 DEF Truthful
  <2>5. m.src = r /\ m.seq = p.seq /\ m.what = "message"
    BY <2>3 DEF Packet
  <2>6. CASE p.what = "ok"
    <3>1. SentNow(u, m)' \/ <<u, m>> \in lost \/ stopped[u]
      BY <2>4, <2>6 DEF Told
    <3> QED BY <2>2, <2>3, <2>6, <3>1 DEF Told, Packet
  <2>7. CASE p.what # "ok"
    <3>1. r = s => p.seq < n
      BY <1>3, <2>1
    <3>2. m # Packet(s, n, "message") /\ m # Packet(s, n, what)
      BY <1>1, <1>2, <2>1, <2>5, <3>1
    <3>3. ~SentNow(u, m)'
      BY <2>4, <2>7, <3>2 DEF Told
    <3> QED BY <2>2, <2>3, <2>7, <3>3 DEF Told, Packet
  <2> QED BY <2>6, <2>7
<1>4. CASE r = s /\ p = Packet(s, n, what)
  <2>1. p.seq = n /\ p.what = what
    BY <1>2, <1>4
  <2>2. PICK m \in Packets : m = Packet(s, n, "message")
    BY DEF Packet, Packets
  <2>3. CASE what = "ok"
    <3>1. SentNow(t, m)' \/ stopped[t]
      BY <2>2, <2>3 DEF Reaches
    <3> QED BY <1>4, <2>1, <2>2, <2>3, <3>1 DEF Told, Packet
  <2>4. CASE what # "ok"
    <3>1. ~SentNow(t, m)
      BY <1>2, <2>2
    <3>2. m # Packet(s, n, what)
      BY <1>1, <1>2, <2>2
    <3>3. ~SentNow(t, m)'
      BY <2>4, <3>1, <3>2
    <3> QED BY <1>4, <2>1, <2>2, <2>4, <3>3 DEF Told, Packet
  <2> QED BY <2>3, <2>4
<1> QED BY <1>2, <1>3, <1>4

\* What a service other than the forwarding one does: reply, nothing, close the session, or wait for the
\* executor.  It replies to what asks for an answer, unless the endpoint it logs is gone.
RepliesOk(s, n) ==
  tasks' = WithReply(Taken(tasks, s), s, n, "ok") /\ UNCHANGED <<awaiting, stopped>>
NoReply(s, n) ==
  /\ tasks' = Taken(tasks, s) /\ UNCHANGED <<awaiting, stopped>>
  /\ script[s][n].kind \in {"baddb", "nocmd"} \/ (script[s][n].kind = "heart" /\ EndpointThrows(s))
ClosesItself(s, n) ==
  /\ tasks' = Taken(tasks, s) \/ tasks' = Posted(Taken(tasks, s), s, CloseTask(s))
  /\ awaiting' = awaiting /\ stopped' = [stopped EXCEPT ![s] = TRUE]
Awaiting(s, n) ==
  /\ tasks' = Taken(tasks, s) /\ stopped' = stopped /\ script[s][n].kind = "db"
  /\ awaiting' = [awaiting EXCEPT ![s] = awaiting[s] \cup {n}]

\* These are the services there are.
LEMMA HandlerMoves ==
  ASSUME tasks \in [Sessions -> Seq(Tasks)], NEW s \in Sessions, tasks[s] # <<>>, NEW n,
         script[s][n].kind # "forward", RunHandler(s, n, Tail(tasks[s]))
  PROVE  RepliesOk(s, n) \/ NoReply(s, n) \/ ClosesItself(s, n) \/ Awaiting(s, n)
<1> DEFINE k == script[s][n].kind
           rest == Tail(tasks[s])
<1>1. /\ Taken(tasks, s) = [tasks EXCEPT ![s] = rest] /\ Taken(tasks, s)[s] = rest
      /\ \A x : [tasks EXCEPT ![s] = x] = [Taken(tasks, s) EXCEPT ![s] = x]
  BY DEF Taken
<1>2. CASE k = "echo"
  BY <1>1, <1>2 DEF RunHandler, OnHelloCallBack, WithReply, RepliesOk
<1>3. CASE k = "heart"
  BY <1>1, <1>3 DEF RunHandler, OnRecvHeartCallBack, WithReply, RepliesOk, NoReply
<1>4. CASE k = "close"
  BY <1>1, <1>4 DEF RunHandler, OnCloseCallBack, Posted, ClosesItself
<1>5. CASE k \in {"db", "baddb"}
  BY <1>1, <1>5 DEF RunHandler, OnExecuteCallBack, Awaiting, NoReply
<1>6. CASE k = "nocmd"
  BY <1>1, <1>6 DEF RunHandler, NoReply
<1> QED BY <1>2, <1>3, <1>4, <1>5, <1>6 DEF RunHandler

\* What the io thread of s runs.
LEMMA RunStep ==
  ASSUME MessagingTypeOK, InOrderNow, Truthful, NEW s \in Sessions, RunTask(s)
  PROVE  InOrderNow' /\ TypedNow' /\ Truthful' /\ lost' \subseteq Sessions \X Packets
<1> DEFINE task == Head(tasks[s])
           rest == Tail(tasks[s])
           n == FirstTask(s).packet.seq
           k == script[s][n].kind
<1>1. tasks[s] # <<>> /\ UNCHANGED <<script, que, read>> /\ tasks \in [Sessions -> Seq(Tasks)]
  BY DEF RunTask, logicVars, MessagingTypeOK
<1>2. CASE FirstTask(s).op \in {"send", "close"}
  <2>1. /\ tasks' = Taken(tasks, s) /\ UNCHANGED <<stopped, awaiting>>
        /\ \/ FirstTask(s).op = "send" /\ RunDoSend(s, FirstTask(s).packet)
           \/ FirstTask(s).op = "close" /\ wire' = wire /\ lost' = lost
    BY <1>2 DEF RunTask, RunDoSend, Taken, FirstTask
  <2>2. /\ InOrderNow' /\ TypedNow' /\ lost \subseteq lost' /\ lost' \subseteq Sessions \X Packets
        /\ \A r \in Sessions : \A p : SentNow(r, p)' => SentNow(r, p)
        /\ NothingVanishes
    BY <1>1, <2>1, SendOrCloseStep
  <2>3. Truthful'
    BY <1>1, <2>1, <2>2, TruthKept
  <2> QED BY <2>2, <2>3
<1>3. CASE FirstTask(s).op = "handle"
  <2>1. RunHandler(s, n, rest)
    BY <1>3 DEF RunTask, FirstTask
  <2>2. wire' = wire /\ lost' = lost /\ lost \subseteq Sessions \X Packets
    BY <2>1 DEF RunHandler, MessagingTypeOK
  <2>3. n \in Nat /\ 1 <= n /\ n <= read[s]
    BY <1>1, <1>3, HandledRequest DEF Current
  <2> HIDE DEF n
  <2>4. CASE k # "forward"
    <3>1. /\ \/ tasks' = WithReply(Taken(tasks, s), s, n, "ok") /\ awaiting' = awaiting
             \/ tasks' = Taken(tasks, s) /\ awaiting' = awaiting
             \/ tasks' = Posted(Taken(tasks, s), s, CloseTask(s)) /\ awaiting' = awaiting
             \/ /\ tasks' = Taken(tasks, s) /\ script[s][n].kind = "db"
                /\ awaiting' = [awaiting EXCEPT ![s] = awaiting[s] \cup {n}]
          /\ \A r \in Sessions : stopped[r] => stopped'[r]
      <4>1. stopped \in [Sessions -> BOOLEAN]
        BY DEF MessagingTypeOK
      <4>2. \/ RepliesOk(s, n) \/ NoReply(s, n) \/ ClosesItself(s, n) \/ Awaiting(s, n)
        BY <1>1, <2>1, <2>4, HandlerMoves
      <4> QED BY <4>1, <4>2 DEF RepliesOk, NoReply, ClosesItself, Awaiting
    <3>2. /\ InOrderNow' /\ TypedNow'
          /\ \A r \in Sessions : \A p : SentNow(r, p) => SentNow(r, p)'
          /\ \A r \in Sessions : \A p : SentNow(r, p)' => SentNow(r, p) \/ (r = s /\ p = Packet(s, n, "ok"))
      <4>1. UNCHANGED <<script, wire, que, read>> /\ n = FirstTask(s).packet.seq
        BY <1>1, <2>2 DEF n
      <4>2. MessagingTypeOK /\ InOrderNow /\ tasks[s] # <<>> /\ FirstTask(s).op = "handle"
        BY <1>1, <1>3
      <4> HIDE DEF rest, k
      <4> QED BY <3>1, <4>1, <4>2, ServiceStep
    <3>3. \A p : p = Packet(s, n, "ok") => p.what # "message" /\ script[s][p.seq].kind # "forward"
      BY <2>4 DEF Packet
    <3>4. NothingVanishes
      BY <3>2 DEF NothingVanishes
    <3>5. Truthful'
      BY <1>1, <2>2, <3>1, <3>2, <3>3, <3>4, TruthKept
    <3> QED BY <2>2, <3>2, <3>5
  <2>5. CASE k = "forward"
    <3>1. UNCHANGED <<stopped, awaiting>> /\ OnSendCallBack(s, n, Tail(tasks[s]))
      BY <2>1, <2>5 DEF RunHandler
    <3>2. PICK t \in Sessions : t = script[s][n].to
      BY <2>3, ScriptEntry
    <3>3. /\ InOrderNow' /\ TypedNow' /\ n \in Nat
          /\ \A r \in Sessions, p \in Packets : SentNow(r, p) /\ p.src = s => p.seq < n
          /\ \A r \in Sessions : \A p : SentNow(r, p)' <=>
               \/ SentNow(r, p)
               \/ ForwardReply(t) = "ok" /\ Reaches(t) /\ r = t /\ p = Packet(s, n, "message")
               \/ Reaches(s) /\ r = s /\ p = Packet(s, n, ForwardReply(t))
      BY <1>1, <1>3, <2>2, <3>1, <3>2, ForwardStep DEF n
    <3>4. Truthful'
      BY <1>1, <2>2, <3>1, <3>2, <3>3, TruthTold
    <3> QED BY <2>2, <3>3, <3>4
  <2> QED BY <2>4, <2>5
<1> QED BY <1>1, <1>2, <1>3, TakeFacts DEF IsTaken, FirstTask, Tasks

-----------------------------------------------------------------------------
(* The invariant *)

MessagingInv == MessagingTypeOK /\ QueueUse /\ InOrderNow /\ Truthful

\* A step after which no reply and no message has moved but those that DoSend could drop.
LEMMA QuietTruth ==
  ASSUME MessagingTypeOK, InOrderNow, Truthful, script' = script, lost' = lost,
         \A r \in Sessions : stopped[r] => stopped'[r], NothingSent
  PROVE  Truthful'
<1>1. NothingVanishes
  BY DEF NothingSent, NothingVanishes
<1> QED BY <1>1, TruthKept DEF NothingSent

\* Every step keeps the order of what is sent and the truth of what is told.
LEMMA OrderAndTruthStep ==
  ASSUME MessagingInv, [Next]_vars
  PROVE  InOrderNow' /\ TypedNow' /\ Truthful' /\ lost' \subseteq Sessions \X Packets
<1> USE DEF MessagingInv
<1>0. TypedNow /\ lost \subseteq Sessions \X Packets /\ stopped \in [Sessions -> BOOLEAN]
  BY TypesUsed DEF MessagingTypeOK
<1>1. ASSUME NEW s \in Sessions, Read(s) PROVE InOrderNow' /\ TypedNow' /\ Truthful' /\ lost' = lost
  <2>1. InOrderNow' /\ TypedNow' /\ NothingSent
    BY <1>1, ReadStep
  <2>2. UNCHANGED <<script, lost, stopped>>
    BY <1>1 DEF Read
  <2> QED BY <2>1, <2>2, QuietTruth
<1>2. ASSUME NEW s \in Sessions, ReadFails(s) \/ Stops(s)
      PROVE  InOrderNow' /\ TypedNow' /\ Truthful' /\ lost' = lost
  <2>1. InOrderNow' /\ TypedNow' /\ NothingSent
    BY <1>2, ClosingStep
  <2>2. UNCHANGED <<script, lost>> /\ stopped' = [stopped EXCEPT ![s] = TRUE]
    BY <1>2 DEF ReadFails, Stops
  <2>3. \A r \in Sessions : stopped[r] => stopped'[r]
    BY <1>0, <2>2
  <2> QED BY <2>1, <2>2, <2>3, QuietTruth
<1>3. ASSUME DispatchNext PROVE InOrderNow' /\ TypedNow' /\ Truthful' /\ lost' = lost
  <2>1. InOrderNow' /\ TypedNow' /\ NothingSent
    BY <1>3, DispatchStep
  <2>2. UNCHANGED <<script, lost, stopped>>
    BY <1>3 DEF DispatchNext, sessionVars
  <2> QED BY <2>1, <2>2, QuietTruth
<1>4. ASSUME NEW s \in Sessions, RunTask(s)
      PROVE  InOrderNow' /\ TypedNow' /\ Truthful' /\ lost' \subseteq Sessions \X Packets
  BY <1>4, RunStep
<1>5. ASSUME NEW s \in Sessions, Resume(s)
      PROVE  InOrderNow' /\ TypedNow' /\ Truthful' /\ lost' \subseteq Sessions \X Packets
  <2>1. InOrderNow' /\ TypedNow' /\ lost \subseteq lost' /\ lost' \subseteq Sessions \X Packets
    BY <1>5, ResumeStep
  <2>2. PICK n \in awaiting[s] : \A r \in Sessions : \A p :
          /\ SentNow(r, p) => SentNow(r, p)'
          /\ SentNow(r, p)' => SentNow(r, p) \/ (r = s /\ p = Packet(s, n, "ok"))
    BY <1>5, ResumeStep
  <2>3. script[s][n].kind = "db"
    BY <1>5, ResumeStep
  <2>4. \A p : p = Packet(s, n, "ok") => p.what # "message" /\ script[s][p.seq].kind # "forward"
    BY <2>3 DEF Packet
  <2>5. UNCHANGED <<script, stopped>>
    BY <1>5 DEF Resume, sessionVars
  <2>6. NothingVanishes
    BY <2>2 DEF NothingVanishes
  <2> QED BY <2>1, <2>2, <2>4, <2>5, <2>6, TruthKept
<1>6. ASSUME UNCHANGED <<script, tasks, wire, que, read, awaiting, lost, stopped>>
      PROVE  InOrderNow' /\ TypedNow' /\ Truthful' /\ lost' = lost
  <2>1. InOrderNow' /\ TypedNow' /\ NothingSent
    BY <1>0, <1>6 DEF InOrderNow, TypedNow, NothingSent, SentNow
  <2> QED BY <1>6, <2>1, QuietTruth
<1>7. ASSUME \/ \E s \in Sessions : PeerResets(s) \/ AllocateThrows(s)
             \/ Park \/ WorkerEnds \/ IoThreadsEnd \/ StopLogic \/ UNCHANGED vars
      PROVE  UNCHANGED <<script, tasks, wire, que, read, awaiting, lost, stopped>>
  BY <1>7 DEF PeerResets, AllocateThrows, Park, WorkerEnds, IoThreadsEnd, StopLogic, vars, sessionVars, handlingVars, logicVars
<1> QED BY <1>0, <1>1, <1>2, <1>3, <1>4, <1>5, <1>6, <1>7 DEF Next, WorkerStep

\* The worker and the queue.
LEMMA WorkerAndQueueStep ==
  ASSUME MessagingInv, [Next]_vars
  PROVE  /\ QueueUse'
         /\ worker' \in {"locking", "parking", "waiting", "ended"} /\ (worker' = "ended" => que' = <<>>)
         /\ ending' \in {"no", "joined", "flagged", "notified"}
<1> USE DEF MessagingInv, MessagingTypeOK, QueueUse
<1>0. /\ worker \in {"locking", "parking", "waiting", "ended"} /\ ending \in {"no", "joined", "flagged", "notified"}
      /\ reading \in [Sessions -> BOOLEAN]
  OBVIOUS
<1>1. ASSUME NEW s \in Sessions, Read(s)
      PROVE  /\ QueueUse' /\ ending' = ending
             /\ worker' \in {"locking", "parking", "waiting", "ended"} /\ (worker' = "ended" => que' = <<>>)
  <2>1. ending = "no" /\ ending' = "no" /\ worker # "ended" /\ type' = type
    BY <1>0, <1>1 DEF Read, Arrives, logicVars
  <2>2. worker' \in {"locking", "parking", "waiting"}
    BY <1>0, <1>1, <2>1 DEF Read, logicVars, WakeWorker
  <2>3. type = "COROUTINE" => que' = <<>>
    BY <1>1 DEF Read, logicVars
  <2> QED BY <2>1, <2>2, <2>3
<1>2. ASSUME NEW s \in Sessions,
             \/ AllocateThrows(s) \/ ReadFails(s) \/ Stops(s) \/ PeerResets(s) \/ RunTask(s) \/ Resume(s)
      PROVE  /\ UNCHANGED <<type, que, worker, ending>>
             /\ reading' = reading \/ reading' = [reading EXCEPT ![s] = FALSE]
  BY <1>2 DEF AllocateThrows, ReadFails, Stops, PeerResets, RunTask, Resume, sessionVars, logicVars
<1>3. ASSUME DispatchNext
      PROVE  /\ QueueUse' /\ ending' = ending
             /\ worker' \in {"locking", "parking", "waiting", "ended"} /\ (worker' = "ended" => que' = <<>>)
  <2>1. que # <<>> /\ worker = "locking" /\ UNCHANGED <<type, reading, worker, ending>>
    BY <1>3 DEF DispatchNext, sessionVars
  <2> QED BY <1>0, <2>1
<1>4. ASSUME Park \/ WorkerEnds \/ IoThreadsEnd \/ StopLogic
      PROVE  /\ QueueUse' /\ ending' \in {"no", "joined", "flagged", "notified"}
             /\ worker' \in {"locking", "parking", "waiting", "ended"} /\ (worker' = "ended" => que' = <<>>)
  <2>1. UNCHANGED <<type, que, reading>>
    BY <1>4 DEF Park, WorkerEnds, IoThreadsEnd, StopLogic, sessionVars
  <2>2. CASE Park
    BY <1>0, <2>1, <2>2 DEF Park
  <2>3. CASE WorkerEnds
    BY <1>0, <2>1, <2>3 DEF WorkerEnds, MustWait
  <2>4. CASE IoThreadsEnd
    BY <1>0, <2>1, <2>4 DEF IoThreadsEnd
  <2>5. CASE StopLogic
    BY <1>0, <2>1, <2>5 DEF StopLogic
  <2> QED BY <1>4, <2>2, <2>3, <2>4, <2>5
<1>5. CASE UNCHANGED vars
  BY <1>0, <1>5 DEF vars, sessionVars, logicVars
<1> QED BY <1>0, <1>1, <1>2, <1>3, <1>4, <1>5 DEF Next, WorkerStep

\* The types that are left: the sessions' flags, and the reader that is not ahead of its client.
LEMMA FlagsStep ==
  ASSUME MessagingInv, [Next]_vars
  PROVE  /\ type' = type /\ script' = script /\ down' \in BOOLEAN
         /\ \A s \in Sessions : read'[s] <= Len(script[s])
         /\ {reading', stopped', mapped', reset'} \subseteq [Sessions -> BOOLEAN]
<1> USE DEF MessagingInv, MessagingTypeOK
<1>0. /\ reading \in [Sessions -> BOOLEAN] /\ stopped \in [Sessions -> BOOLEAN]
      /\ mapped \in [Sessions -> BOOLEAN] /\ reset \in [Sessions -> BOOLEAN]
      /\ read \in [Sessions -> Nat] /\ \A s \in Sessions : read[s] <= Len(script[s])
      /\ down \in BOOLEAN
  OBVIOUS
<1>1. ASSUME NEW s \in Sessions, Read(s) PROVE
        /\ UNCHANGED <<type, script, down, stopped, mapped, reset>>
        /\ reading' \in [Sessions -> BOOLEAN]
        /\ \A u \in Sessions : read'[u] <= Len(script[u])
  <2>1. UNCHANGED <<type, script, down, stopped, mapped, reset>>
    BY <1>1 DEF Read
  <2>2. reading' \in [Sessions -> BOOLEAN]
    BY <1>0, <1>1 DEF Read
  <2>3. read' = [read EXCEPT ![s] = read[s] + 1] /\ read[s] + 1 <= Len(script[s])
    BY <1>0, <1>1, ScriptAssumption DEF Read, Arrives
  <2> QED BY <1>0, <2>1, <2>2, <2>3
<1>2. ASSUME NEW s \in Sessions, ReadFails(s)
      PROVE  /\ UNCHANGED <<type, script, down, read, reset>>
             /\ {reading', stopped', mapped'} \subseteq [Sessions -> BOOLEAN]
  BY <1>0, <1>2 DEF ReadFails
<1>3. ASSUME NEW s \in Sessions, Stops(s)
      PROVE  /\ UNCHANGED <<type, script, down, read, reading, reset>>
             /\ {stopped', mapped'} \subseteq [Sessions -> BOOLEAN]
  <2>1. PICK stays \in {TRUE, type = "ASYNC"} : mapped' = [mapped EXCEPT ![s] = @ /\ stays]
    BY <1>3 DEF Stops
  <2> QED BY <1>0, <1>3, <2>1 DEF Stops
<1>4. ASSUME NEW s \in Sessions, PeerResets(s)
      PROVE  /\ UNCHANGED <<type, script, down, read, reading, stopped, mapped>>
             /\ reset' \in [Sessions -> BOOLEAN]
  BY <1>0, <1>4 DEF PeerResets
<1>5. ASSUME NEW s \in Sessions, RunTask(s)
      PROVE  /\ UNCHANGED <<type, script, down, read, reading, reset>>
             /\ {stopped', mapped'} \subseteq [Sessions -> BOOLEAN]
  <2>1. UNCHANGED <<type, script, down, read, reading, reset>>
    BY <1>5 DEF RunTask
  <2>2. \/ UNCHANGED <<stopped, mapped>>
        \/ stopped' = [stopped EXCEPT ![s] = TRUE] /\ mapped' = [mapped EXCEPT ![s] = FALSE]
    BY <1>5 DEF RunTask, RunHandler, RunDoSend, OnCloseCallBack
  <2> QED BY <1>0, <2>1, <2>2
<1>6. ASSUME \/ \E s \in Sessions : Resume(s)
             \/ Park \/ WorkerEnds \/ IoThreadsEnd \/ StopLogic \/ UNCHANGED vars
      PROVE  UNCHANGED <<type, script, down, read, reading, stopped, mapped, reset>>
  BY <1>6 DEF Resume, Park, WorkerEnds, IoThreadsEnd, StopLogic, vars, sessionVars
<1>7. ASSUME DispatchNext
      PROVE  UNCHANGED <<type, script, read, reading, stopped, mapped, reset>> /\ down' \in BOOLEAN
  <2>1. UNCHANGED <<type, script, read, reading, stopped, mapped, reset>>
    BY <1>7 DEF DispatchNext, sessionVars
  <2>2. down' = (HasService(NextMessage[1], NextMessage[2]) /\ EndpointThrows(NextMessage[1]))
    BY <1>7 DEF DispatchNext
  <2>3. (HasService(NextMessage[1], NextMessage[2]) /\ EndpointThrows(NextMessage[1])) \in BOOLEAN
    OBVIOUS
  <2> QED BY <2>1, <2>2, <2>3
<1>8. ASSUME NEW s \in Sessions, AllocateThrows(s)
      PROVE  /\ UNCHANGED <<type, script, read, stopped, mapped, reset>>
             /\ reading' \in [Sessions -> BOOLEAN] /\ down' \in BOOLEAN
  BY <1>0, <1>8 DEF AllocateThrows
<1> QED BY <1>0, <1>1, <1>2, <1>3, <1>4, <1>5, <1>6, <1>7, <1>8 DEF Next, WorkerStep

\* At the start nothing was read, and nothing is on its way.
LEMMA InvariantInit ==
  ASSUME Init
  PROVE  MessagingInv
<1>1. /\ \A s \in Sessions : tasks[s] = <<>> /\ wire[s] = <<>> /\ awaiting[s] = {}
      /\ que = <<>> /\ DOMAIN que = {}
  BY DEF Init
<1>2. \A s \in Sessions : DOMAIN tasks[s] = {} /\ DOMAIN wire[s] = {}
  BY <1>1
<1>3. \A s \in Sessions : \A p : ~SentNow(s, p) /\ ~Pending(tasks, que, s, p) /\ ~Handling(tasks, s, p)
  BY <1>1, <1>2 DEF SentNow, IsSent, Sending, Pending, Handling, Queued
<1>4. SentInOrder(script, tasks, wire) /\ HandledInOrder(tasks, que)
  BY <1>1, <1>2, <1>3 DEF SentInOrder, HandledInOrder
<1>5. OneAtATime(script, tasks, wire, que, read, awaiting)
  BY <1>1, <1>3 DEF OneAtATime, SentNow
<1>6. Truthful
  BY <1>3 DEF Truthful
<1>7. QueueUse
  BY DEF Init, QueueUse
<1>8. MessagingTypeOK
  <2>1. \A s \in Sessions : Len(script[s]) \in Nat
    BY ScriptAssumption DEF Init
  <2>2. /\ tasks \in [Sessions -> Seq(Tasks)] /\ wire \in [Sessions -> Seq(Packets)]
        /\ que \in Seq(Sessions \X Nat)
    BY DEF Init
  <2>3. \A s \in Sessions : read[s] = 0 /\ 0 <= Len(script[s]) /\ awaiting[s] \subseteq 1 .. read[s]
    BY <2>1 DEF Init
  <2> QED BY <2>2, <2>3 DEF Init, MessagingTypeOK
<1> QED BY <1>4, <1>5, <1>6, <1>7, <1>8 DEF MessagingInv, InOrderNow, Orderly

\* Every step keeps the invariant.
LEMMA InvariantStep ==
  ASSUME MessagingInv, [Next]_vars
  PROVE  MessagingInv'
<1>1. InOrderNow' /\ TypedNow' /\ Truthful' /\ lost' \subseteq Sessions \X Packets
  BY OrderAndTruthStep
<1>2. /\ QueueUse'
      /\ worker' \in {"locking", "parking", "waiting", "ended"} /\ (worker' = "ended" => que' = <<>>)
      /\ ending' \in {"no", "joined", "flagged", "notified"}
  BY WorkerAndQueueStep
<1>3. /\ type' = type /\ script' = script /\ down' \in BOOLEAN
      /\ \A s \in Sessions : read'[s] <= Len(script[s])
      /\ {reading', stopped', mapped', reset'} \subseteq [Sessions -> BOOLEAN]
  BY FlagsStep
<1>4. \A s \in Sessions : awaiting'[s] \subseteq 1 .. read'[s]
  <2>1. \A s \in Sessions : awaiting'[s] \subseteq Nat /\ read'[s] \in Nat
    BY <1>1 DEF TypedNow, Typed
  <2>2. \A s \in Sessions : \A m \in awaiting'[s] : 1 <= m /\ m <= read'[s]
    BY <1>1 DEF InOrderNow, Orderly, OneAtATime
  <2> QED BY <2>1, <2>2
<1>5. type \in {"COROUTINE", "ASYNC"} /\ script \in Scripts
  BY DEF MessagingInv, MessagingTypeOK
<1>6. MessagingTypeOK'
  BY <1>1, <1>2, <1>3, <1>4, <1>5 DEF MessagingTypeOK, TypedNow, Typed
<1> QED BY <1>1, <1>2, <1>6 DEF MessagingInv

\* The invariant holds in every state of every behaviour.
THEOREM InvariantAlways == Safety => []MessagingInv
BY InvariantInit, InvariantStep, PTL DEF Safety

-----------------------------------------------------------------------------
(* The theorems *)

\* Every variable has its type, no reader is ahead of its client, and the worker of LogicSystem leaves
\* nothing behind in its queue.
THEOREM MessagingTypes == Safety => []MessagingTypeOK
<1>1. MessagingInv => MessagingTypeOK
  BY DEF MessagingInv
<1> QED BY <1>1, InvariantAlways, PTL

\* Replies and messages arrive in the order of the requests that caused them, once, but for the replies
\* of the database, through both types of server and with any number of sessions.
THEOREM DeliveryAlways == Safety => []Delivery
<1>1. MessagingInv => Delivery
  <2> SUFFICES ASSUME MessagingInv, NEW s \in Sessions, NEW i \in DOMAIN wire[s], NEW j \in DOMAIN wire[s], i < j
               PROVE  /\ wire[s][i].src = wire[s][j].src
                      /\ ((wire[s][i].what = "message") <=> (wire[s][j].what = "message"))
                      => \/ wire[s][i].seq < wire[s][j].seq
                         \/ /\ wire[s][i].seq # wire[s][j].seq
                            /\ \/ wire[s][i].what # "message" /\ script[s][wire[s][i].seq].kind = "db"
                               \/ wire[s][j].what # "message" /\ script[s][wire[s][j].seq].kind = "db"
    BY DEF Delivery
  <2>1. SentInOrder(script, tasks, wire)
    BY DEF MessagingInv, InOrderNow, Orderly
  <2>2. InOrder(script, s, wire[s][i], wire[s][j])
    BY <2>1 DEF SentInOrder
  <2> QED BY <2>2 DEF InOrder, OfDatabase
<1> QED BY <1>1, InvariantAlways, PTL

\* What a sender is told of a message it forwards is true, however late the reply is read.
THEOREM OutcomeIsTrueAlways == Safety => []OutcomeIsTrue
<1>1. MessagingInv => OutcomeIsTrue
  <2> SUFFICES ASSUME MessagingInv, NEW s \in Sessions, NEW i \in DOMAIN wire[s],
                      wire[s][i].what # "message", script[s][wire[s][i].seq].kind = "forward"
               PROVE  LET p == wire[s][i]
                          t == script[s][p.seq].to
                          m == Packet(s, p.seq, "message")
                          underWay == Contains(wire[t], m) \/ Contains(tasks[t], Task("send", m))
                      IN  IF p.what = "ok" THEN underWay \/ <<t, m>> \in lost \/ stopped[t] ELSE ~underWay
    BY DEF OutcomeIsTrue
  <2>1. /\ tasks \in [Sessions -> Seq(Tasks)] /\ wire \in [Sessions -> Seq(Packets)]
        /\ MessagingTypeOK /\ InOrderNow /\ Truthful
    BY DEF MessagingInv, MessagingTypeOK
  <2>2. PICK p \in Packets : p = wire[s][i]
    BY <2>1
  <2>3. SentNow(s, p)
    BY <2>2 DEF SentNow, IsSent
  <2>4. p.seq \in Nat /\ script[s][p.seq].to \in Sessions
    BY <2>1, <2>2, <2>3, ReplyEntry
  <2>5. PICK t \in Sessions : t = script[s][p.seq].to
    BY <2>4
  <2>6. PICK m \in Packets : m = Packet(s, p.seq, "message")
    BY <2>4 DEF Packet, Packets
  <2>7. Told(p, t, m)
    BY <2>1, <2>2, <2>3, <2>5, <2>6 DEF Truthful
  <2>8. SentNow(t, m) <=> Contains(wire[t], m) \/ Contains(tasks[t], Task("send", m))
    <3>1. wire[t] \in Seq(Packets) /\ tasks[t] \in Seq(Tasks)
      BY <2>1
    <3>2. (\E k \in DOMAIN wire[t] : wire[t][k] = m) <=> Contains(wire[t], m)
      BY <3>1 DEF Contains
    <3>3. \A k \in DOMAIN tasks[t] : tasks[t][k] \in Tasks
      BY <3>1
    <3>4. \A x \in Tasks : (x.op = "send" /\ x.packet = m) <=> x = Task("send", m)
      BY DEF Tasks, Task
    <3>5. Sending(tasks, t, m) <=> Contains(tasks[t], Task("send", m))
      BY <3>1, <3>3, <3>4 DEF Sending, Contains
    <3> QED BY <3>2, <3>5 DEF SentNow, IsSent
  <2> QED BY <2>2, <2>5, <2>6, <2>7, <2>8 DEF Told
<1> QED BY <1>1, InvariantAlways, PTL

-----------------------------------------------------------------------------
(* The sessions *)

\* A session as SessionLife describes it; Messaging begins with its insertion and never destroys it.
Session(s) == INSTANCE SessionLife WITH
  place <- IF mapped[s] THEN "in" ELSE "out", stopped <- stopped[s], gone <- FALSE,
  sock <- IF IsClosed(s) THEN "closed" ELSE IF reset[s] THEN "reset" ELSE "open"

\* s is going to close its socket.
Closing(tk, s) == \E i \in DOMAIN tk[s] : tk[s][i].op = "close"

\* What a step may do to a session: nothing, or run its close task; end it; meet the peer's reset.
Calm(s) == UNCHANGED <<stopped[s], mapped[s], reset[s]>> /\ (Closing(tasks', s) => Closing(tasks, s))
Ends(s) ==
  /\ stopped'[s] = TRUE /\ (mapped'[s] => mapped[s]) /\ reset'[s] = reset[s]
  /\ Closing(tasks', s) <=> Closing(tasks, s) \/ ~stopped[s]
Resets(s) == UNCHANGED <<stopped[s], mapped[s], tasks>> /\ (reset[s] => reset'[s])

\* Each of these is a step of the session's life.
LEMMA LifeMoves ==
  ASSUME MessagingTypeOK, MessagingTypeOK', NEW s \in Sessions, Calm(s) \/ Ends(s) \/ Resets(s)
  PROVE  Session(s)!Step
<1>1. /\ {stopped[s], stopped'[s], mapped[s], mapped'[s], reset[s], reset'[s]} \subseteq BOOLEAN
      /\ IsClosed(s) <=> stopped[s] /\ ~Closing(tasks, s)
      /\ IsClosed(s)' <=> stopped'[s] /\ ~Closing(tasks', s)
  BY DEF MessagingTypeOK, IsClosed, Closing
<1>2. \/ Session(s)!PeerResets \/ Session(s)!End \/ Session(s)!CloseSocket \/ Session(s)!Release
  <2>1. CASE Calm(s)
    BY <1>1, <2>1 DEF Calm, Session!CloseSocket, Session!Release
  <2>2. CASE Ends(s)
    BY <1>1, <2>2 DEF Ends, Session!End
  <2>3. CASE Resets(s)
    <3>1. Closing(tasks', s) <=> Closing(tasks, s)
      BY <2>3 DEF Resets, Closing
    <3> QED BY <1>1, <2>3, <3>1 DEF Resets, Session!PeerResets, Session!Release
  <2> QED BY <2>1, <2>2, <2>3
<1> QED BY <1>2 DEF Session!Step, Session!Next, Session!MayDestroy

\* Posting a task closes nothing, unless it is the close task.
LEMMA PostedClosing ==
  ASSUME NEW tk \in [Sessions -> Seq(Tasks)], NEW r \in Sessions, NEW x \in Tasks, NEW u \in Sessions
  PROVE  /\ Posted(tk, r, x) \in [Sessions -> Seq(Tasks)]
         /\ Closing(Posted(tk, r, x), u) <=> Closing(tk, u) \/ (u = r /\ x.op = "close")
<1> DEFINE t2 == Posted(tk, r, x)
<1>1. IsPosted(tk, t2, r, x)
  BY PostFacts
<1> HIDE DEF t2, Tasks
<1>2. t2 \in [Sessions -> Seq(Tasks)]
  BY <1>1 DEF IsPosted
<1>3. CASE u = r
  <2>1. Closing(tk, r) \/ x.op = "close" => Closing(t2, r)
    BY <1>1 DEF IsPosted, Closing
  <2>2. ASSUME NEW i \in DOMAIN t2[r], t2[r][i].op = "close" PROVE Closing(tk, r) \/ x.op = "close"
    <3>1. CASE i \in DOMAIN tk[r]
      BY <1>1, <2>2, <3>1 DEF IsPosted, Closing
    <3>2. CASE i = Len(tk[r]) + 1
      BY <1>1, <2>2, <3>2 DEF IsPosted
    <3> QED BY <1>1, <3>1, <3>2 DEF IsPosted
  <2>3. Closing(t2, r) => Closing(tk, r) \/ x.op = "close"
    BY <2>2 DEF Closing
  <2> QED BY <1>2, <1>3, <2>1, <2>3 DEF t2
<1>4. CASE u # r
  <2>1. t2[u] = tk[u]
    BY <1>1, <1>4 DEF IsPosted
  <2>2. Closing(t2, u) <=> Closing(tk, u)
    BY <2>1 DEF Closing
  <2> QED BY <1>2, <1>4, <2>2 DEF t2
<1> QED BY <1>3, <1>4

\* Taking the first task loses the close task only if that is the one.
LEMMA TakenClosing ==
  ASSUME NEW tk \in [Sessions -> Seq(Tasks)], NEW s \in Sessions, tk[s] # <<>>, NEW u \in Sessions
  PROVE  /\ Taken(tk, s) \in [Sessions -> Seq(Tasks)]
         /\ Closing(Taken(tk, s), u) => Closing(tk, u)
         /\ u # s \/ Head(tk[s]).op # "close" => (Closing(Taken(tk, s), u) <=> Closing(tk, u))
<1> DEFINE t2 == Taken(tk, s)
<1>1. IsTaken(tk, t2, s)
  BY TakeFacts
<1> HIDE DEF t2, Tasks
<1>2. CASE u = s
  <2>1. Closing(t2, u) => Closing(tk, u)
    BY <1>1, <1>2 DEF IsTaken, Closing
  <2>2. Head(tk[s]).op # "close" => (Closing(tk, u) => Closing(t2, u))
    <3> SUFFICES ASSUME Head(tk[s]).op # "close", NEW i \in DOMAIN tk[s], tk[s][i].op = "close"
                 PROVE  Closing(t2, s)
      BY <1>2 DEF Closing
    <3>1. i # 1
      BY <1>1 DEF IsTaken
    <3>2. i - 1 \in DOMAIN t2[s] /\ t2[s][i - 1] = tk[s][i]
      BY <1>1, <3>1 DEF IsTaken
    <3> QED BY <3>2 DEF Closing
  <2> QED BY <1>1, <1>2, <2>1, <2>2 DEF IsTaken, t2
<1>3. CASE u # s
  BY <1>1, <1>3 DEF IsTaken, Closing, t2
<1> QED BY <1>2, <1>3

\* A reply closes nothing.
LEMMA RepliedClosing ==
  ASSUME NEW tk \in [Sessions -> Seq(Tasks)], NEW s \in Sessions, NEW n \in Nat,
         NEW what \in {"ok", "error", "message"}, NEW u \in Sessions
  PROVE  Closing(WithReply(tk, s, n, what), u) <=> Closing(tk, u)
<1>1. CASE Reaches(s)
  <2> DEFINE x == Task("send", Packet(s, n, what))
  <2>1. x \in Tasks /\ x.op = "send"
    BY DEF Task, Tasks, Packet, Packets
  <2>2. WithReply(tk, s, n, what) = Posted(tk, s, x)
    BY <1>1 DEF WithReply, Replied, Sent, Posted
  <2> HIDE DEF x
  <2> QED BY <2>1, <2>2, PostedClosing
<1>2. CASE ~Reaches(s)
  BY <1>2 DEF WithReply, Replied
<1> QED BY <1>1, <1>2

\* The task of s that runs leaves the sessions alone, or ends s.
LEMMA RunLife ==
  ASSUME MessagingInv, NEW s \in Sessions, RunTask(s), NEW u \in Sessions
  PROVE  Calm(u) \/ Ends(u)
<1> DEFINE n == FirstTask(s).packet.seq
           t2 == Taken(tasks, s)
<1>1. /\ tasks[s] # <<>> /\ reset' = reset /\ tasks \in [Sessions -> Seq(Tasks)]
      /\ stopped \in [Sessions -> BOOLEAN] /\ mapped \in [Sessions -> BOOLEAN] /\ FirstTask(s) \in Tasks
  <2>1. tasks \in [Sessions -> Seq(Tasks)] /\ tasks[s] # <<>>
    BY DEF RunTask, MessagingInv, MessagingTypeOK
  <2> QED BY <2>1, TakeFacts DEF RunTask, MessagingInv, MessagingTypeOK, IsTaken, FirstTask
<1>2. /\ t2 \in [Sessions -> Seq(Tasks)] /\ (Closing(t2, u) => Closing(tasks, u))
      /\ FirstTask(s).op # "close" => (Closing(t2, u) <=> Closing(tasks, u))
  BY <1>1, TakenClosing DEF FirstTask
<1>3. t2 = [tasks EXCEPT ![s] = Tail(tasks[s])] /\ t2[s] = Tail(tasks[s])
      /\ \A x : [tasks EXCEPT ![s] = x] = [t2 EXCEPT ![s] = x]
  BY <1>1 DEF Taken
<1>4. n \in Nat
  BY <1>1 DEF Tasks, Packets
<1> HIDE DEF n, t2
<1>5. CASE FirstTask(s).op \in {"send", "close"}
  <2>1. tasks' = t2 /\ UNCHANGED <<stopped, mapped>>
    BY <1>3, <1>5 DEF RunTask, RunDoSend, FirstTask
  <2> QED BY <1>1, <1>2, <2>1 DEF Calm
<1>6. CASE FirstTask(s).op = "handle"
  <2>1. RunHandler(s, n, Tail(tasks[s]))
    BY <1>6 DEF RunTask, FirstTask, n
  <2> DEFINE k == script[s][n].kind
  <2>2. CASE k \in {"echo", "heart"}
    <3>1. /\ tasks' = t2 \/ tasks' = WithReply(t2, s, n, "ok")
          /\ UNCHANGED <<stopped, mapped>>
      BY <1>3, <2>1, <2>2 DEF RunHandler, OnHelloCallBack, OnRecvHeartCallBack, WithReply
    <3>2. Closing(tasks', u) => Closing(tasks, u)
      BY <1>2, <1>4, <3>1, RepliedClosing
    <3> QED BY <1>1, <3>1, <3>2 DEF Calm
  <2>3. CASE k \in {"db", "baddb", "nocmd"}
    <3>1. tasks' = t2 /\ UNCHANGED <<stopped, mapped>>
      BY <1>3, <2>1, <2>3 DEF RunHandler, OnExecuteCallBack
    <3> QED BY <1>1, <1>2, <3>1 DEF Calm
  <2>4. CASE k = "forward"
    <3>1. OnSendCallBack(s, n, Tail(tasks[s])) /\ UNCHANGED <<stopped, mapped>>
      BY <2>1, <2>4 DEF RunHandler
    <3>2. PICK t \in Sessions : t = script[s][n].to
      <4>1. 1 <= n /\ n <= read[s]
        BY <1>1, <1>6, HandledRequest DEF Current, MessagingInv, n
      <4> QED BY <1>4, <4>1, ScriptEntry DEF MessagingInv
    <3> DEFINE x == Task("send", Packet(s, n, "message"))
               t3 == IF ForwardReply(t) = "ok" /\ Reaches(t) THEN Posted(t2, t, x) ELSE t2
    <3>3. x \in Tasks /\ x.op = "send"
      BY <1>4 DEF Task, Tasks, Packet, Packets
    <3>4. tasks' = WithReply(t3, s, n, ForwardReply(t)) /\ ForwardReply(t) \in {"ok", "error"}
      BY <1>3, <3>1, <3>2 DEF OnSendCallBack, WithReply, Posted, Sent, ForwardReply
    <3> HIDE DEF x
    <3>5. t3 \in [Sessions -> Seq(Tasks)] /\ (Closing(t3, u) <=> Closing(t2, u))
      <4>1. /\ Posted(t2, t, x) \in [Sessions -> Seq(Tasks)]
            /\ Closing(Posted(t2, t, x), u) <=> Closing(t2, u)
        BY <1>2, <3>3, PostedClosing
      <4> HIDE DEF Tasks
      <4> QED BY <1>2, <4>1
    <3> HIDE DEF t3
    <3>6. Closing(tasks', u) <=> Closing(t2, u)
      BY <1>4, <3>4, <3>5, RepliedClosing
    <3> QED BY <1>1, <1>2, <3>1, <3>6 DEF Calm
  <2>5. CASE k = "close"
    <3>1. OnCloseCallBack(s, Tail(tasks[s]))
      BY <2>1, <2>5 DEF RunHandler
    <3>2. tasks' = IF stopped[s] THEN t2 ELSE Posted(t2, s, CloseTask(s))
      BY <1>3, <3>1 DEF OnCloseCallBack, Posted
    <3>3. CloseTask(s) \in Tasks /\ CloseTask(s).op = "close"
      BY DEF CloseTask, Task, Tasks, Packet, Packets
    <3>4. Closing(tasks', u) <=> Closing(tasks, u) \/ (u = s /\ ~stopped[s])
      <4>1. Closing(Posted(t2, s, CloseTask(s)), u) <=> Closing(t2, u) \/ u = s
        BY <1>2, <3>3, PostedClosing
      <4>2. Closing(t2, u) <=> Closing(tasks, u)
        BY <1>2, <1>6
      <4> QED BY <3>2, <4>1, <4>2
    <3>5. stopped' = [stopped EXCEPT ![s] = TRUE] /\ mapped' = [mapped EXCEPT ![s] = FALSE]
      BY <3>1 DEF OnCloseCallBack
    <3> QED BY <1>1, <3>4, <3>5 DEF Calm, Ends
  <2> QED BY <2>1, <2>2, <2>3, <2>4, <2>5 DEF RunHandler
<1> QED BY <1>1, <1>5, <1>6 DEF Tasks

\* What a step does to the sessions is a step of the life of one of them.
LEMMA SessionSteps ==
  ASSUME MessagingInv, [Next]_vars, NEW u \in Sessions
  PROVE  Calm(u) \/ Ends(u) \/ Resets(u)
<1>1. /\ tasks \in [Sessions -> Seq(Tasks)] /\ read \in [Sessions -> Nat] /\ que \in Seq(Sessions \X Nat)
      /\ stopped \in [Sessions -> BOOLEAN] /\ mapped \in [Sessions -> BOOLEAN]
      /\ \A s \in Sessions : awaiting[s] \subseteq Nat
  BY DEF MessagingInv, MessagingTypeOK
<1>2. \A s \in Sessions, n \in Nat : Handle(s, n) \in Tasks /\ Handle(s, n).op = "handle"
  BY DEF Handle, Task, Tasks, Packet, Packets
<1>3. \A s \in Sessions : CloseTask(s) \in Tasks /\ CloseTask(s).op = "close"
  BY DEF CloseTask, Task, Tasks, Packet, Packets
<1>4. ASSUME NEW s \in Sessions, Read(s) PROVE Calm(u)
  <2>1. UNCHANGED <<stopped, mapped, reset>>
    BY <1>4 DEF Read
  <2> DEFINE x == Handle(s, read[s] + 1)
  <2>2. tasks' = tasks \/ tasks' = Posted(tasks, s, x)
    BY <1>4 DEF Read, Post, Posted
  <2>3. x \in Tasks /\ x.op # "close"
    BY <1>1, <1>2
  <2> HIDE DEF x
  <2>4. Closing(tasks', u) => Closing(tasks, u)
    <3>1. Closing(Posted(tasks, s, x), u) <=> Closing(tasks, u)
      BY <1>1, <2>3, PostedClosing
    <3> QED BY <2>2, <3>1
  <2> QED BY <2>1, <2>4 DEF Calm
<1>5. ASSUME NEW s \in Sessions, ReadFails(s) \/ Stops(s) PROVE Calm(u) \/ Ends(u)
  <2>1. /\ stopped' = [stopped EXCEPT ![s] = TRUE] /\ reset' = reset
        /\ tasks' = IF stopped[s] THEN tasks ELSE Posted(tasks, s, CloseTask(s))
    BY <1>5 DEF ReadFails, Stops, Post, Posted
  <2>2. \A v \in Sessions : (mapped'[v] => mapped[v]) /\ (v # s => mapped'[v] = mapped[v])
    <3>1. CASE ReadFails(s)
      BY <1>1, <3>1 DEF ReadFails
    <3>2. CASE Stops(s)
      <4>1. PICK stays \in {TRUE, type = "ASYNC"} : mapped' = [mapped EXCEPT ![s] = @ /\ stays]
        BY <3>2 DEF Stops
      <4> QED BY <1>1, <4>1
    <3> QED BY <1>5, <3>1, <3>2
  <2>3. Closing(tasks', u) <=> Closing(tasks, u) \/ (u = s /\ ~stopped[s])
    BY <1>1, <1>3, <2>1, PostedClosing
  <2> QED BY <1>1, <2>1, <2>2, <2>3 DEF Calm, Ends
<1>6. ASSUME NEW s \in Sessions, PeerResets(s) PROVE Resets(u)
  BY <1>6 DEF PeerResets, Resets, handlingVars, MessagingInv, MessagingTypeOK
<1>7. ASSUME NEW s \in Sessions, Resume(s) PROVE Calm(u)
  <2>1. PICK n \in awaiting[s] : tasks' = WithReply(tasks, s, n, "ok") \/ tasks' = tasks
    BY <1>7 DEF Resume, WithReply
  <2>2. Closing(WithReply(tasks, s, n, "ok"), u) => Closing(tasks, u)
    BY <1>1, RepliedClosing
  <2>3. Closing(tasks', u) => Closing(tasks, u)
    BY <2>1, <2>2
  <2> QED BY <1>7, <2>3 DEF Resume, sessionVars, Calm
<1>8. ASSUME DispatchNext PROVE Calm(u)
  <2>1. UNCHANGED <<stopped, mapped, reset>> /\ que # <<>>
    BY <1>8 DEF DispatchNext, sessionVars
  <2>2. NextMessage[1] \in Sessions /\ NextMessage[2] \in Nat
    BY <1>1, <2>1 DEF NextMessage
  <2> DEFINE x == Handle(NextMessage[1], NextMessage[2])
  <2>3. (tasks' = tasks \/ tasks' = Posted(tasks, NextMessage[1], x)) /\ x \in Tasks /\ x.op # "close"
    BY <1>2, <1>8, <2>2 DEF DispatchNext, Post, Posted
  <2> HIDE DEF x
  <2>4. Closing(tasks', u) => Closing(tasks, u)
    <3>1. Closing(Posted(tasks, NextMessage[1], x), u) <=> Closing(tasks, u)
      BY <1>1, <2>2, <2>3, PostedClosing
    <3> QED BY <2>3, <3>1
  <2> QED BY <2>1, <2>4 DEF Calm
<1>9. ASSUME Park \/ WorkerEnds \/ IoThreadsEnd \/ StopLogic \/ UNCHANGED vars PROVE Resets(u)
  BY <1>9 DEF Park, WorkerEnds, IoThreadsEnd, StopLogic, vars, sessionVars, handlingVars, Resets
<1>10. ASSUME NEW s \in Sessions, AllocateThrows(s) PROVE Resets(u)
  BY <1>10 DEF AllocateThrows, Resets, handlingVars
<1> QED BY <1>4, <1>5, <1>6, <1>7, <1>8, <1>9, <1>10, RunLife DEF Next, WorkerStep

\* Sessions live here as SessionLife says, and so as SessionLifecycle has them.
THEOREM SessionsLive == Safety => [][\A s \in Sessions : Session(s)!Step]_vars
<1>1. MessagingInv /\ MessagingTypeOK' /\ [Next]_vars => [\A s \in Sessions : Session(s)!Step]_vars
  BY SessionSteps, LifeMoves DEF MessagingInv
<1> QED BY <1>1, InvariantAlways, MessagingTypes, PTL DEF Safety

-----------------------------------------------------------------------------
(* No request is forgotten *)

\* Where request n of s is, or why there is no answer: its session has stopped, it is a heartbeat whose
\* peer is gone, or the exception of another dispatch has ended the process.
Waits(s, n) == Pending(tasks, que, s, n) \/ n \in awaiting[s]
Responded(s, n) == \E p \in Replies(s, n) : SentNow(s, p) \/ <<s, p>> \in lost
Excused(s, n) == stopped[s] \/ (reset[s] /\ script[s][n].kind = "heart")

NothingForgotten ==
  \A s \in Sessions : \A n \in 1 .. read[s] :
    Answers(s, n) => Waits(s, n) \/ Responded(s, n) \/ Excused(s, n) \/ down

\* A posted task takes nothing from what waits.
LEMMA PostedWaits ==
  ASSUME NEW tk \in [Sessions -> Seq(Tasks)], NEW r \in Sessions, NEW x \in Tasks,
         NEW u \in Sessions, NEW m, Handling(tk, u, m)
  PROVE  Handling(Posted(tk, r, x), u, m)
BY PostedTasks

\* A request handed to its io_context waits there.
LEMMA RequestWaits ==
  ASSUME NEW tk \in [Sessions -> Seq(Tasks)], NEW s \in Sessions, NEW n \in Nat, NEW u \in Sessions, NEW m
  PROVE  Handling(Posted(tk, s, Handle(s, n)), u, m) <=> Handling(tk, u, m) \/ (u = s /\ m = n)
<1> DEFINE x == Handle(s, n)
<1>1. x \in Tasks /\ x.op = "handle" /\ x.packet.seq = n
  BY DEF Handle, Task, Packet, Tasks, Packets
<1> HIDE DEF x, Tasks
<1>2. Handling(Posted(tk, s, x), u, m) <=> Handling(tk, u, m) \/ (u = s /\ m = n)
  <2>1. \A v \in Sessions : \A k : Handling(Posted(tk, s, x), v, k) <=>
          Handling(tk, v, k) \/ (v = s /\ x.op = "handle" /\ x.packet.seq = k)
    BY <1>1, PostedTasks
  <2> QED BY <1>1, <2>1
<1> QED BY <1>2 DEF x

\* A reply neither.
LEMMA ReplyWaits ==
  ASSUME NEW tk \in [Sessions -> Seq(Tasks)], NEW s \in Sessions, NEW n \in Nat,
         NEW what \in {"ok", "error"}, NEW u \in Sessions, NEW m, Handling(tk, u, m)
  PROVE  Handling(WithReply(tk, s, n, what), u, m)
<1>1. CASE Reaches(s)
  <2>1. Task("send", Packet(s, n, what)) \in Tasks
    BY DEF Task, Tasks, Packet, Packets
  <2>2. WithReply(tk, s, n, what) = Posted(tk, s, Task("send", Packet(s, n, what)))
    BY <1>1 DEF WithReply, Replied, Sent, Posted
  <2> QED BY <2>1, <2>2, PostedWaits
<1>2. CASE ~Reaches(s)
  BY <1>2 DEF WithReply, Replied
<1> QED BY <1>1, <1>2

\* What is posted to be sent is being sent.
LEMMA PostedReply ==
  ASSUME NEW tk \in [Sessions -> Seq(Tasks)], NEW r \in Sessions, NEW q \in Packets
  PROVE  Sending(Posted(tk, r, Task("send", q)), r, q)
<1> DEFINE x == Task("send", q)
<1>1. x \in Tasks /\ x.op = "send" /\ x.packet = q
  BY DEF Task, Tasks
<1> HIDE DEF x
<1>2. Sending(Posted(tk, r, x), r, q)
  BY <1>1, PostedTasks
<1> QED BY <1>2 DEF x

\* Forwarding takes nothing from what waits.
LEMMA ForwardWaits ==
  ASSUME tasks \in [Sessions -> Seq(Tasks)], NEW s \in Sessions, tasks[s] # <<>>,
         NEW n \in Nat, NEW t \in Sessions, t = script[s][n].to, OnSendCallBack(s, n, Tail(tasks[s])),
         NEW u \in Sessions, NEW m, Handling(Taken(tasks, s), u, m)
  PROVE  Handling(tasks', u, m)
<1> DEFINE t2 == Taken(tasks, s)
           x == Task("send", Packet(s, n, "message"))
           t3 == IF ForwardReply(t) = "ok" /\ Reaches(t) THEN Posted(t2, t, x) ELSE t2
<1>1. x \in Tasks /\ t2 \in [Sessions -> Seq(Tasks)]
  BY TakenClosing DEF Task, Tasks, Packet, Packets
<1>2. tasks' = WithReply(t3, s, n, ForwardReply(t)) /\ ForwardReply(t) \in {"ok", "error"}
  BY DEF OnSendCallBack, WithReply, Taken, Posted, Sent, ForwardReply
<1> HIDE DEF x, t2, Tasks
<1>3. t3 \in [Sessions -> Seq(Tasks)] /\ Handling(t3, u, m)
  <2>1. Posted(t2, t, x) \in [Sessions -> Seq(Tasks)]
    BY <1>1, PostFacts DEF IsPosted
  <2>2. Handling(t2, u, m)
    BY DEF t2
  <2>3. Handling(Posted(t2, t, x), u, m)
    BY <1>1, <2>2, PostedWaits
  <2> QED BY <1>1, <2>1, <2>2, <2>3
<1> HIDE DEF t3
<1> QED BY <1>2, <1>3, ReplyWaits

\* What a step may do to a request that was read: leave it where it waits, move it on, or end its
\* session; and a reply stays a reply, unless the session stops.
Remains(u, m) == Waits(u, m) => Waits(u, m)' \/ Responded(u, m)' \/ Excused(u, m)' \/ down' \/ ~Answers(u, m)

\* The task of s that runs moves the request it handles on, and no other.
LEMMA RunRemains ==
  ASSUME MessagingInv, NEW s \in Sessions, RunTask(s), NEW u \in Sessions, NEW m \in Nat,
         NEW n, n = FirstTask(s).packet.seq
  PROVE  Remains(u, m) /\ NothingVanishes /\ lost \subseteq lost'
<1> DEFINE rest == Tail(tasks[s])
           t2 == Taken(tasks, s)
<1>1. /\ tasks[s] # <<>> /\ UNCHANGED <<script, que, read, reset>>
      /\ tasks \in [Sessions -> Seq(Tasks)] /\ stopped \in [Sessions -> BOOLEAN]
      /\ MessagingTypeOK /\ InOrderNow
  BY DEF RunTask, logicVars, MessagingInv, MessagingTypeOK
<1>2. /\ FirstTask(s) \in Tasks /\ t2 \in [Sessions -> Seq(Tasks)]
      /\ Handling(tasks, u, m) =>
           Handling(t2, u, m) \/ (u = s /\ FirstTask(s).op = "handle" /\ n = m)
  <2>1. IsTaken(tasks, t2, s)
    BY <1>1, TakeFacts
  <2>2. Handling(tasks, u, m) => Handling(t2, u, m) \/ (u = s /\ FirstTask(s).op = "handle" /\ n = m)
    BY <1>1, TakenTasks DEF FirstTask
  <2> QED BY <2>1, <2>2 DEF IsTaken, FirstTask
<1>3. CASE FirstTask(s).op \in {"send", "close"}
  <2>1. /\ tasks' = t2 /\ UNCHANGED <<stopped, awaiting>>
        /\ \/ FirstTask(s).op = "send" /\ RunDoSend(s, FirstTask(s).packet)
           \/ FirstTask(s).op = "close" /\ wire' = wire /\ lost' = lost
    BY <1>3 DEF RunTask, RunDoSend, Taken, FirstTask
  <2>2. lost \subseteq lost' /\ NothingVanishes
    BY <1>1, <2>1, SendOrCloseStep
  <2>3. Handling(tasks, u, m) => Handling(tasks', u, m)
    BY <1>2, <1>3, <2>1
  <2>4. Waits(u, m) => Waits(u, m)'
    BY <1>1, <2>1, <2>3 DEF Waits, Pending, Queued
  <2> QED BY <2>2, <2>4 DEF Remains
<1>4. CASE FirstTask(s).op = "handle"
  <2>1. RunHandler(s, n, rest)
    BY <1>4 DEF RunTask, FirstTask
  <2>2. wire' = wire /\ lost' = lost
    BY <2>1 DEF RunHandler
  <2>3. n \in Nat /\ 1 <= n /\ n <= read[s]
    BY <1>1, <1>4, HandledRequest DEF Current
  <2> HIDE DEF t2
  <2>4. SUFFICES /\ Handling(t2, u, m) => Handling(tasks', u, m)
                 /\ awaiting[u] \subseteq awaiting'[u]
                 /\ \A r \in Sessions : \A p : SentNow(r, p) => SentNow(r, p)'
                 /\ Answers(s, n) => n \in awaiting'[s] \/ Responded(s, n)' \/ Excused(s, n)'
    <3>1. ASSUME Handling(t2, u, m) => Handling(tasks', u, m), awaiting[u] \subseteq awaiting'[u],
                 Answers(s, n) => n \in awaiting'[s] \/ Responded(s, n)' \/ Excused(s, n)'
          PROVE  Remains(u, m)
      <4>1. Queued(que, u, m) \/ Handling(t2, u, m) \/ m \in awaiting[u] => Waits(u, m)'
        BY <1>1, <3>1 DEF Waits, Pending, Queued
      <4>2. CASE u = s /\ n = m
        <5>1. Answers(u, m) => Waits(u, m)' \/ Responded(u, m)' \/ Excused(u, m)'
          BY <3>1, <4>2 DEF Waits, Responded, Excused, SentNow
        <5> QED BY <5>1 DEF Remains
      <4>3. CASE ~(u = s /\ n = m)
        BY <1>2, <4>1, <4>3 DEF Remains, Waits, Pending
      <4> QED BY <4>2, <4>3
    <3>2. (\A r \in Sessions : \A p : SentNow(r, p) => SentNow(r, p)') => NothingVanishes
      BY DEF NothingVanishes
    <3> QED BY <2>2, <3>1, <3>2
  <2>5. CASE script[s][n].kind # "forward"
    <3>1. RepliesOk(s, n) \/ NoReply(s, n) \/ ClosesItself(s, n) \/ Awaiting(s, n)
      BY <1>1, <2>1, <2>5, HandlerMoves
    <3>2. \A r \in Sessions : \A p : SentNow(r, p) => SentNow(r, p)'
      <4>1. /\ \/ tasks' = WithReply(Taken(tasks, s), s, n, "ok") /\ awaiting' = awaiting
               \/ tasks' = Taken(tasks, s) /\ awaiting' = awaiting
               \/ tasks' = Posted(Taken(tasks, s), s, CloseTask(s)) /\ awaiting' = awaiting
               \/ /\ tasks' = Taken(tasks, s) /\ script[s][n].kind = "db"
                  /\ awaiting' = [awaiting EXCEPT ![s] = awaiting[s] \cup {n}]
        BY <3>1 DEF RepliesOk, NoReply, ClosesItself, Awaiting
      <4> QED BY <1>1, <1>4, <2>2, <4>1, ServiceStep
    <3>3. CASE RepliesOk(s, n)
      <4>1. tasks' = WithReply(t2, s, n, "ok") /\ UNCHANGED <<awaiting, stopped>>
        BY <3>3 DEF RepliesOk, t2
      <4>2. Handling(t2, u, m) => Handling(tasks', u, m)
        BY <1>2, <2>3, <4>1, ReplyWaits
      <4>3. Responded(s, n)' \/ Excused(s, n)'
        <5>1. CASE Reaches(s)
          <6>1. tasks' = Posted(t2, s, Task("send", Packet(s, n, "ok")))
            BY <4>1, <5>1 DEF WithReply, Replied, Sent, Posted
          <6>2. SentNow(s, Packet(s, n, "ok"))'
            <7>1. Packet(s, n, "ok") \in Packets
              BY <2>3 DEF Packet, Packets
            <7>2. Sending(tasks', s, Packet(s, n, "ok"))
              BY <1>2, <6>1, <7>1, PostedReply
            <7>3. IsSent(tasks', wire', s, Packet(s, n, "ok"))
              BY <7>2 DEF IsSent
            <7> QED BY <7>3 DEF SentNow
          <6> QED BY <6>2 DEF Responded, Replies
        <5>2. CASE ~Reaches(s)
          BY <4>1, <5>2 DEF Reaches, Excused
        <5> QED BY <5>1, <5>2
      <4> QED BY <3>2, <4>1, <4>2, <4>3
    <3>4. CASE NoReply(s, n)
      <4>1. tasks' = t2 /\ UNCHANGED <<awaiting, stopped>>
        BY <3>4 DEF NoReply, t2
      <4>2. Answers(s, n) => Excused(s, n)'
        <5>1. Answers(s, n) => script[s][n].kind = "heart" /\ EndpointThrows(s)
          BY <3>4 DEF NoReply, Answers
        <5>2. EndpointThrows(s) => reset[s] \/ stopped[s]
          BY DEF EndpointThrows, IsClosed
        <5>3. UNCHANGED <<script, reset, stopped>>
          BY <1>1, <4>1
        <5> QED BY <5>1, <5>2, <5>3 DEF Excused
      <4> QED BY <3>2, <4>1, <4>2
    <3>5. CASE ClosesItself(s, n)
      <4>1. /\ tasks' = t2 \/ tasks' = Posted(t2, s, CloseTask(s))
            /\ awaiting' = awaiting /\ stopped' = [stopped EXCEPT ![s] = TRUE]
        BY <3>5 DEF ClosesItself, t2
      <4>2. CloseTask(s) \in Tasks
        BY DEF CloseTask, Task, Tasks, Packet, Packets
      <4>3. Handling(t2, u, m) => Handling(tasks', u, m)
        BY <1>2, <4>1, <4>2, PostedWaits
      <4>4. Excused(s, n)'
        BY <1>1, <4>1 DEF Excused
      <4> QED BY <3>2, <4>1, <4>3, <4>4
    <3>6. CASE Awaiting(s, n)
      <4>1. tasks' = t2 /\ awaiting' = [awaiting EXCEPT ![s] = awaiting[s] \cup {n}]
        BY <3>6 DEF Awaiting, t2
      <4>2. n \in awaiting'[s] /\ awaiting[u] \subseteq awaiting'[u]
        BY <1>1, <4>1 DEF MessagingTypeOK
      <4> QED BY <3>2, <4>1, <4>2
    <3> QED BY <3>1, <3>3, <3>4, <3>5, <3>6
  <2>6. CASE script[s][n].kind = "forward"
    <3>1. UNCHANGED <<stopped, awaiting>> /\ OnSendCallBack(s, n, rest)
      BY <2>1, <2>6 DEF RunHandler
    <3>2. PICK t \in Sessions : t = script[s][n].to
      BY <1>1, <2>3, ScriptEntry
    <3>3. \A r \in Sessions : \A p : SentNow(r, p)' <=>
            \/ SentNow(r, p)
            \/ ForwardReply(t) = "ok" /\ Reaches(t) /\ r = t /\ p = Packet(s, n, "message")
            \/ Reaches(s) /\ r = s /\ p = Packet(s, n, ForwardReply(t))
      <4>1. UNCHANGED <<script, wire, que, read, awaiting>> /\ OnSendCallBack(s, n, Tail(tasks[s]))
        BY <1>1, <2>2, <3>1
      <4> HIDE DEF rest
      <4> QED BY <1>1, <1>4, <3>2, <4>1, ForwardStep
    <3>4. PICK what \in {"ok", "error"} : what = ForwardReply(t)
      BY DEF ForwardReply
    <3>5. Responded(s, n)' \/ Excused(s, n)'
      <4>1. CASE Reaches(s)
        <5>1. SentNow(s, Packet(s, n, what))'
          BY <3>3, <3>4, <4>1
        <5>2. Packet(s, n, what) \in Replies(s, n)
          BY DEF Replies
        <5> QED BY <5>1, <5>2 DEF Responded
      <4>2. CASE ~Reaches(s)
        BY <3>1, <4>2 DEF Reaches, Excused
      <4> QED BY <4>1, <4>2
    <3>6. Handling(t2, u, m) => Handling(tasks', u, m)
      BY <1>1, <1>2, <2>3, <3>1, <3>2, ForwardWaits DEF t2
    <3> QED BY <3>1, <3>3, <3>5, <3>6
  <2> QED BY <2>5, <2>6
<1> QED BY <1>2, <1>3, <1>4 DEF Tasks

\* A request that is read waits, or has no service.
LEMMA ReadRemains ==
  ASSUME MessagingInv, NEW s \in Sessions, Read(s)
  PROVE  /\ \A u \in Sessions, m \in Nat : Waits(u, m) => Waits(u, m)'
         /\ read' = [read EXCEPT ![s] = read[s] + 1]
         /\ \A n : n = read[s] + 1 /\ HasService(s, n) => Waits(s, n)'
<1>1. PICK n : n = read[s] + 1
  OBVIOUS
<1>2. /\ tasks \in [Sessions -> Seq(Tasks)] /\ que \in Seq(Sessions \X Nat) /\ n \in Nat
      /\ awaiting' = awaiting /\ read' = [read EXCEPT ![s] = n]
  BY <1>1 DEF Read, MessagingInv, MessagingTypeOK
<1>3. CASE que' = que /\ tasks' = IF HasService(s, n) THEN Post(s, Handle(s, n)) ELSE tasks
  <2>1. CASE HasService(s, n)
    <3>1. tasks' = Posted(tasks, s, Handle(s, n))
      BY <1>3, <2>1 DEF Post, Posted
    <3>2. \A u \in Sessions : \A m : Handling(tasks', u, m) <=> Handling(tasks, u, m) \/ (u = s /\ m = n)
      BY <1>2, <3>1, RequestWaits
    <3>3. \A u \in Sessions : \A m : Queued(que', u, m) <=> Queued(que, u, m)
      BY <1>3 DEF Queued
    <3> QED BY <1>1, <1>2, <3>2, <3>3 DEF Waits, Pending
  <2>2. CASE ~HasService(s, n)
    BY <1>1, <1>2, <1>3, <2>2 DEF Waits, Pending, Queued, Handling
  <2> QED BY <2>1, <2>2
<1>4. CASE que' = Append(que, <<s, n>>) /\ tasks' = tasks
  <2>1. /\ \A u \in Sessions, m \in Nat : Queued(que, u, m) => Queued(que', u, m)
        /\ Queued(que', s, n)
    <3> DEFINE S == Sessions \X Nat
    <3>1. que \in Seq(S) /\ <<s, n>> \in S
      BY <1>2
    <3> HIDE DEF S
    <3>2. /\ \A i \in DOMAIN que : i \in DOMAIN que' /\ que'[i] = que[i]
          /\ Len(que) + 1 \in DOMAIN que' /\ que'[Len(que) + 1] = <<s, n>>
      BY <1>4, <3>1, AppendFacts
    <3> QED BY <3>2 DEF Queued
  <2> QED BY <1>1, <1>2, <1>4, <2>1 DEF Waits, Pending
<1> QED BY <1>1, <1>3, <1>4 DEF Read, logicVars

\* What LogicSystem takes from its queue it hands on, unless it has no service or the worker dies.
LEMMA DispatchRemains ==
  ASSUME MessagingInv, DispatchNext, NEW u \in Sessions, NEW m \in Nat
  PROVE  Remains(u, m)
<1>1. PICK s, n : s = Head(que)[1] /\ n = Head(que)[2]
  OBVIOUS
<1>2. /\ tasks \in [Sessions -> Seq(Tasks)] /\ que \in Seq(Sessions \X Nat) /\ que # <<>>
      /\ que' = Tail(que) /\ awaiting' = awaiting /\ script' = script
      /\ tasks' = IF HasService(s, n) /\ ~down' THEN Post(s, Handle(s, n)) ELSE tasks
  BY <1>1 DEF DispatchNext, NextMessage, Remaining, MessagingInv, MessagingTypeOK
<1>3. s \in Sessions /\ n \in Nat /\ Head(que) = <<s, n>>
  BY <1>1, <1>2
<1>4. Queued(que, u, m) => Queued(que', u, m) \/ (u = s /\ m = n)
  <2> DEFINE S == Sessions \X Nat
  <2> HIDE DEF S
  <2>1. que \in Seq(S)
    BY <1>2 DEF S
  <2>2. \A i \in DOMAIN que : i = 1 \/ (i - 1 \in DOMAIN Tail(que) /\ Tail(que)[i - 1] = que[i])
    BY <1>2, <2>1, TailFacts
  <2>3. que[1] = <<s, n>>
    BY <1>2, <1>3, <2>1, TailFacts
  <2>4. ASSUME NEW i \in DOMAIN que, que[i] = <<u, m>> PROVE Queued(que', u, m) \/ (u = s /\ m = n)
    <3>1. CASE i = 1
      BY <2>3, <2>4, <3>1
    <3>2. CASE i - 1 \in DOMAIN Tail(que) /\ Tail(que)[i - 1] = que[i]
      BY <1>2, <2>4, <3>2 DEF Queued
    <3> QED BY <2>2, <3>1, <3>2
  <2> QED BY <2>4 DEF Queued
<1>5. CASE HasService(s, n) /\ ~down'
  <2>1. tasks' = Posted(tasks, s, Handle(s, n))
    BY <1>2, <1>5 DEF Post, Posted
  <2>2. tasks \in [Sessions -> Seq(Tasks)]
    BY <1>2
  <2>3. Handling(tasks', u, m) <=> Handling(tasks, u, m) \/ (u = s /\ m = n)
    BY <1>3, <2>1, <2>2, RequestWaits
  <2> QED BY <1>2, <1>4, <2>3 DEF Remains, Waits, Pending
<1>6. CASE down'
  BY <1>6 DEF Remains
<1>7. CASE ~HasService(s, n) /\ tasks' = tasks
  <2>1. ~Answers(s, n)
    BY <1>7 DEF HasService, Answers
  <2> QED BY <1>2, <1>4, <1>7, <2>1 DEF Remains, Waits, Pending
<1> QED BY <1>2, <1>5, <1>6, <1>7

\* The executor's answer becomes a reply, or is lost, unless the session has stopped.
LEMMA ResumeRemains ==
  ASSUME MessagingInv, NEW s \in Sessions, Resume(s), NEW u \in Sessions, NEW m \in Nat
  PROVE  Remains(u, m)
<1>1. PICK n \in awaiting[s] :
        /\ awaiting' = [awaiting EXCEPT ![s] = awaiting[s] \ {n}]
        /\ \/ tasks' = WithReply(tasks, s, n, "ok")
           \/ tasks' = tasks /\ <<s, Packet(s, n, "ok")>> \in lost'
  BY DEF Resume, WithReply
<1>2. /\ tasks \in [Sessions -> Seq(Tasks)] /\ awaiting \in [Sessions -> SUBSET Nat] /\ n \in Nat
      /\ UNCHANGED <<que, stopped>>
  BY DEF Resume, MessagingInv, MessagingTypeOK, sessionVars, logicVars
<1>3. Handling(tasks, u, m) => Handling(tasks', u, m)
  BY <1>1, <1>2, ReplyWaits
<1>4. m \in awaiting[u] => m \in awaiting'[u] \/ (u = s /\ m = n)
  BY <1>1, <1>2
<1>5. Responded(s, n)' \/ Excused(s, n)'
  <2>1. CASE Reaches(s) /\ tasks' = WithReply(tasks, s, n, "ok")
    <3>1. tasks' = Posted(tasks, s, Task("send", Packet(s, n, "ok")))
      BY <2>1 DEF WithReply, Replied, Sent, Posted
    <3>2. Packet(s, n, "ok") \in Packets
      BY <1>2 DEF Packet, Packets
    <3>3. IsSent(tasks', wire', s, Packet(s, n, "ok"))
      BY <1>2, <3>1, <3>2, PostedReply DEF IsSent
    <3> QED BY <3>3 DEF SentNow, Responded, Replies
  <2>2. CASE ~Reaches(s)
    BY <1>2, <2>2 DEF Reaches, Excused
  <2>3. CASE <<s, Packet(s, n, "ok")>> \in lost'
    BY <2>3 DEF Responded, Replies
  <2> QED BY <1>1, <2>1, <2>2, <2>3
<1> QED BY <1>2, <1>3, <1>4, <1>5 DEF Remains, Waits, Pending, Queued

\* Every step leaves a request accounted for, and drops a reply only into lost.
LEMMA StepRemains ==
  ASSUME MessagingInv, [Next]_vars, NEW u \in Sessions, NEW m \in Nat
  PROVE  Remains(u, m) /\ NothingVanishes /\ lost \subseteq lost'
<1>0. MessagingTypeOK /\ QueueUse /\ InOrderNow /\ tasks \in [Sessions -> Seq(Tasks)]
  BY DEF MessagingInv, MessagingTypeOK
<1>1. NothingSent => NothingVanishes
  BY DEF NothingSent, NothingVanishes
<1>2. ASSUME NEW s \in Sessions, Read(s) PROVE Remains(u, m) /\ NothingSent /\ lost' = lost
  <2>1. NothingSent /\ lost' = lost
    BY <1>0, <1>2, ReadStep DEF Read
  <2>2. Waits(u, m) => Waits(u, m)'
    BY <1>2, ReadRemains
  <2> QED BY <2>1, <2>2 DEF Remains
<1>3. ASSUME NEW s \in Sessions, ReadFails(s) \/ Stops(s) PROVE Remains(u, m) /\ NothingSent /\ lost' = lost
  <2>1. NothingSent /\ UNCHANGED <<lost, que, awaiting>>
    BY <1>0, <1>3, ClosingStep DEF ReadFails, Stops, logicVars
  <2>2. tasks' = tasks \/ tasks' = Posted(tasks, s, CloseTask(s))
    BY <1>3 DEF ReadFails, Stops, Post, Posted
  <2>3. CloseTask(s) \in Tasks
    BY DEF CloseTask, Task, Tasks, Packet, Packets
  <2>4. Handling(tasks, u, m) => Handling(tasks', u, m)
    BY <1>0, <2>2, <2>3, PostedWaits
  <2>5. Waits(u, m) => Waits(u, m)'
    BY <2>1, <2>4 DEF Waits, Pending, Queued
  <2> QED BY <2>1, <2>5 DEF Remains
<1>4. ASSUME DispatchNext PROVE Remains(u, m) /\ NothingSent /\ lost' = lost
  BY <1>0, <1>4, DispatchStep, DispatchRemains DEF DispatchNext
<1>5. ASSUME NEW s \in Sessions, Resume(s) PROVE Remains(u, m) /\ NothingVanishes /\ lost \subseteq lost'
  <2>1. lost \subseteq lost' /\ \A r \in Sessions : \A p : SentNow(r, p) => SentNow(r, p)'
    BY <1>0, <1>5, ResumeStep
  <2>2. NothingVanishes
    BY <2>1 DEF NothingVanishes
  <2> QED BY <1>5, <2>1, <2>2, ResumeRemains
<1>6. ASSUME UNCHANGED <<tasks, wire, que, awaiting, lost>> PROVE Remains(u, m) /\ NothingSent /\ lost' = lost
  BY <1>6 DEF Remains, Waits, Pending, Queued, Handling, NothingSent, SentNow, IsSent, Sending
<1>7. ASSUME \/ \E s \in Sessions : PeerResets(s) \/ AllocateThrows(s)
             \/ Park \/ WorkerEnds \/ IoThreadsEnd \/ StopLogic \/ UNCHANGED vars
      PROVE  UNCHANGED <<tasks, wire, que, awaiting, lost>>
  BY <1>7 DEF PeerResets, AllocateThrows, Park, WorkerEnds, IoThreadsEnd, StopLogic, vars, sessionVars, handlingVars, logicVars
<1>8. ASSUME NEW s \in Sessions, RunTask(s) PROVE Remains(u, m) /\ NothingVanishes /\ lost \subseteq lost'
  BY <1>8, RunRemains
<1> QED BY <1>1, <1>2, <1>3, <1>4, <1>5, <1>6, <1>7, <1>8 DEF Next, WorkerStep

\* An excuse stays one, and so does a reply, or the session it was for has stopped.
LEMMA ExcusesStay ==
  ASSUME MessagingInv, [Next]_vars, NEW s \in Sessions, NEW n \in Nat
  PROVE  /\ Excused(s, n) => Excused(s, n)'
         /\ Responded(s, n) => Responded(s, n)' \/ Excused(s, n)'
         /\ down => down'
<1>1. script' = script /\ (stopped[s] => stopped'[s]) /\ (reset[s] => reset'[s])
  <2>1. Calm(s) \/ Ends(s) \/ Resets(s)
    BY SessionSteps
  <2>2. script' = script
    BY FlagsStep
  <2> QED BY <2>1, <2>2 DEF Calm, Ends, Resets
<1>2. Responded(s, n) => Responded(s, n)' \/ Excused(s, n)'
  <2> SUFFICES ASSUME NEW p \in Replies(s, n), SentNow(s, p) \/ <<s, p>> \in lost
               PROVE  Responded(s, n)' \/ Excused(s, n)'
    BY DEF Responded
  <2>1. SentNow(s, p)' \/ stopped'[s] \/ <<s, p>> \in lost'
    BY StepRemains DEF NothingVanishes
  <2> QED BY <2>1 DEF Responded, Excused, Replies, Packet
<1>3. down => down'
  BY DEF Next, vars
<1> QED BY <1>1, <1>2, <1>3 DEF Excused

\* The request read last waits.
LEMMA NewlyRead ==
  ASSUME MessagingInv, [Next]_vars, NEW s \in Sessions, NEW n \in 1 .. read'[s], n \notin 1 .. read[s]
  PROVE  Answers(s, n) => Waits(s, n)'
<1>1. read \in [Sessions -> Nat] /\ read' # read
  BY DEF MessagingInv, MessagingTypeOK
<1>2. PICK r \in Sessions : Read(r)
  BY <1>1 DEF Next, vars, sessionVars, WorkerStep, AllocateThrows, ReadFails, Stops, PeerResets, RunTask, Resume,
              DispatchNext, WorkerEnds, Park, IoThreadsEnd, StopLogic
<1>3. /\ read' = [read EXCEPT ![r] = read[r] + 1]
      /\ \A k : k = read[r] + 1 /\ HasService(r, k) => Waits(r, k)'
  BY <1>2, ReadRemains
<1>4. r = s /\ n = read[s] + 1
  BY <1>1, <1>3
<1>5. Answers(s, n) => HasService(s, n)
  BY DEF Answers, HasService
<1> QED BY <1>3, <1>4, <1>5

\* No request that was read and asks for an answer is forgotten: it waits, or its reply is on its way,
\* sent, or dropped by a full send queue or a Send that threw, unless its session has stopped, it is a heartbeat of a peer
\* that is gone, or an exception has ended the process.  It is the safety half of Answered.
THEOREM NothingForgottenAlways == Safety => []NothingForgotten
<1>1. Init => NothingForgotten
  <2>1. Init => \A s \in Sessions : 1 .. read[s] = {}
    BY DEF Init
  <2> QED BY <2>1 DEF NothingForgotten
<1>2. MessagingInv /\ NothingForgotten /\ [Next]_vars => NothingForgotten'
  <2> SUFFICES ASSUME MessagingInv, NothingForgotten, [Next]_vars,
                      NEW s \in Sessions, NEW n \in 1 .. read'[s], Answers(s, n)'
               PROVE  Waits(s, n)' \/ Responded(s, n)' \/ Excused(s, n)' \/ down'
    BY DEF NothingForgotten
  <2>1. Answers(s, n) /\ n \in Nat
    BY FlagsStep DEF Answers
  <2>2. CASE n \in 1 .. read[s]
    <3>1. Waits(s, n) \/ Responded(s, n) \/ Excused(s, n) \/ down
      BY <2>1, <2>2 DEF NothingForgotten
    <3> QED BY <2>1, <3>1, StepRemains, ExcusesStay DEF Remains
  <2>3. CASE n \notin 1 .. read[s]
    BY <2>1, <2>3, NewlyRead
  <2> QED BY <2>2, <2>3
<1> QED BY <1>1, <1>2, InvariantAlways, PTL DEF Safety
=============================================================================
