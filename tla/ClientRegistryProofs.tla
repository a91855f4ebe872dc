------------------------- MODULE ClientRegistryProofs -------------------------
(***************************************************************************)
(* Proofs about the registry of named clients, for any number of sessions, *)
(* names and requests.                                                     *)
(***************************************************************************)
EXTENDS ClientRegistry, TLAPS

-----------------------------------------------------------------------------
(* Type correctness *)

BindingType ==
  /\ clientMap \in [Names -> Sessions \cup {NoSession}]
  /\ accepted \in [Sessions -> BOOLEAN]
  /\ unbinder \in [Sessions -> Sessions \cup {NoSession}]

\* The client map and its history keep their types under AddClient and RemoveClient.
LEMMA MapType ==
  ASSUME TypeOK, NEW n \in Names, NEW s \in Sessions, RemoveClient(n, s) \/ AddClient(n, s)
  PROVE  BindingType'
<1>1. CASE RemoveClient(n, s)
  BY <1>1 DEF TypeOK, RemoveClient, BindingType
<1>2. CASE AddClient(n, s)
  BY <1>2 DEF TypeOK, AddClient, BindingType, binding
<1> QED BY <1>1, <1>2

\* Every step keeps the types.
LEMMA TypeStep ==
  ASSUME TypeOK, [Next]_vars
  PROVE  TypeOK'
<1> USE RegistryAssumption DEF life, binding, BindingType
<1>1. ASSUME NEW s \in Sessions, NEW n \in Names, OnCreate(s, n) PROVE TypeOK'
  BY <1>1, MapType DEF OnCreate, Arrives, TypeOK
<1>2. ASSUME NEW s \in Sessions, NEW n \in Names, OnClose(s, n) PROVE TypeOK'
  <2>1. [op |-> "closing", name |-> n] \in Task
    BY DEF Task
  <2> QED BY <1>2, <2>1 DEF OnClose, Arrives, StopAndForget, TypeOK
<1>3. ASSUME NEW s \in Sessions, NEW n \in Names, OnSend(s, n) PROVE TypeOK'
  <2>1. clientMap[n] # NoSession => [op |-> "found", name |-> n, to |-> clientMap[n]] \in Task
    BY DEF Task, TypeOK
  <2>2. Idle \in Task
    BY DEF Task
  <2> QED BY <1>3, <2>1, <2>2 DEF OnSend, Arrives, TypeOK
<1>4. ASSUME NEW s \in Sessions, OnCloseRemove(s) PROVE TypeOK'
  <2>1. task[s].name \in Names /\ Idle \in Task
    BY <1>4 DEF OnCloseRemove, Task, Idle, TypeOK
  <2> QED BY <1>4, <2>1, MapType DEF OnCloseRemove, TypeOK
<1>5. ASSUME NEW s \in Sessions, OnSendResolve(s) PROVE TypeOK'
  <2>1. [task[s] EXCEPT !.op = "resolved"] \in Task /\ Idle \in Task
    BY <1>5 DEF OnSendResolve, Task, Idle, TypeOK
  <2> QED BY <1>5, <2>1 DEF OnSendResolve, TypeOK
<1>6. ASSUME NEW s \in Sessions, OnSendForward(s) PROVE TypeOK'
  <2>1. task[s].to \in Sessions /\ task[s].name \in Names /\ Idle \in Task
    BY <1>6 DEF OnSendForward, Task, Idle, TypeOK
  <2>2. [from |-> s, as |-> info[s], to |-> task[s].to, name |-> task[s].name] \in Message
    BY <2>1 DEF Message, TypeOK
  <2> QED BY <1>6, <2>1, <2>2 DEF OnSendForward, TypeOK
<1>7. ASSUME NEW s \in Sessions, Life(s) PROVE TypeOK'
  <2>1. CASE Insert(s) \/ PeerResets(s) \/ Leave(s) \/ WriteError(s) \/ RunClose(s)
    <3>1. /\ UNCHANGED <<info, task, gone, requests, delivered>>
          /\ UNCHANGED binding
      BY <2>1 DEF Insert, PeerResets, Leave, WriteError, RunClose
    <3>2. place' \in [Sessions -> {"before", "in", "out"}]
      BY <2>1 DEF Insert, PeerResets, Leave, StopAndForget, WriteError, RunClose, TypeOK
    <3>3. bStop' \in [Sessions -> BOOLEAN]
      BY <2>1 DEF Insert, PeerResets, Leave, StopAndForget, WriteError, RunClose, TypeOK
    <3>4. sock' \in [Sessions -> {"open", "reset", "closed"}]
      BY <2>1 DEF Insert, PeerResets, Leave, StopAndForget, WriteError, RunClose, TypeOK
    <3> QED BY <3>1, <3>2, <3>3, <3>4 DEF TypeOK
  <2>2. CASE Destroy(s)
    <3>1. info[s] # NoName => info[s] \in Names
      BY DEF TypeOK
    <3>2. BindingType'
      <4>1. CASE info[s] = NoName
        BY <2>2, <4>1 DEF Destroy, TypeOK
      <4>2. CASE info[s] # NoName
        BY <2>2, <3>1, <4>2, MapType DEF Destroy
      <4> QED BY <4>1, <4>2
    <3> QED BY <2>2, <3>2 DEF Destroy, TypeOK
  <2> QED BY <1>7, <2>1, <2>2 DEF Life
<1>8. CASE UNCHANGED vars
  BY <1>8 DEF vars, TypeOK
<1> QED BY <1>1, <1>2, <1>3, <1>4, <1>5, <1>6, <1>7, <1>8 DEF Next, Request, Continue

\* Every variable keeps its type, whatever names the clients use.
THEOREM RegistryTypes == Safety => []TypeOK
<1>1. Init => TypeOK
  <2>1. Idle \in Task
    BY DEF Task
  <2> QED BY <2>1, RegistryAssumption DEF Init, TypeOK
<1>2. TypeOK /\ [Next]_vars => TypeOK'
  BY TypeStep
<1> QED BY <1>1, <1>2, PTL DEF Safety

-----------------------------------------------------------------------------
(* The sessions *)

\* A session as SessionLife describes it.
Session(s) == INSTANCE SessionLife WITH
  place <- place[s], stopped <- bStop[s], sock <- sock[s], gone <- gone[s]

\* The close task runs after the stop, and destruction after the close task and out of the map.
LifeOrder ==
  \A s \in Sessions : /\ sock[s] = "closed" => bStop[s] = TRUE
                      /\ gone[s] => place[s] = "out" /\ sock[s] = "closed"

\* What a step does to the sessions is one step of the life of one of them.
LEMMA SessionSteps ==
  ASSUME TypeOK, LifeOrder, [Next]_vars
  PROVE  LifeOrder' /\ \A s \in Sessions : Session(s)!Step
<1> USE DEF TypeOK, LifeOrder
<1>1. CASE UNCHANGED life
  BY <1>1 DEF life, Session!Step, Session!lifeVars
<1>2. ASSUME NEW t \in Sessions,
             Insert(t) \/ PeerResets(t) \/ Leave(t) \/ WriteError(t) \/ RunClose(t) \/ Destroy(t)
             \/ \E n \in Names : OnClose(t, n)
      PROVE  LifeOrder' /\ \A s \in Sessions : Session(s)!Step
  <2>1. /\ \A s \in Sessions \ {t} : UNCHANGED <<place[s], bStop[s], sock[s], gone[s]>>
        /\ gone[t] => UNCHANGED <<place[t], bStop[t], sock[t], gone[t]>>
    BY <1>2 DEF Insert, PeerResets, Leave, WriteError, RunClose, Destroy, OnClose, Arrives, Free, life,
                StopAndForget, Unreferenced
  <2>2. ASSUME ~gone[t]
        PROVE  /\ \/ Session(t)!Insert \/ Session(t)!PeerResets \/ Session(t)!End
                  \/ Session(t)!CloseSocket \/ Session(t)!Release
               /\ Session(t)!MayDestroy
    <3> USE DEF Session!Insert, Session!PeerResets, Session!End, Session!CloseSocket, Session!Release,
                Session!MayDestroy
    <3>1. CASE Insert(t)
      BY <2>2, <3>1 DEF Insert
    <3>2. CASE PeerResets(t)
      BY <2>2, <3>2 DEF PeerResets
    <3>3. CASE Leave(t) \/ \E n \in Names : OnClose(t, n)
      BY <2>2, <3>3 DEF Leave, OnClose, StopAndForget
    <3>4. CASE WriteError(t)
      BY <2>2, <3>4 DEF WriteError
    <3>5. CASE RunClose(t)
      BY <2>2, <3>5 DEF RunClose
    <3>6. CASE Destroy(t)
      BY <2>2, <3>6 DEF Destroy, Unreferenced
    <3> QED BY <1>2, <3>1, <3>2, <3>3, <3>4, <3>5, <3>6
  <2>3. LifeOrder'
    <3>1. /\ sock'[t] = "closed" => bStop'[t] = TRUE
          /\ gone'[t] => place'[t] = "out" /\ sock'[t] = "closed"
      <4>1. CASE gone[t]
        BY <2>1, <4>1
      <4>2. CASE ~gone[t]
        BY <2>2, <4>2 DEF Session!Insert, Session!PeerResets, Session!End, Session!CloseSocket,
                          Session!Release, Session!MayDestroy
      <4> QED BY <4>1, <4>2
    <3> QED BY <2>1, <3>1
  <2>4. Session(t)!Step
    BY <2>1, <2>2 DEF Session!Step, Session!Next, Session!lifeVars
  <2>5. \A s \in Sessions \ {t} : Session(s)!Step
    BY <2>1 DEF Session!Step, Session!lifeVars
  <2> QED BY <2>3, <2>4, <2>5
<1>3. ASSUME NEW t \in Sessions, Continue(t) \/ \E n \in Names : OnCreate(t, n) \/ OnSend(t, n)
      PROVE  UNCHANGED life
  BY <1>3 DEF Continue, OnCloseRemove, OnSendResolve, OnSendForward, OnCreate, OnSend
<1>4. CASE UNCHANGED vars
  BY <1>1, <1>4 DEF vars, life
<1> QED BY <1>1, <1>2, <1>3, <1>4 DEF Next, Request, Life

\* Sessions live here as SessionLife says, and so as SessionLifecycle has them.
THEOREM SessionsLive ==
  Safety => /\ \A s \in Sessions : Session(s)!Init
            /\ [][\A s \in Sessions : Session(s)!Step]_vars
<1>1. Init => LifeOrder /\ \A s \in Sessions : Session(s)!Init
  BY DEF Init, LifeOrder, Session!Init
<1>2. TypeOK /\ LifeOrder /\ [Next]_vars => LifeOrder' /\ [\A s \in Sessions : Session(s)!Step]_vars
  BY SessionSteps
<1> QED BY <1>1, <1>2, RegistryTypes, PTL DEF Safety

-----------------------------------------------------------------------------
(* Clients with names of their own *)

\* A session's ClientInfo, its bindings and its closing request are about the one name its client
\* may use, an accepted session has that name in its ClientInfo, and what OnClose will unbind was
\* asked for by a session already stopped.
Owned ==
  /\ \A s \in Sessions : info[s] # NoName => info[s] \in MayClaim[ClientOf[s]]
  /\ \A s \in Sessions : accepted[s] => info[s] # NoName
  /\ \A n \in Names, s \in Sessions : clientMap[n] = s => info[s] = n
  /\ \A s \in Sessions :
       task[s].op = "closing" => task[s].name \in MayClaim[ClientOf[s]] /\ bStop[s]

\* The close task runs after the stop, and destruction after the close task.
StopFirst ==
  \A s \in Sessions : (sock[s] = "closed" => bStop[s]) /\ (gone[s] => bStop[s])

RegInv == Owned /\ StopFirst /\ RegisteredIsReachable /\ NoDanglingName

\* A stopped session that unbinds a name of its client disturbs no other client's session, and
\* leaves its mark on one of the same client.
LEMMA Unbinding ==
  ASSUME OwnNames, TypeOK, RegInv, NEW s \in Sessions, NEW n \in MayClaim[ClientOf[s]], n \in Names,
         RemoveClient(n, s), bStop[s], UNCHANGED <<info, bStop>>
  PROVE  /\ \A m \in Names, t \in Sessions : clientMap'[m] = t => info'[t] = m
         /\ RegisteredIsReachable'
         /\ \A t \in Sessions, m \in Names : clientMap[m] # t => clientMap'[m] # t
<1> USE RegistryAssumption DEF TypeOK, RegInv, Owned, RemoveClient
<1>1. \A m \in Names, t \in Sessions : clientMap'[m] = t => info'[t] = m
  OBVIOUS
<1>2. ASSUME NEW t \in Sessions, accepted'[t], ~bStop'[t]
      PROVE  clientMap'[info'[t]] = t \/ UnboundByOldSession(t)'
  <2>1. /\ accepted[t] /\ info'[t] = info[t] /\ info[t] \in Names /\ t # s
        /\ info[t] \in MayClaim[ClientOf[t]]
        /\ clientMap[info[t]] = t \/ UnboundByOldSession(t)
    BY <1>2 DEF RegisteredIsReachable
  <2>2. CASE clientMap[n] = t
    <3>1. info[t] = n /\ unbinder'[t] = s
      BY <2>2
    <3>2. ClientOf[t] = ClientOf[s]
      BY <2>1, <3>1 DEF OwnNames
    <3> QED BY <2>1, <3>1, <3>2 DEF UnboundByOldSession
  <2>3. CASE clientMap[n] # t
    <3>1. unbinder'[t] = unbinder[t]
      BY <2>3
    <3>2. clientMap[info[t]] = t => clientMap'[info[t]] = t
      BY <2>1, <2>3
    <3> QED BY <2>1, <3>1, <3>2 DEF UnboundByOldSession
  <2> QED BY <2>2, <2>3
<1>3. RegisteredIsReachable'
  BY <1>2 DEF RegisteredIsReachable
<1>4. \A t \in Sessions, m \in Names : clientMap[m] # t => clientMap'[m] # t
  OBVIOUS
<1> QED BY <1>1, <1>3, <1>4

\* The accepted sessions stay reachable when the bindings stay and sessions only stop.
LEMMA BindingsKept ==
  ASSUME TypeOK, RegisteredIsReachable, UNCHANGED <<binding, info>>,
         \A s \in Sessions : bStop[s] => bStop'[s]
  PROVE  RegisteredIsReachable'
BY RegistryAssumption DEF RegisteredIsReachable, UnboundByOldSession, binding, TypeOK

\* Every step keeps the invariant.
LEMMA RegStep ==
  ASSUME OwnNames, TypeOK, RegInv, [Next]_vars
  PROVE  RegInv'
<1> USE RegistryAssumption DEF life, Idle
<1>1. ASSUME NEW s \in Sessions, NEW n \in Names, OnCreate(s, n) PROVE RegInv'
  <2>1. /\ info' = [info EXCEPT ![s] = n] /\ n \in MayClaim[ClientOf[s]] /\ ~gone[s]
        /\ UNCHANGED <<task, bStop, sock, gone>> /\ AddClient(n, s)
    BY <1>1 DEF OnCreate, Arrives, Free
  <2>2. /\ \A t \in Sessions : info'[t] = IF t = s THEN n ELSE info[t]
        /\ info[s] \in {n, NoName} /\ \A m \in Names : clientMap[m] = s => m = n
    BY <2>1 DEF RegInv, Owned, OwnNames, TypeOK
  <2>3. CASE clientMap[n] = NoSession
    <3>1. /\ \A m \in Names : clientMap'[m] = IF m = n THEN s ELSE clientMap[m]
          /\ \A t \in Sessions : t # s => /\ accepted'[t] = accepted[t]
                                         /\ unbinder'[t] = unbinder[t]
      BY <2>1, <2>3 DEF AddClient, TypeOK
    <3>2. Owned' /\ StopFirst' /\ NoDanglingName'
      BY <2>1, <2>2, <3>1 DEF RegInv, Owned, StopFirst, NoDanglingName
    <3>3. ASSUME NEW t \in Sessions, accepted'[t], ~bStop'[t]
          PROVE  clientMap'[info'[t]] = t \/ UnboundByOldSession(t)'
      <4>1. CASE t = s
        BY <2>2, <3>1, <4>1
      <4>2. CASE t # s
        <5>1. /\ info'[t] = info[t] /\ info[t] \in Names
              /\ clientMap[info[t]] = t \/ UnboundByOldSession(t)
          BY <2>1, <2>2, <3>1, <3>3, <4>2 DEF RegInv, Owned, RegisteredIsReachable, TypeOK
        <5>2. UnboundByOldSession(t) => UnboundByOldSession(t)'
          BY <2>1, <3>1, <4>2 DEF UnboundByOldSession
        <5>3. info[t] # n => clientMap'[info[t]] = clientMap[info[t]]
          BY <3>1, <5>1
        <5>4. info[t] = n => clientMap[info[t]] # t
          BY <2>3
        <5> QED BY <5>1, <5>2, <5>3, <5>4
      <4> QED BY <4>1, <4>2
    <3> QED BY <3>2, <3>3 DEF RegInv, RegisteredIsReachable
  <2>4. CASE clientMap[n] # NoSession
    <3>1. UNCHANGED binding
      BY <2>1, <2>4 DEF AddClient
    <3>2. Owned' /\ StopFirst' /\ NoDanglingName'
      BY <2>1, <2>2, <3>1 DEF RegInv, Owned, StopFirst, NoDanglingName, binding, TypeOK
    <3>3. \A t \in Sessions : accepted[t] => info'[t] = info[t]
      BY <2>2 DEF RegInv, Owned
    <3>4. RegisteredIsReachable'
      BY <2>1, <3>1, <3>3 DEF RegInv, RegisteredIsReachable, UnboundByOldSession, binding
    <3> QED BY <3>2, <3>4 DEF RegInv
  <2> QED BY <2>3, <2>4
<1>2. ASSUME NEW s \in Sessions, NEW n \in Names, OnClose(s, n) PROVE RegInv'
  <2>1. UNCHANGED <<binding, info>> /\ \A t \in Sessions : bStop[t] => bStop'[t]
    BY <1>2 DEF OnClose, StopAndForget, TypeOK
  <2>2. RegisteredIsReachable'
    BY <2>1, BindingsKept DEF RegInv
  <2> QED BY <1>2, <2>2 DEF OnClose, Arrives, StopAndForget, RegInv, Owned, StopFirst,
                            NoDanglingName, TypeOK, binding
<1>3. ASSUME NEW s \in Sessions, NEW n \in Names, OnSend(s, n) PROVE RegInv'
  <2>1. RegisteredIsReachable'
    BY <1>3, BindingsKept DEF OnSend, RegInv
  <2> QED BY <1>3, <2>1 DEF OnSend, Arrives, RegInv, Owned, StopFirst, NoDanglingName, TypeOK, binding
<1>4. ASSUME NEW s \in Sessions, OnCloseRemove(s) PROVE RegInv'
  <2>1. /\ task[s].name \in MayClaim[ClientOf[s]] /\ task[s].name \in Names /\ bStop[s]
        /\ RemoveClient(task[s].name, s) /\ task' = [task EXCEPT ![s] = Idle]
        /\ UNCHANGED <<info, bStop, sock, gone>>
    BY <1>4 DEF OnCloseRemove, RegInv, Owned
  <2>2. /\ \A m \in Names, t \in Sessions : clientMap'[m] = t => info'[t] = m
        /\ RegisteredIsReachable'
        /\ \A t \in Sessions, m \in Names : clientMap[m] # t => clientMap'[m] # t
    BY <2>1, Unbinding
  <2>3. accepted' = accepted
    BY <2>1 DEF RemoveClient
  <2>4. Owned' /\ StopFirst' /\ NoDanglingName'
    BY <2>1, <2>2, <2>3 DEF RegInv, Owned, StopFirst, NoDanglingName, TypeOK
  <2> QED BY <2>2, <2>4 DEF RegInv
<1>5. ASSUME NEW s \in Sessions, OnSendResolve(s) PROVE RegInv'
  <2>1. UNCHANGED <<binding, info, bStop, sock, gone>>
    BY <1>5 DEF OnSendResolve
  <2>2. task'[s].op # "closing" /\ \A t \in Sessions : t # s => task'[t] = task[t]
    <3>1. task[s].op = "found"
      BY <1>5 DEF OnSendResolve
    <3>2. [task[s] EXCEPT !.op = "resolved"].op = "resolved"
      BY <3>1 DEF TypeOK, Task
    <3> QED BY <1>5, <3>2 DEF OnSendResolve, TypeOK
  <2>3. RegisteredIsReachable'
    BY <2>1, BindingsKept DEF RegInv
  <2> QED BY <2>1, <2>2, <2>3 DEF RegInv, Owned, StopFirst, NoDanglingName, binding
<1>6. ASSUME NEW s \in Sessions, OnSendForward(s) PROVE RegInv'
  <2>1. RegisteredIsReachable'
    BY <1>6, BindingsKept DEF OnSendForward, RegInv
  <2> QED BY <1>6, <2>1 DEF OnSendForward, RegInv, Owned, StopFirst, NoDanglingName, TypeOK, binding
<1>7. ASSUME NEW s \in Sessions,
             Insert(s) \/ PeerResets(s) \/ Leave(s) \/ WriteError(s) \/ RunClose(s)
      PROVE  RegInv'
  <2> USE <1>7 DEF Insert, PeerResets, Leave, StopAndForget, WriteError, RunClose, TypeOK
  <2>1. UNCHANGED <<binding, info>> /\ \A t \in Sessions : bStop[t] => bStop'[t]
    OBVIOUS
  <2>2. RegisteredIsReachable'
    BY <2>1, BindingsKept DEF RegInv
  <2>3. Owned' /\ StopFirst' /\ NoDanglingName'
    BY <2>1 DEF RegInv, Owned, StopFirst, NoDanglingName, binding
  <2> QED BY <2>2, <2>3 DEF RegInv
<1>8. ASSUME NEW s \in Sessions, Destroy(s) PROVE RegInv'
  <2>1. /\ bStop[s] /\ gone' = [gone EXCEPT ![s] = TRUE]
        /\ UNCHANGED <<info, task, bStop, sock>>
    BY <1>8 DEF Destroy, Unreferenced, RegInv, StopFirst
  <2>2. StopFirst'
    BY <2>1 DEF RegInv, StopFirst, TypeOK
  <2>3. CASE info[s] = NoName
    <3>1. UNCHANGED binding /\ \A n \in Names : clientMap[n] # s
      BY <1>8, <2>3 DEF Destroy, RegInv, Owned
    <3>2. RegisteredIsReachable'
      BY <2>1, <3>1, BindingsKept DEF RegInv
    <3> QED BY <2>1, <2>2, <3>1, <3>2 DEF RegInv, Owned, NoDanglingName, TypeOK, binding
  <2>4. CASE info[s] # NoName
    <3>1. info[s] \in Names /\ info[s] \in MayClaim[ClientOf[s]] /\ RemoveClient(info[s], s)
      BY <1>8, <2>4 DEF Destroy, RegInv, Owned, TypeOK
    <3>2. /\ \A m \in Names, t \in Sessions : clientMap'[m] = t => info'[t] = m
          /\ RegisteredIsReachable'
          /\ \A t \in Sessions, m \in Names : clientMap[m] # t => clientMap'[m] # t
      BY <2>1, <3>1, Unbinding
    <3>3. \A n \in Names : clientMap'[n] # s
      BY <2>1, <3>1, <3>2 DEF RemoveClient, TypeOK
    <3>4. accepted' = accepted
      BY <3>1 DEF RemoveClient
    <3> QED BY <2>1, <2>2, <3>2, <3>3, <3>4 DEF RegInv, Owned, NoDanglingName, TypeOK
  <2> QED BY <2>3, <2>4
<1>9. CASE UNCHANGED vars
  BY <1>9 DEF vars, RegInv, Owned, StopFirst, RegisteredIsReachable, UnboundByOldSession,
              NoDanglingName
<1> QED BY <1>1, <1>2, <1>3, <1>4, <1>5, <1>6, <1>7, <1>8, <1>9
        DEF Next, Request, Continue, Life

\* With clients that keep to one name of their own, the invariant holds in every reachable state.
LEMMA RegInvariance ==
  ASSUME OwnNames
  PROVE  Safety => []RegInv
<1>1. Init => RegInv
  BY RegistryAssumption
     DEF Init, RegInv, Owned, StopFirst, RegisteredIsReachable, NoDanglingName, Idle
<1>2. TypeOK /\ RegInv /\ [Next]_vars => RegInv'
  BY RegStep
<1> QED BY <1>1, <1>2, RegistryTypes, PTL DEF Safety

\* Clients with names of their own: a session whose registration was accepted can be reached by its
\* name while it runs, until a stopped session of the same client unbinds it; however the closings
\* and destructions of all sessions interleave, nothing else takes it away.
THEOREM RegisteredIsReachableAlways ==
  ASSUME OwnNames
  PROVE  Safety => []RegisteredIsReachable
<1>1. RegInv => RegisteredIsReachable
  BY DEF RegInv
<1>2. Safety => []RegInv
  BY RegInvariance
<1> QED BY <1>1, <1>2, PTL

\* A client that connects once is reachable without exception: as long as its session runs after an
\* accepted registration, its name is bound to it.
THEOREM SingleSessionIsReachable ==
  ASSUME OwnNames, NEW s \in Sessions, \A t \in Sessions \ {s} : ClientOf[t] # ClientOf[s]
  PROVE  Safety => [](accepted[s] /\ ~bStop[s] => clientMap[info[s]] = s)
<1>1. RegisteredIsReachable => (accepted[s] /\ ~bStop[s] => clientMap[info[s]] = s)
  BY DEF RegisteredIsReachable, UnboundByOldSession
<1> QED BY <1>1, RegisteredIsReachableAlways, PTL

\* Clients with names of their own: no name stays bound to a destroyed session.
THEOREM NoDanglingNameAlways ==
  ASSUME OwnNames
  PROVE  Safety => []NoDanglingName
<1>1. RegInv => NoDanglingName
  BY DEF RegInv
<1>2. Safety => []RegInv
  BY RegInvariance
<1> QED BY <1>1, <1>2, PTL

\* Clients with names of their own: no message is handed on under a name that is bound to a
\* session of another client than its sender's.
THEOREM OwnNamesNotForged ==
  ASSUME OwnNames
  PROVE  Safety => SenderNotForged
<1>1. ASSUME TypeOK, RegInv, [Next]_vars
      PROVE  [\A m \in delivered' \ delivered :
                m.as # NoName => NotAnothers(m.as, m.from)]_vars
  <2> SUFFICES ASSUME NEW m \in delivered' \ delivered, m.as # NoName
               PROVE  NotAnothers(m.as, m.from)
    OBVIOUS
  <2>1. PICK s \in Sessions : OnSendForward(s)
    BY <1>1 DEF Next, Request, Continue, Life, OnCreate, OnClose, OnSend, OnCloseRemove, OnSendResolve,
                Insert, PeerResets, Leave, WriteError, RunClose, Destroy, vars
  <2>2. m.from = s /\ m.as = info[s]
    BY <2>1 DEF OnSendForward
  <2>3. info[s] \in MayClaim[ClientOf[s]] /\ info[s] \in Names
    BY <1>1, <2>2 DEF RegInv, Owned, TypeOK
  <2>4. ASSUME NEW t \in Sessions, clientMap[info[s]] = t PROVE ClientOf[t] = ClientOf[s]
    <3>1. info[t] = info[s] /\ info[t] \in MayClaim[ClientOf[t]]
      BY <1>1, <2>3, <2>4, RegistryAssumption DEF RegInv, Owned
    <3> QED BY <2>3, <3>1, RegistryAssumption DEF OwnNames
  <2> QED BY <1>1, <2>2, <2>3, <2>4 DEF TypeOK, NotAnothers
<1>2. Safety => []RegInv
  BY RegInvariance
<1> QED BY <1>1, <1>2, RegistryTypes, PTL DEF Safety, SenderNotForged
=============================================================================
