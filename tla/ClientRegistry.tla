--------------------------- MODULE ClientRegistry ---------------------------
(***************************************************************************)
(* Named clients: ClientManager's map from a client's name to the uuid of  *)
(* its session, the CommunicationService handlers that use it, and the     *)
(* destructor of a session, which takes the name of its ClientInfo out.    *)
(*                                                                         *)
(* Handlers of one session run one after the other on its io thread and do *)
(* not wait in the middle; those of different sessions interleave between  *)
(* any two accesses to shared state (the client map, the session map,      *)
(* another session's socket and _bStop).  Of a session's life this module  *)
(* keeps what SessionLifecycle shows of it: it may be served before it is  *)
(* in the session map, it is destroyed only when stopped, closed, out of   *)
(* the map and unreferenced, and HandleWrite may stop it and leave it in.  *)
(***************************************************************************)
EXTENDS Naturals, FiniteSets

CONSTANTS Sessions, Names, NoSession, NoName,
          Clients,
          ClientOf,    \* the client behind a session; one that reconnects is behind several
          MayClaim,    \* the names a client puts in its requests as its own
          RequestLimit \* model bound: requests arriving over all sessions

ASSUME RegistryAssumption ==
  /\ NoSession \notin Sessions
  /\ NoName \notin Names
  /\ ClientOf \in [Sessions -> Clients]
  /\ MayClaim \in [Clients -> SUBSET Names]
  /\ RequestLimit \in Nat

VARIABLES clientMap,   \* ClientManager::_clientMap: the session a name is bound to
          info,        \* the name in a session's _clientInfo
          task,        \* the handler a session's io thread is in the middle of
          place,       \* a session in CServer::_sessionMap: "before", "in" or "out"
          bStop, sock, \* _bStop, and the socket: "open", "reset" by the peer or "closed"
          gone,        \* the session was destroyed
          requests,    \* requests that have arrived
          delivered,   \* messages handed to a session's send path (history)
          accepted,    \* AddClient has bound a name to the session (history)
          unbinder     \* who unbound the session's name since: NoSession if nobody (history)

vars == <<clientMap, info, task, place, bStop, sock, gone, requests, delivered, accepted, unbinder>>

life == <<place, bStop, sock, gone>>

\* The client map with its history.
binding == <<clientMap, accepted, unbinder>>

-----------------------------------------------------------------------------
(* State *)

Idle == [op |-> "idle"]

\* OnClose between ClientClose and RemoveClient; OnSend between GetClient, GetSessionByUuid and
\* the target's Send.
Task ==
  {Idle}
  \cup [op : {"closing"}, name : Names]
  \cup [op : {"found", "resolved"}, name : Names, to : Sessions]

Message == [from : Sessions, as : Names \cup {NoName}, to : Sessions, name : Names]

Init ==
  /\ clientMap = [n \in Names |-> NoSession]
  /\ info = [s \in Sessions |-> NoName]
  /\ task = [s \in Sessions |-> Idle]
  /\ place = [s \in Sessions |-> "before"]
  /\ bStop = [s \in Sessions |-> FALSE]
  /\ sock = [s \in Sessions |-> "open"]
  /\ gone = [s \in Sessions |-> FALSE]
  /\ requests = 0
  /\ delivered = {}
  /\ accepted = [s \in Sessions |-> FALSE]
  /\ unbinder = [s \in Sessions |-> NoSession]

\* The session's io thread is in the middle of no handler.
Free(s) == ~gone[s] /\ task[s] = Idle

\* A request's handler starts.
Arrives(s) ==
  /\ Free(s)
  /\ requests < RequestLimit
  /\ requests' = requests + 1

\* remote_endpoint throws on a socket that was closed or reset.
Connected(s) == sock[s] = "open"

-----------------------------------------------------------------------------
(* ClientManager, each operation under its mutex *)

\* Sensitivity: a name that is bound is bound anew.
AddClient_Overwrites(n, s) ==
  /\ clientMap' = [clientMap EXCEPT ![n] = s]
  /\ accepted' = [accepted EXCEPT ![s] = TRUE]
  /\ unbinder' = [unbinder EXCEPT ![s] = NoSession]

\* AddClient: a name that is bound stays bound as it is.
AddClient(n, s) ==
  IF clientMap[n] = NoSession
  THEN /\ clientMap' = [clientMap EXCEPT ![n] = s]
       /\ accepted' = [accepted EXCEPT ![s] = TRUE]
       /\ unbinder' = [unbinder EXCEPT ![s] = NoSession]
  ELSE UNCHANGED binding

\* RemoveClient, asked by s: whoever the name is bound to, it is unbound.
RemoveClient(n, s) ==
  /\ clientMap' = [clientMap EXCEPT ![n] = NoSession]
  /\ unbinder' = IF clientMap[n] = NoSession THEN unbinder
                 ELSE [unbinder EXCEPT ![clientMap[n]] = s]
  /\ UNCHANGED accepted

-----------------------------------------------------------------------------
(* The handlers of CommunicationService *)

\* OnCreate: the name goes into the session's ClientInfo, then into the client map if it is free
\* there.  On a socket without a peer it throws first and changes nothing.
OnCreate(s, n) ==
  /\ Arrives(s)
  /\ Connected(s)
  /\ n \in MayClaim[ClientOf[s]]
  /\ info' = [info EXCEPT ![s] = n]
  /\ AddClient(n, s)
  /\ UNCHANGED <<task, life, delivered>>

\* Close and DelSessionByUuid.
StopAndForget(s) ==
  /\ bStop' = [bStop EXCEPT ![s] = TRUE]
  /\ place' = [place EXCEPT ![s] = IF @ = "in" THEN "out" ELSE @]

\* OnClose, its first half: ClientClose.
OnClose(s, n) ==
  /\ Arrives(s)
  /\ n \in MayClaim[ClientOf[s]]
  /\ StopAndForget(s)
  /\ task' = [task EXCEPT ![s] = [op |-> "closing", name |-> n]]
  /\ UNCHANGED <<binding, info, sock, gone, delivered>>

\* OnClose, its second half: the name in the request is unbound.  The reply that follows is
\* dropped, _bStop being set.
OnCloseRemove(s) ==
  /\ task[s].op = "closing"
  /\ RemoveClient(task[s].name, s)
  /\ task' = [task EXCEPT ![s] = Idle]
  /\ UNCHANGED <<info, life, requests, delivered>>

\* Sensitivity: the empty uuid of an unbound name is not noticed.
OnSend_NoCheck(s, n) ==
  /\ Arrives(s)
  /\ task' = [task EXCEPT ![s] = [op |-> "found", name |-> n, to |-> clientMap[n]]]
  /\ UNCHANGED <<binding, info, life, delivered>>

\* OnSend: GetClient finds the uuid the name is bound to.  An unbound name ends the handler.
OnSend(s, n) ==
  /\ Arrives(s)
  /\ task' = [task EXCEPT ![s] = IF clientMap[n] = NoSession THEN Idle
                                 ELSE [op |-> "found", name |-> n, to |-> clientMap[n]]]
  /\ UNCHANGED <<binding, info, life, delivered>>

\* SendToOtherSession: GetSessionByUuid takes a reference to the session, if it is in the map.
OnSendResolve(s) ==
  /\ task[s].op = "found"
  /\ task' = [task EXCEPT ![s] = IF place[task[s].to] = "in" THEN [@ EXCEPT !.op = "resolved"]
                                 ELSE Idle]
  /\ UNCHANGED <<binding, info, life, requests, delivered>>

\* Sensitivity: the reference to the target is kept.
OnSendForward_KeepsReference(s) ==
  /\ task[s].op = "resolved"
  /\ UNCHANGED vars

\* SendToOtherSession: the log line throws for a peerless socket, and Send drops the message for a
\* stopped session; otherwise it is on its way, from the name in the sender's ClientInfo.
OnSendForward(s) ==
  /\ task[s].op = "resolved"
  /\ LET t == task[s].to IN
     delivered' = IF Connected(t) /\ ~bStop[t]
                  THEN delivered \cup {[from |-> s, as |-> info[s], to |-> t, name |-> task[s].name]}
                  ELSE delivered
  /\ task' = [task EXCEPT ![s] = Idle]
  /\ UNCHANGED <<binding, info, life, requests>>

-----------------------------------------------------------------------------
(* The life of a session, as SessionLifecycle has it *)

\* The accept handler inserts the session it started.
Insert(s) ==
  /\ place[s] = "before"
  /\ place' = [place EXCEPT ![s] = "in"]
  /\ UNCHANGED <<binding, info, task, bStop, sock, gone, requests, delivered>>

PeerResets(s) ==
  /\ sock[s] = "open"
  /\ sock' = [sock EXCEPT ![s] = "reset"]
  /\ UNCHANGED <<binding, info, task, place, bStop, gone, requests, delivered>>

\* The reader's or the watchdog's end of a session.
Leave(s) ==
  /\ Free(s)
  /\ ~bStop[s] \/ place[s] = "in"
  /\ StopAndForget(s)
  /\ UNCHANGED <<binding, info, task, sock, gone, requests, delivered>>

\* HandleWrite's end of a session, which leaves it in the map.
WriteError(s) ==
  /\ Free(s)
  /\ ~bStop[s]
  /\ bStop' = [bStop EXCEPT ![s] = TRUE]
  /\ UNCHANGED <<binding, info, task, place, sock, gone, requests, delivered>>

\* The close task.
RunClose(s) ==
  /\ Free(s)
  /\ bStop[s] /\ sock[s] # "closed"
  /\ sock' = [sock EXCEPT ![s] = "closed"]
  /\ UNCHANGED <<binding, info, task, place, bStop, gone, requests, delivered>>

Unreferenced(s) ==
  /\ Free(s)
  /\ place[s] = "out"
  /\ sock[s] = "closed"
  /\ \A t \in Sessions : task[t].op = "resolved" => task[t].to # s

\* Sensitivity: the destructor leaves the client map alone.
Destroy_KeepsName(s) ==
  /\ Unreferenced(s)
  /\ gone' = [gone EXCEPT ![s] = TRUE]
  /\ UNCHANGED <<binding, info, task, place, bStop, sock, requests, delivered>>

\* ~CSession removes the name in its ClientInfo from the client map, whoever it is bound to.
Destroy(s) ==
  /\ Unreferenced(s)
  /\ gone' = [gone EXCEPT ![s] = TRUE]
  /\ IF info[s] = NoName THEN UNCHANGED binding ELSE RemoveClient(info[s], s)
  /\ UNCHANGED <<info, task, place, bStop, sock, requests, delivered>>

-----------------------------------------------------------------------------

Request(s) ==
  \E n \in Names : OnCreate(s, n) \/ OnClose(s, n) \/ OnSend(s, n)

Continue(s) == OnCloseRemove(s) \/ OnSendResolve(s) \/ OnSendForward(s)

Life(s) ==
  Insert(s) \/ PeerResets(s) \/ Leave(s) \/ WriteError(s) \/ RunClose(s) \/ Destroy(s)

Next == \E s \in Sessions : Request(s) \/ Continue(s) \/ Life(s)

Safety == Init /\ [][Next]_vars

(* A handler that has begun comes to its end, the close task is run, and an object nobody refers
   to is destroyed: reference counting leaves no choice. *)
Fairness ==
  \A s \in Sessions :
    WF_vars(Continue(s)) /\ WF_vars(RunClose(s)) /\ WF_vars(Destroy(s))

Spec == Safety /\ Fairness

-----------------------------------------------------------------------------
(* Properties *)

\* Every variable has its type.
TypeOK ==
  /\ clientMap \in [Names -> Sessions \cup {NoSession}]
  /\ info \in [Sessions -> Names \cup {NoName}]
  /\ task \in [Sessions -> Task]
  /\ place \in [Sessions -> {"before", "in", "out"}]
  /\ bStop \in [Sessions -> BOOLEAN]
  /\ sock \in [Sessions -> {"open", "reset", "closed"}]
  /\ gone \in [Sessions -> BOOLEAN]
  /\ requests \in 0..RequestLimit
  /\ delivered \subseteq Message
  /\ accepted \in [Sessions -> BOOLEAN]
  /\ unbinder \in [Sessions -> Sessions \cup {NoSession}]

\* Clients keep to a name of their own, over however many sessions.
OwnNames ==
  /\ \A c, d \in Clients : c # d => MayClaim[c] \cap MayClaim[d] = {}
  /\ \A c \in Clients : \A m, n \in MayClaim[c] : m = n

\* Another session of the client, itself stopped, has unbound the name: the client reconnected and
\* the old session's destructor came late, or a second connection of it was closed.
UnboundByOldSession(s) ==
  /\ unbinder[s] \in Sessions \ {s}
  /\ ClientOf[unbinder[s]] = ClientOf[s]
  /\ bStop[unbinder[s]]

\* A session whose registration was accepted and that is running can be reached by its name, unless
\* a stopped session of the same client has unbound it: no request and no destructor of another
\* client's session, no refused registration and no closing of its own takes it away before.
\* (With names of their own.)
RegisteredIsReachable ==
  \A s \in Sessions :
    accepted[s] /\ ~bStop[s] => clientMap[info[s]] = s \/ UnboundByOldSession(s)

\* No name stays bound to a session that was destroyed, in whatever order the handlers still under
\* way when it was stopped have registered, unregistered or sent.  (With names of their own.)
NoDanglingName ==
  \A s \in Sessions, n \in Names : gone[s] => clientMap[n] # s

\* When a session has left the map its names are soon free for a new connection of its client.
NamesAreFreed ==
  \A s \in Sessions :
    (place[s] = "out" /\ bStop[s]) ~> (gone[s] /\ \A n \in Names : clientMap[n] # s)

-----------------------------------------------------------------------------
(* What the code's comments say, for clients that use any name *)

\* The name n is unbound or bound to a session of s's own client.
NotAnothers(n, s) ==
  clientMap[n] # NoSession => ClientOf[clientMap[n]] = ClientOf[s]

\* "避免发送方伪造名称" (the sender must not forge its name; CommunicationService.cpp:175): when a
\* message is handed on, the name it carries is not bound to another client's session.
SenderNotForged ==
  [][\A m \in delivered' \ delivered : m.as # NoName => NotAnothers(m.as, m.from)]_vars
=============================================================================
