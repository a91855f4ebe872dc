----------------------------- MODULE SessionLife -----------------------------
(***************************************************************************)
(* What the rest of the server may rely on in the life of one session,     *)
(* whichever of its coroutines, handlers and tasks lives it: it is put     *)
(* into _sessionMap once and taken out once, it is closed only after it    *)
(* was stopped, and destroyed only when it is closed and out of the map.   *)
(* Nothing of this is undone.                                              *)
(***************************************************************************)
VARIABLES place,   \* in CServer::_sessionMap: "before", "in" or "out"
          stopped, \* _bStop
          sock,    \* the socket: "open", "reset" by the peer or "closed"
          gone     \* the object was destroyed

lifeVars == <<place, stopped, sock, gone>>

Init == place = "before" /\ stopped = FALSE /\ sock = "open" /\ gone = FALSE

\* Any step may let go of the last reference.
MayDestroy == gone' = FALSE \/ (gone' = TRUE /\ place' = "out" /\ sock' = "closed")

\* The accept handler inserts it.
Insert == place = "before" /\ place' = "in" /\ UNCHANGED <<stopped, sock>>

PeerResets == sock = "open" /\ sock' = "reset" /\ UNCHANGED <<place, stopped>>

\* It is stopped, and taken out of the map if it is there; HandleWrite only stops it.
End ==
  /\ stopped' = TRUE
  /\ place' = place \/ (place = "in" /\ place' = "out")
  /\ UNCHANGED sock

\* The close task.
CloseSocket == stopped /\ sock # "closed" /\ sock' = "closed" /\ UNCHANGED <<place, stopped>>

Release == UNCHANGED <<place, stopped, sock>>

Next ==
  /\ gone = FALSE
  /\ Insert \/ PeerResets \/ End \/ CloseSocket \/ Release
  /\ MayDestroy

Step == [Next]_lifeVars

Safety == Init /\ [][Next]_lifeVars
=============================================================================
