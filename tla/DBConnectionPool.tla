-------------------------- MODULE DBConnectionPool --------------------------
(***************************************************************************)
(* A pool of database connections and the requests that use it:            *)
(* DBConnectionPool::Acquire, Release and CloseAll, called by              *)
(* DBExecutor::ExecuteRequest (src/services/DBService).                    *)
(*                                                                         *)
(* A request is a coroutine on the io thread of the session it came over.  *)
(* It lets the thread go only while its query runs: inside Acquire, which  *)
(* waits on a condition variable or connects synchronously, the thread is  *)
(* blocked, and with it every other coroutine of that thread, holders of a *)
(* connection included, and the I/O of every connection made on it.        *)
(***************************************************************************)
EXTENDS Naturals, Sequences, FiniteSets

CONSTANTS Requests,    \* the requests that arrive for this pool's key
          Threads,     \* the io threads
          ThreadOf,    \* ThreadOf[r]: the thread of the session r came over
          Conns,       \* names for connections
          NoConn,
          Max,         \* _max
          FirstIdle    \* the connections Initialize made

ASSUME PoolAssumption ==
  /\ IsFiniteSet(Requests)
  /\ ThreadOf \in [Requests -> Threads]
  /\ NoConn \notin Conns
  /\ Max \in Nat
  /\ FirstIdle \in Seq(Conns) /\ Len(FirstIdle) <= Max
  /\ \A i, j \in DOMAIN FirstIdle : FirstIdle[i] = FirstIdle[j] => i = j

VARIABLES idle,        \* _idle
          created,     \* _created
          closed,      \* _closed
          listed,      \* the pool is in DBExecutor's _connPools
          stage,       \* where a request is in ExecuteRequest
          conn,        \* its local conn
          home,        \* the io thread a connection's socket belongs to
          missed       \* notifications that woke a request after its deadline (history)

vars == <<idle, created, closed, listed, stage, conn, home, missed>>

-----------------------------------------------------------------------------
(* State *)

Stages == {"new", "found", "waiting", "notified", "creating", "executing", "answered", "erasing",
           "done"}

At(what) == {r \in Requests : stage[r] = what}
Holding == {r \in Requests : conn[r] # NoConn}

IsIdle(c) == \E i \in DOMAIN idle : idle[i] = c

\* Connection objects that exist: nobody else keeps one.
Live(c) == IsIdle(c) \/ \E r \in Requests : conn[r] = c

\* A thread is inside ExecuteRequest, at work or blocked.
Busy(t) ==
  \E r \in Requests :
    ThreadOf[r] = t /\ stage[r] \in {"found", "waiting", "notified", "creating", "erasing"}

\* Initialize makes connections before the pool is listed.
Init ==
  /\ idle = FirstIdle
  /\ created = Len(FirstIdle)
  /\ closed = FALSE
  /\ listed = TRUE
  /\ stage = [r \in Requests |-> "new"]
  /\ conn = [r \in Requests |-> NoConn]
  /\ home \in [Conns -> Threads]
  /\ missed = 0

-----------------------------------------------------------------------------
(* Steps of ExecuteRequest *)

Moves(r, to) == stage' = [stage EXCEPT ![r] = to]

\* The pool is looked up; when its key is not listed the request fails.
Lookup(r) ==
  /\ stage[r] = "new"
  /\ ~Busy(ThreadOf[r])
  /\ Moves(r, IF listed THEN "found" ELSE "done")
  /\ UNCHANGED <<idle, created, closed, listed, conn, home, missed>>

\* Sensitivity: the connection handed out stays in the idle queue.
TryAcquire_KeepsIdle(r) ==
  \/ /\ idle # <<>>
     /\ conn' = [conn EXCEPT ![r] = Head(idle)]
     /\ Moves(r, "executing")
     /\ UNCHANGED <<idle, created>>
  \/ /\ idle = <<>> /\ created < Max
     /\ created' = created + 1
     /\ Moves(r, "creating")
     /\ UNCHANGED <<idle, conn>>
  \/ /\ idle = <<>> /\ created >= Max
     /\ Moves(r, "waiting")
     /\ UNCHANGED <<idle, created, conn>>

\* Sensitivity: one connection too many.
TryAcquire_OverMax(r) ==
  \/ /\ idle # <<>>
     /\ conn' = [conn EXCEPT ![r] = Head(idle)]
     /\ idle' = Tail(idle)
     /\ Moves(r, "executing")
     /\ UNCHANGED created
  \/ /\ idle = <<>> /\ created <= Max
     /\ created' = created + 1
     /\ Moves(r, "creating")
     /\ UNCHANGED <<idle, conn>>
  \/ /\ idle = <<>> /\ created > Max
     /\ Moves(r, "waiting")
     /\ UNCHANGED <<idle, created, conn>>

\* Once around the loop of Acquire, under the mutex: take an idle connection and start the query,
\* or leave to make one, or wait.  _closed is not looked at here.
TryAcquire(r) ==
  \/ /\ idle # <<>>
     /\ conn' = [conn EXCEPT ![r] = Head(idle)]
     /\ idle' = Tail(idle)
     /\ Moves(r, "executing")
     /\ UNCHANGED created
  \/ /\ idle = <<>> /\ created < Max
     /\ created' = created + 1
     /\ Moves(r, "creating")
     /\ UNCHANGED <<idle, conn>>
  \/ /\ idle = <<>> /\ created >= Max
     /\ Moves(r, "waiting")
     /\ UNCHANGED <<idle, created, conn>>

\* Acquire is entered; a closed pool gives nothing.
Acquire(r) ==
  /\ stage[r] = "found"
  /\ \/ closed /\ Moves(r, "done") /\ UNCHANGED <<idle, created, conn>>
     \/ ~closed /\ TryAcquire(r)
  /\ UNCHANGED <<closed, listed, home, missed>>

\* The wait is over: notified, or woken for no reason.
Retry(r) ==
  /\ stage[r] \in {"waiting", "notified"}
  /\ TryAcquire(r)
  /\ UNCHANGED <<closed, listed, home, missed>>

\* Sensitivity: the wait has no deadline.
GiveUp_Never(r) == FALSE

\* The deadline has passed: wait_until reports the timeout, also to a request that was notified
\* and came back to the mutex too late.  The notification is not passed on.
GiveUp(r) ==
  /\ stage[r] \in {"waiting", "notified"}
  /\ missed' = IF stage[r] = "notified" THEN missed + 1 ELSE missed
  /\ Moves(r, "done")
  /\ UNCHANGED <<idle, created, closed, listed, conn, home>>

\* r moves on and notify_one wakes one of the waiting requests, if there is any.
MovesAndNotifies(r, to) ==
  IF At("waiting") = {} THEN Moves(r, to)
  ELSE \E w \in At("waiting") : stage' = [stage EXCEPT ![r] = to, ![w] = "notified"]

\* CreateConnection, without the mutex, succeeds: the connection belongs to some io thread.
CreateSucceeds(r) ==
  /\ stage[r] = "creating"
  /\ \E c \in Conns, t \in Threads :
       /\ ~Live(c)
       /\ conn' = [conn EXCEPT ![r] = c]
       /\ home' = [home EXCEPT ![c] = t]
  /\ Moves(r, "executing")
  /\ UNCHANGED <<idle, created, closed, listed, missed>>

\* Sensitivity: the failed attempt stays counted.
CreateFails_NoRollback(r) ==
  /\ stage[r] = "creating"
  /\ MovesAndNotifies(r, "done")
  /\ UNCHANGED <<idle, created, closed, listed, conn, home, missed>>

\* Sensitivity: nobody is told that there is room for a connection again.
CreateFails_NoNotify(r) ==
  /\ stage[r] = "creating"
  /\ created' = created - 1
  /\ Moves(r, "done")
  /\ UNCHANGED <<idle, closed, listed, conn, home, missed>>

\* CreateConnection fails: the count is rolled back under the mutex and a waiter notified.
CreateFails(r) ==
  /\ stage[r] = "creating"
  /\ created' = created - 1
  /\ MovesAndNotifies(r, "done")
  /\ UNCHANGED <<idle, closed, listed, conn, home, missed>>

\* The database answers, or the connection breaks; the I/O needs the connection's own io thread.
QueryEnds(r) ==
  /\ stage[r] = "executing"
  /\ ~Busy(home[conn[r]])
  /\ Moves(r, "answered")
  /\ UNCHANGED <<idle, created, closed, listed, conn, home, missed>>

\* Sensitivity: a connection goes back to a pool that was closed.
Release_Always(r) ==
  /\ idle' = Append(idle, conn[r])
  /\ MovesAndNotifies(r, "done")

\* Release: back to the idle queue with a notification, or dropped when the pool was closed.
Release(r) ==
  \/ /\ closed
     /\ Moves(r, "done")
     /\ UNCHANGED idle
  \/ /\ ~closed
     /\ idle' = Append(idle, conn[r])
     /\ MovesAndNotifies(r, "done")

\* The coroutine resumes on its session's thread and releases the connection, a broken one too.
Resume(r) ==
  /\ stage[r] = "answered"
  /\ ~Busy(ThreadOf[r])
  /\ Release(r)
  /\ conn' = [conn EXCEPT ![r] = NoConn]
  /\ UNCHANGED <<created, closed, listed, home, missed>>

\* A "close" request: CloseAll drops what is idle and wakes every waiter.
CloseAll(r) ==
  /\ stage[r] = "found"
  /\ closed' = TRUE
  /\ idle' = <<>>
  /\ stage' = [q \in Requests |-> IF q = r THEN "erasing"
                                  ELSE IF stage[q] = "waiting" THEN "notified" ELSE stage[q]]
  /\ UNCHANGED <<created, listed, conn, home, missed>>

\* Then the key is taken out of _connPools.
Erase(r) ==
  /\ stage[r] = "erasing"
  /\ listed' = FALSE
  /\ Moves(r, "done")
  /\ UNCHANGED <<idle, created, closed, conn, home, missed>>

-----------------------------------------------------------------------------

Create(r) == CreateSucceeds(r) \/ CreateFails(r)

Next ==
  \E r \in Requests :
    \/ Lookup(r) \/ Acquire(r) \/ Retry(r) \/ GiveUp(r) \/ Create(r)
    \/ QueryEnds(r) \/ Resume(r) \/ CloseAll(r) \/ Erase(r)

Safety == Init /\ [][Next]_vars

(* The io threads run what is ready, deadlines pass, and (external) connecting and querying come
   to an end. *)
Fairness ==
  \A r \in Requests :
    /\ WF_vars(Lookup(r)) /\ WF_vars(Acquire(r) \/ CloseAll(r)) /\ WF_vars(GiveUp(r))
    /\ WF_vars(Create(r)) /\ WF_vars(QueryEnds(r)) /\ WF_vars(Resume(r)) /\ WF_vars(Erase(r))

Spec == Safety /\ Fairness

-----------------------------------------------------------------------------
(* Properties *)

\* Every variable has its type; in particular _created never exceeds _max and never wraps below 0.
TypeOK ==
  /\ idle \in Seq(Conns)
  /\ created \in 0..Max
  /\ closed \in BOOLEAN /\ listed \in BOOLEAN
  /\ stage \in [Requests -> Stages]
  /\ conn \in [Requests -> Conns \cup {NoConn}]
  /\ home \in [Conns -> Threads]
  /\ missed \in Nat

\* A connection serves one request at a time: it is in the idle queue once, or with one request,
\* never both, however acquiring, creating, releasing and closing interleave.
NoSharing ==
  /\ \A i, j \in DOMAIN idle : idle[i] = idle[j] => i = j
  /\ \A r \in Holding : ~IsIdle(conn[r])
  /\ \A q, r \in Holding : conn[q] = conn[r] => q = r

\* _created counts the connections that exist and those being made; in an open pool exactly, so no
\* failed attempt, timeout or lost query uses up one of the _max places for good.
Accounting ==
  LET inUse == Len(idle) + Cardinality(At("creating")) + Cardinality(Holding) IN
  inUse <= created /\ (~closed => inUse = created)

Lending == INSTANCE ConnectionLending
             WITH Borrowers <- Requests, free <- {idle[i] : i \in DOMAIN idle}, lent <- conn,
                  asking <- At("waiting") \cup At("notified"), making <- At("creating"),
                  open <- ~closed

\* The pool lends its connections: each request is lent a connection that is free, or one that is made
\* for it when none is free and fewer than _max exist; after CloseAll what comes back is dropped, and a
\* connection is lent or made only for a request that was waiting already (which the code should not
\* do either: ClosedCreatesNothing).
LendsConnections == Lending!Safety

\* No lost wakeup: while some request waits, every idle connection and every free place has a
\* notification on its way for it, but for those that reached a request after its deadline.
NoLostWakeup ==
  At("waiting") # {} => Len(idle) + (Max - created) <= Cardinality(At("notified")) + missed

\* Every request is answered, although a request waiting for a connection blocks the very thread
\* on which the holder of one must resume: the deadline dissolves every such knot.
Answered == \A r \in Requests : (stage[r] # "new") ~> (stage[r] = "done")

-----------------------------------------------------------------------------
(* What a comment says and the code does not do *)

\* "获取连接，如果连接池已关闭，则返回空" (DBConnectionPool.h:29: when the pool is closed Acquire returns
\* nothing): no connection is begun for a request once the pool is closed.
ClosedCreatesNothing ==
  [][closed => \A r \in Requests : stage'[r] = "creating" => stage[r] = "creating"]_vars
=============================================================================
