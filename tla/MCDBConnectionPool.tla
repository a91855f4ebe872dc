-------------------------- MODULE MCDBConnectionPool -------------------------
(***************************************************************************)
(* Four requests over two io threads share a pool of two connections, one  *)
(* of them made by Initialize: requests wait, create, fail, time out and   *)
(* close the pool while others hold its connections.                       *)
(***************************************************************************)
EXTENDS DBConnectionPool

CONSTANTS r1, r2, r3, r4, t1, t2, c1, c2

MCRequests == {r1, r2, r3, r4}
MCThreads == {t1, t2}
MCThreadOf == [r \in MCRequests |-> IF r \in {r1, r2} THEN t1 ELSE t2]
MCConns == {c1, c2}
MCFirstIdle == <<c1>>
=============================================================================
