------------------------ MODULE DBConnectionPoolProofs ------------------------
(***************************************************************************)
(* Proofs about the database connection pool, for any number of requests,  *)
(* io threads and connections.                                             *)
(***************************************************************************)
EXTENDS DBConnectionPool, FiniteSetTheorems, TLAPS

-----------------------------------------------------------------------------
(* Counting *)

\* The size of a finite set that gains or loses an element.
LEMMA SizeChanges ==
  ASSUME NEW S, IsFiniteSet(S), NEW x
  PROVE  /\ Cardinality(S) \in Nat
         /\ x \notin S => Cardinality(S \cup {x}) = Cardinality(S) + 1
         /\ x \in S => Cardinality(S \ {x}) = Cardinality(S) - 1 /\ Cardinality(S) > 0
<1>1. Cardinality(S) \in Nat
  BY FS_CardinalityType
<1>2. x \notin S => Cardinality(S \cup {x}) = Cardinality(S) + 1
  BY FS_AddElement
<1>3. x \in S => Cardinality(S \ {x}) = Cardinality(S) - 1
  BY FS_RemoveElement
<1>4. x \in S => Cardinality(S) > 0
  BY <1>1, FS_EmptySet
<1> QED BY <1>1, <1>2, <1>3, <1>4

\* The sets that are counted are finite.
LEMMA Finite ==
  /\ \A w : IsFiniteSet(At(w)) /\ Cardinality(At(w)) \in Nat
  /\ IsFiniteSet(Holding) /\ Cardinality(Holding) \in Nat
<1>1. \A w : IsFiniteSet(At(w))
  BY PoolAssumption, FS_Subset DEF At
<1>2. IsFiniteSet(Holding)
  BY PoolAssumption, FS_Subset DEF Holding
<1> QED BY <1>1, <1>2, FS_CardinalityType

-----------------------------------------------------------------------------
(* The inductive invariant *)

\* A request holds a connection while its query runs and until it resumes.
HoldsInQuery ==
  \A r \in Requests : conn[r] # NoConn <=> stage[r] \in {"executing", "answered"}

\* A closed pool keeps no connection, whatever is released after CloseAll.
ClosedIsEmpty == closed => idle = <<>>

PoolInv == TypeOK /\ HoldsInQuery /\ NoSharing /\ ClosedIsEmpty /\ Accounting

\* Places of the pool that are taken.
InUse == Len(idle) + Cardinality(At("creating")) + Cardinality(Holding)

\* The first and the other connections of a queue.
LEMMA HeadAndTail ==
  ASSUME NEW q \in Seq(Conns), q # <<>>
  PROVE  /\ Head(q) \in Conns /\ Head(q) = q[1] /\ 1 \in DOMAIN q
         /\ Tail(q) \in Seq(Conns)
         /\ Len(Tail(q)) = Len(q) - 1
         /\ \A i \in DOMAIN Tail(q) : i + 1 \in DOMAIN q /\ Tail(q)[i] = q[i + 1]
OBVIOUS

\* A queue with a connection appended.
LEMMA Appended ==
  ASSUME NEW q \in Seq(Conns), NEW c \in Conns
  PROVE  /\ Append(q, c) \in Seq(Conns)
         /\ Len(Append(q, c)) = Len(q) + 1
         /\ \A i \in DOMAIN Append(q, c) :
              (i \in DOMAIN q /\ Append(q, c)[i] = q[i]) \/ (i = Len(q) + 1 /\ Append(q, c)[i] = c)
OBVIOUS

\* Notifying changes who waits, and nothing else the invariant speaks of.
LEMMA Notified ==
  ASSUME TypeOK, NEW r \in Requests, stage[r] \in {"creating", "answered"},
         MovesAndNotifies(r, "done")
  PROVE  /\ stage' \in [Requests -> Stages]
         /\ stage'[r] = "done"
         /\ \A q \in Requests : q # r =>
              stage'[q] = stage[q] \/ (stage[q] = "waiting" /\ stage'[q] = "notified")
         /\ At("creating")' = At("creating") \ {r}
<1>1. CASE At("waiting") = {}
  BY <1>1 DEF MovesAndNotifies, Moves, At, TypeOK, Stages
<1>2. CASE At("waiting") # {}
  <2>1. PICK w \in At("waiting") : stage' = [stage EXCEPT ![r] = "done", ![w] = "notified"]
    BY <1>2 DEF MovesAndNotifies
  <2>2. w \in Requests /\ stage[w] = "waiting" /\ w # r
    BY <2>1 DEF At
  <2> QED BY <2>1, <2>2 DEF At, TypeOK, Stages
<1> QED BY <1>1, <1>2

\* TryAcquire keeps the invariant, in a pool whose state it may not have looked at.
LEMMA TryAcquireKeeps ==
  ASSUME PoolInv, NEW r \in Requests, stage[r] \in {"found", "waiting", "notified"},
         TryAcquire(r), UNCHANGED <<closed, listed, home, missed>>
  PROVE  PoolInv'
<1> USE PoolAssumption
<1>1. conn[r] = NoConn /\ r \notin Holding /\ r \notin At("creating")
  BY DEF PoolInv, HoldsInQuery, Holding, At
<1>2. /\ Cardinality(At("creating")) \in Nat /\ Cardinality(Holding) \in Nat /\ Len(idle) \in Nat
      /\ created \in Nat /\ InUse <= created /\ (~closed => InUse = created)
  BY Finite DEF PoolInv, TypeOK, Accounting, InUse
<1>3. CASE idle # <<>> /\ conn' = [conn EXCEPT ![r] = Head(idle)] /\ idle' = Tail(idle)
           /\ Moves(r, "executing") /\ UNCHANGED created
  <2>1. idle \in Seq(Conns) /\ idle # <<>>
    BY <1>3 DEF PoolInv, TypeOK
  <2>2. /\ Head(idle) \in Conns /\ Head(idle) = idle[1] /\ 1 \in DOMAIN idle
        /\ Tail(idle) \in Seq(Conns)
        /\ Len(Tail(idle)) = Len(idle) - 1
        /\ \A i \in DOMAIN Tail(idle) : i + 1 \in DOMAIN idle /\ Tail(idle)[i] = idle[i + 1]
    BY <2>1, HeadAndTail
  <2>3. TypeOK'
    BY <1>3, <2>2 DEF PoolInv, TypeOK, Moves, Stages
  <2>4. HoldsInQuery'
    BY <1>3, <2>2 DEF PoolInv, TypeOK, Moves, HoldsInQuery
  <2>5. Holding' = Holding \cup {r}
    BY <1>3, <2>2 DEF Holding, PoolInv, TypeOK
  <2>6. At("creating")' = At("creating")
    BY <1>1, <1>3 DEF At, Moves, PoolInv, TypeOK
  <2>7. Len(idle)' = Len(idle) - 1
    BY <1>3, <2>2
  <2>8. Accounting'
    <3>1. Cardinality(Holding)' = Cardinality(Holding) + 1
      BY <1>1, <2>5, Finite, SizeChanges
    <3> QED BY <1>2, <1>3, <2>6, <2>7, <3>1 DEF Accounting, InUse
  <2>9. ~closed /\ ClosedIsEmpty'
    BY <2>1 DEF PoolInv, ClosedIsEmpty
  <2>10. NoSharing'
    <3>1. \A i, j \in DOMAIN idle' : idle'[i] = idle'[j] => i = j
      <4>1. \A i, j \in DOMAIN Tail(idle) : Tail(idle)[i] = Tail(idle)[j] => i + 1 = j + 1
        BY <2>2 DEF PoolInv, NoSharing
      <4>2. \A i \in DOMAIN Tail(idle) : i \in Nat
        BY <2>2
      <4>3. \A i, j \in Nat : i + 1 = j + 1 => i = j
        OBVIOUS
      <4> QED BY <1>3, <4>1, <4>2, <4>3
    <3>2. \A i \in DOMAIN idle' : idle'[i] # Head(idle)
      <4>1. \A i \in DOMAIN Tail(idle) : i + 1 # 1
        BY <2>2
      <4> QED BY <1>3, <2>2, <4>1 DEF PoolInv, NoSharing
    <3>3. \A i \in DOMAIN idle' : \E j \in DOMAIN idle : idle'[i] = idle[j]
      BY <1>3, <2>2
    <3>4. conn'[r] = Head(idle) /\ \A q \in Requests : q # r => conn'[q] = conn[q]
      BY <1>3 DEF PoolInv, TypeOK
    <3>5. \A q \in Holding : conn[q] # Head(idle)
      BY <2>2 DEF PoolInv, NoSharing, IsIdle
    <3>6. \A q \in Holding' : ~(\E i \in DOMAIN idle' : idle'[i] = conn'[q])
      BY <1>1, <2>5, <3>2, <3>3, <3>4 DEF PoolInv, NoSharing, IsIdle, Holding
    <3>7. \A p, q \in Holding' : conn'[p] = conn'[q] => p = q
      BY <1>1, <2>5, <3>4, <3>5 DEF PoolInv, NoSharing, Holding
    <3> QED BY <3>1, <3>6, <3>7 DEF NoSharing, IsIdle
  <2> QED BY <2>3, <2>4, <2>8, <2>9, <2>10 DEF PoolInv
<1>4. CASE idle = <<>> /\ created < Max /\ created' = created + 1 /\ Moves(r, "creating")
           /\ UNCHANGED <<idle, conn>>
  <2>1. TypeOK'
    BY <1>4 DEF PoolInv, TypeOK, Moves, Stages
  <2>2. HoldsInQuery'
    BY <1>1, <1>4 DEF PoolInv, TypeOK, Moves, HoldsInQuery
  <2>3. NoSharing' /\ ClosedIsEmpty'
    BY <1>4 DEF PoolInv, NoSharing, ClosedIsEmpty, Holding, IsIdle
  <2>4. Accounting'
    <3>1. At("creating")' = At("creating") \cup {r} /\ Holding' = Holding
      BY <1>4 DEF At, Moves, PoolInv, TypeOK, Holding
    <3>2. Cardinality(At("creating"))' = Cardinality(At("creating")) + 1
      BY <1>1, <3>1, Finite, SizeChanges
    <3> QED BY <1>2, <1>4, <3>1, <3>2 DEF Accounting, InUse
  <2> QED BY <2>1, <2>2, <2>3, <2>4 DEF PoolInv
<1>5. CASE idle = <<>> /\ created >= Max /\ Moves(r, "waiting") /\ UNCHANGED <<idle, created, conn>>
  <2>1. TypeOK'
    BY <1>5 DEF PoolInv, TypeOK, Moves, Stages
  <2>2. HoldsInQuery'
    BY <1>1, <1>5 DEF PoolInv, TypeOK, Moves, HoldsInQuery
  <2>3. NoSharing' /\ ClosedIsEmpty'
    BY <1>5 DEF PoolInv, NoSharing, ClosedIsEmpty, Holding, IsIdle
  <2>4. At("creating")' = At("creating") /\ Holding' = Holding
    BY <1>1, <1>5 DEF At, Moves, PoolInv, TypeOK, Holding
  <2> QED BY <1>5, <2>1, <2>2, <2>3, <2>4 DEF PoolInv, Accounting
<1> QED BY <1>3, <1>4, <1>5 DEF TryAcquire

\* What a step must show when it takes no place and frees none, and moves no connection.
LEMMA NothingTaken ==
  ASSUME PoolInv, TypeOK', HoldsInQuery', UNCHANGED <<idle, created, closed, conn>>,
         At("creating")' = At("creating")
  PROVE  PoolInv'
<1>1. Holding' = Holding
  BY DEF Holding
<1>2. NoSharing' /\ ClosedIsEmpty' /\ Accounting'
  BY <1>1 DEF PoolInv, NoSharing, IsIdle, ClosedIsEmpty, Accounting
<1> QED BY <1>2 DEF PoolInv

\* A new connection goes to the request that asked for it.
LEMMA CreateSucceedsKeeps ==
  ASSUME PoolInv, NEW r \in Requests, CreateSucceeds(r)
  PROVE  PoolInv'
<1> USE PoolAssumption
<1>1. PICK c \in Conns, t \in Threads :
        /\ ~Live(c)
        /\ conn' = [conn EXCEPT ![r] = c]
        /\ home' = [home EXCEPT ![c] = t]
  BY DEF CreateSucceeds
<1>2. stage[r] = "creating" /\ Moves(r, "executing") /\ UNCHANGED <<idle, created, closed, listed, missed>>
  BY DEF CreateSucceeds
<1>3. TypeOK' /\ HoldsInQuery'
  BY <1>1, <1>2 DEF PoolInv, TypeOK, HoldsInQuery, Moves, Stages
<1>4. r \notin Holding /\ Holding' = Holding \cup {r}
  BY <1>1, <1>2 DEF PoolInv, TypeOK, HoldsInQuery, Holding
<1>5. r \in At("creating") /\ At("creating")' = At("creating") \ {r}
  BY <1>2 DEF At, Moves, PoolInv, TypeOK
<1>6. Accounting'
  <2>1. /\ Cardinality(At("creating"))' = Cardinality(At("creating")) - 1
        /\ Cardinality(Holding)' = Cardinality(Holding) + 1
    BY <1>4, <1>5, Finite, SizeChanges
  <2>2. /\ Cardinality(At("creating")) \in Nat /\ Cardinality(Holding) \in Nat /\ Len(idle) \in Nat
        /\ created \in Nat
    BY Finite DEF PoolInv, TypeOK
  <2>3. idle' = idle /\ created' = created /\ closed' = closed
    BY <1>2
  <2>4. /\ Len(idle) + Cardinality(At("creating")) + Cardinality(Holding) <= created
        /\ ~closed => Len(idle) + Cardinality(At("creating")) + Cardinality(Holding) = created
    BY DEF PoolInv, Accounting
  <2>5. Len(idle)' + Cardinality(At("creating"))' + Cardinality(Holding)'
          = Len(idle) + Cardinality(At("creating")) + Cardinality(Holding)
    BY <2>1, <2>2, <2>3
  <2> QED BY ONLY <2>3, <2>4, <2>5 DEF Accounting
<1>7. NoSharing' /\ ClosedIsEmpty'
  <2>1. conn'[r] = c /\ \A q \in Requests : q # r => conn'[q] = conn[q]
    BY <1>1 DEF PoolInv, TypeOK
  <2>2. \A q \in Holding : conn[q] # c
    BY <1>1 DEF Live, Holding
  <2>3. ~IsIdle(c)
    BY <1>1 DEF Live
  <2>4. ClosedIsEmpty' /\ idle' = idle
    BY <1>2 DEF PoolInv, ClosedIsEmpty
  <2>5. \A q \in Holding' : ~(\E i \in DOMAIN idle' : idle'[i] = conn'[q])
    BY <1>4, <2>1, <2>3, <2>4 DEF PoolInv, NoSharing, IsIdle, Holding
  <2>6. \A p, q \in Holding' : conn'[p] = conn'[q] => p = q
    BY <1>4, <2>1, <2>2 DEF PoolInv, NoSharing, Holding
  <2> QED BY <2>4, <2>5, <2>6 DEF PoolInv, NoSharing, IsIdle
<1> QED BY <1>3, <1>6, <1>7 DEF PoolInv

\* A failed attempt gives its place back.
LEMMA CreateFailsKeeps ==
  ASSUME PoolInv, NEW r \in Requests, CreateFails(r)
  PROVE  PoolInv'
<1> USE PoolAssumption
<1>1. /\ stage[r] = "creating" /\ created' = created - 1
      /\ MovesAndNotifies(r, "done") /\ UNCHANGED <<idle, closed, listed, conn, home, missed>>
  BY DEF CreateFails
<1>2. /\ stage' \in [Requests -> Stages]
      /\ stage'[r] = "done"
      /\ \A q \in Requests : q # r =>
           stage'[q] = stage[q] \/ (stage[q] = "waiting" /\ stage'[q] = "notified")
      /\ At("creating")' = At("creating") \ {r}
  BY <1>1, Notified DEF PoolInv
<1>3. /\ Cardinality(At("creating")) \in Nat /\ Cardinality(At("creating")) > 0
      /\ Cardinality(At("creating"))' = Cardinality(At("creating")) - 1
      /\ Cardinality(Holding) \in Nat /\ Len(idle) \in Nat /\ Holding' = Holding
  <2>1. r \in At("creating")
    BY <1>1 DEF At
  <2>2. Len(idle) \in Nat /\ Holding' = Holding
    BY <1>1 DEF PoolInv, TypeOK, Holding
  <2>3. IsFiniteSet(At("creating")) /\ Cardinality(Holding) \in Nat
    BY Finite
  <2>4. /\ Cardinality(At("creating")) \in Nat /\ Cardinality(At("creating")) > 0
        /\ Cardinality(At("creating") \ {r}) = Cardinality(At("creating")) - 1
    BY <2>1, <2>3, SizeChanges
  <2> QED BY <1>2, <2>2, <2>3, <2>4
<1>4. created \in Nat /\ created <= Max /\ created >= Cardinality(At("creating"))
  BY <1>3 DEF PoolInv, TypeOK, Accounting
<1>5. TypeOK'
  BY <1>1, <1>2, <1>3, <1>4 DEF PoolInv, TypeOK
<1>6. HoldsInQuery'
  BY <1>1, <1>2 DEF PoolInv, HoldsInQuery
<1>7. Accounting'
  <2>1. /\ InUse <= created /\ (~closed => InUse = created)
        /\ UNCHANGED <<idle, closed>> /\ created' = created - 1
    BY <1>1 DEF PoolInv, Accounting, InUse
  <2>2. InUse' = InUse - 1
    BY <1>3, <2>1 DEF InUse
  <2>3. InUse \in Nat
    BY <1>3 DEF InUse
  <2> QED BY <1>4, <2>1, <2>2, <2>3 DEF Accounting, InUse
<1>8. NoSharing' /\ ClosedIsEmpty'
  BY <1>1 DEF PoolInv, NoSharing, ClosedIsEmpty, Holding, IsIdle
<1> QED BY <1>5, <1>6, <1>7, <1>8 DEF PoolInv

\* A released connection is idle or gone, and in either case no longer the request's.
LEMMA ResumeKeeps ==
  ASSUME PoolInv, NEW r \in Requests, Resume(r)
  PROVE  PoolInv'
<1> USE PoolAssumption
<1>1. /\ stage[r] = "answered" /\ conn' = [conn EXCEPT ![r] = NoConn] /\ Release(r)
      /\ UNCHANGED <<created, closed, listed, home, missed>>
  BY DEF Resume
<1>2. /\ conn[r] \in Conns /\ r \in Holding /\ Holding' = Holding \ {r}
      /\ \A q \in Requests : q # r => conn'[q] = conn[q]
  BY <1>1 DEF PoolInv, TypeOK, HoldsInQuery, Holding
<1>3. /\ Cardinality(At("creating")) \in Nat /\ Cardinality(Holding) \in Nat /\ Len(idle) \in Nat
      /\ Cardinality(Holding)' = Cardinality(Holding) - 1 /\ created \in Nat
  BY <1>2, Finite, SizeChanges DEF PoolInv, TypeOK
<1>4. CASE closed /\ Moves(r, "done") /\ UNCHANGED idle
  <2>1. TypeOK' /\ HoldsInQuery'
    BY <1>1, <1>4 DEF PoolInv, TypeOK, HoldsInQuery, Moves, Stages
  <2>2. At("creating")' = At("creating")
    BY <1>1, <1>4 DEF At, Moves, PoolInv, TypeOK
  <2>3. Accounting'
    BY <1>1, <1>3, <1>4, <2>2 DEF PoolInv, Accounting
  <2>4. NoSharing' /\ ClosedIsEmpty'
    BY <1>1, <1>2, <1>4 DEF PoolInv, NoSharing, ClosedIsEmpty, IsIdle, Holding
  <2> QED BY <2>1, <2>3, <2>4 DEF PoolInv
<1>5. CASE ~closed /\ idle' = Append(idle, conn[r]) /\ MovesAndNotifies(r, "done")
  <2>1. idle \in Seq(Conns)
    BY DEF PoolInv, TypeOK
  <2>2. /\ idle' \in Seq(Conns)
        /\ Len(idle') = Len(idle) + 1
        /\ \A i \in DOMAIN idle' : (i \in DOMAIN idle /\ idle'[i] = idle[i])
                                    \/ (i = Len(idle) + 1 /\ idle'[i] = conn[r])
    BY <1>2, <1>5, <2>1, Appended
  <2>3. /\ stage' \in [Requests -> Stages]
        /\ stage'[r] = "done"
        /\ \A q \in Requests : q # r =>
             stage'[q] = stage[q] \/ (stage[q] = "waiting" /\ stage'[q] = "notified")
        /\ At("creating")' = At("creating") \ {r}
    BY <1>1, <1>5, Notified DEF PoolInv
  <2>4. TypeOK'
    BY <1>1, <2>2, <2>3 DEF PoolInv, TypeOK
  <2>5. HoldsInQuery'
    BY <1>1, <1>2, <2>3 DEF PoolInv, TypeOK, HoldsInQuery
  <2>6. At("creating")' = At("creating")
    BY <1>1, <2>3 DEF At
  <2>7. Accounting'
    BY <1>1, <1>3, <1>5, <2>2, <2>6 DEF PoolInv, Accounting
  <2>8. ~IsIdle(conn[r]) /\ \A q \in Holding : q # r => conn[q] # conn[r]
    BY <1>2 DEF PoolInv, NoSharing
  <2>9. \A i, j \in DOMAIN idle' : idle'[i] = idle'[j] => i = j
    BY <2>2, <2>8 DEF PoolInv, NoSharing, IsIdle
  <2>10. \A q \in Holding' : ~(\E i \in DOMAIN idle' : idle'[i] = conn'[q])
    BY <1>2, <2>2, <2>8 DEF PoolInv, NoSharing, IsIdle, Holding
  <2>11. \A p, q \in Holding' : conn'[p] = conn'[q] => p = q
    BY <1>2 DEF PoolInv, NoSharing, Holding
  <2>12. NoSharing' /\ ClosedIsEmpty'
    BY <1>1, <1>5, <2>9, <2>10, <2>11 DEF NoSharing, IsIdle, ClosedIsEmpty
  <2> QED BY <2>4, <2>5, <2>7, <2>12 DEF PoolInv
<1> QED BY <1>1, <1>4, <1>5 DEF Release

\* CloseAll empties the queue and disturbs no request that has a connection or makes one.
LEMMA CloseAllKeeps ==
  ASSUME PoolInv, NEW r \in Requests, CloseAll(r)
  PROVE  PoolInv'
<1> USE PoolAssumption
<1>1. /\ closed' = TRUE /\ idle' = <<>> /\ UNCHANGED <<created, listed, conn, home, missed>>
      /\ stage[r] = "found" /\ stage' \in [Requests -> Stages] /\ stage'[r] = "erasing"
      /\ \A q \in Requests : q # r =>
           stage'[q] = stage[q] \/ (stage[q] = "waiting" /\ stage'[q] = "notified")
  BY DEF CloseAll, PoolInv, TypeOK, Stages
<1>2. TypeOK' /\ HoldsInQuery'
  BY <1>1 DEF PoolInv, TypeOK, HoldsInQuery
<1>3. At("creating")' = At("creating") /\ Holding' = Holding
  BY <1>1 DEF At, Holding
<1>4. Accounting'
  <2>1. /\ Cardinality(At("creating")) \in Nat /\ Cardinality(Holding) \in Nat /\ Len(idle) \in Nat
        /\ created \in Nat /\ Len(idle') = 0
    BY <1>1, Finite DEF PoolInv, TypeOK
  <2> QED BY <1>1, <1>3, <2>1 DEF PoolInv, Accounting
<1>5. NoSharing' /\ ClosedIsEmpty'
  BY <1>1, <1>3 DEF PoolInv, NoSharing, ClosedIsEmpty, IsIdle
<1> QED BY <1>2, <1>4, <1>5 DEF PoolInv

\* Every step keeps the invariant.
LEMMA PoolStep ==
  ASSUME PoolInv, [Next]_vars
  PROVE  PoolInv'
<1> USE PoolAssumption
<1>1. ASSUME NEW r \in Requests, Lookup(r) \/ GiveUp(r) \/ QueryEnds(r) \/ Erase(r) PROVE PoolInv'
  <2>1. TypeOK' /\ HoldsInQuery'
    <3>1. CASE Lookup(r)
      BY <3>1 DEF Lookup, Moves, PoolInv, TypeOK, HoldsInQuery, Stages
    <3>2. CASE GiveUp(r)
      BY <3>2 DEF GiveUp, Moves, PoolInv, TypeOK, HoldsInQuery, Stages
    <3>3. CASE QueryEnds(r)
      BY <3>3 DEF QueryEnds, Moves, PoolInv, TypeOK, HoldsInQuery, Stages
    <3>4. CASE Erase(r)
      BY <3>4 DEF Erase, Moves, PoolInv, TypeOK, HoldsInQuery, Stages
    <3> QED BY <1>1, <3>1, <3>2, <3>3, <3>4
  <2>2. At("creating")' = At("creating")
    BY <1>1 DEF Lookup, GiveUp, QueryEnds, Erase, Moves, At, PoolInv, TypeOK
  <2>3. UNCHANGED <<idle, created, closed, conn>>
    BY <1>1 DEF Lookup, GiveUp, QueryEnds, Erase
  <2> QED BY <2>1, <2>2, <2>3, NothingTaken
<1>2. ASSUME NEW r \in Requests, Acquire(r) PROVE PoolInv'
  <2>1. CASE closed /\ Moves(r, "done") /\ UNCHANGED <<idle, created, conn>>
    <3>1. stage[r] = "found" /\ UNCHANGED <<closed, listed, home, missed>>
      BY <1>2 DEF Acquire
    <3>2. TypeOK' /\ HoldsInQuery'
      BY <2>1, <3>1 DEF Moves, PoolInv, TypeOK, HoldsInQuery, Stages
    <3>3. At("creating")' = At("creating")
      BY <2>1, <3>1 DEF Moves, At, PoolInv, TypeOK
    <3> QED BY <2>1, <3>1, <3>2, <3>3, NothingTaken
  <2>2. CASE ~closed /\ TryAcquire(r)
    BY <1>2, <2>2, TryAcquireKeeps DEF Acquire
  <2> QED BY <1>2, <2>1, <2>2 DEF Acquire
<1>3. ASSUME NEW r \in Requests, Retry(r) PROVE PoolInv'
  BY <1>3, TryAcquireKeeps DEF Retry
<1>4. ASSUME NEW r \in Requests, Create(r) PROVE PoolInv'
  BY <1>4, CreateSucceedsKeeps, CreateFailsKeeps DEF Create
<1>5. CASE UNCHANGED vars
  BY <1>5 DEF vars, PoolInv, TypeOK, HoldsInQuery, NoSharing, ClosedIsEmpty, Accounting, IsIdle,
              Holding, At
<1> QED BY <1>1, <1>2, <1>3, <1>4, <1>5, ResumeKeeps, CloseAllKeeps DEF Next

\* The invariant holds in every reachable state.
LEMMA PoolInvariance == Safety => []PoolInv
<1>1. Init => PoolInv
  <2> SUFFICES ASSUME Init PROVE PoolInv
    OBVIOUS
  <2> USE PoolAssumption
  <2>1. TypeOK
    <3>1. Len(FirstIdle) \in 0..Max
      OBVIOUS
    <3>2. stage \in [Requests -> Stages] /\ conn \in [Requests -> Conns \cup {NoConn}]
      BY DEF Init, Stages
    <3> QED BY <3>1, <3>2 DEF Init, TypeOK
  <2>2. HoldsInQuery /\ ClosedIsEmpty
    BY DEF Init, HoldsInQuery, ClosedIsEmpty
  <2>3. Holding = {} /\ At("creating") = {}
    BY DEF Init, Holding, At
  <2>4. NoSharing
    BY <2>3 DEF Init, NoSharing
  <2>5. Accounting
    <3>1. Cardinality(Holding) = 0 /\ Cardinality(At("creating")) = 0
      BY <2>3, FS_EmptySet
    <3>2. Len(idle) \in Nat /\ created = Len(idle)
      BY <2>1 DEF Init, TypeOK
    <3> QED BY <3>1, <3>2 DEF Accounting
  <2> QED BY <2>1, <2>2, <2>4, <2>5 DEF PoolInv
<1>2. PoolInv /\ [Next]_vars => PoolInv'
  BY PoolStep
<1> QED BY <1>1, <1>2, PTL DEF Safety

-----------------------------------------------------------------------------
(* Theorems *)

\* Every variable keeps its type: _created stays between 0 and _max.
THEOREM PoolTypes == Safety => []TypeOK
<1>1. PoolInv => TypeOK
  BY DEF PoolInv
<1> QED BY <1>1, PoolInvariance, PTL

\* A connection never serves two requests, and is never idle while it serves one.
THEOREM NoSharingAlways == Safety => []NoSharing
<1>1. PoolInv => NoSharing
  BY DEF PoolInv
<1> QED BY <1>1, PoolInvariance, PTL

\* _created counts the places in use: none is lost while the pool is open.
THEOREM AccountingAlways == Safety => []Accounting
<1>1. PoolInv => Accounting
  BY DEF PoolInv
<1> QED BY <1>1, PoolInvariance, PTL

\* A closed pool keeps no connection.
THEOREM ClosedIsEmptyAlways == Safety => []ClosedIsEmpty
<1>1. PoolInv => ClosedIsEmpty
  BY DEF PoolInv
<1> QED BY <1>1, PoolInvariance, PTL

-----------------------------------------------------------------------------
(* No lost wakeup *)

\* A step that changes neither the pool's places nor who waits or was notified.
LEMMA WaitersUndisturbed ==
  ASSUME NoLostWakeup, UNCHANGED <<idle, created, missed>>,
         At("waiting")' = At("waiting"), At("notified")' = At("notified")
  PROVE  NoLostWakeup'
BY DEF NoLostWakeup

\* A new place in the pool is announced to a waiter, if there is one.
LEMMA Announced ==
  ASSUME TypeOK, NEW r \in Requests, stage[r] \in {"creating", "answered"},
         MovesAndNotifies(r, "done"), At("waiting")' # {}
  PROVE  /\ At("waiting") # {}
         /\ Cardinality(At("notified"))' = Cardinality(At("notified")) + 1
<1>1. At("waiting") # {}
  BY DEF MovesAndNotifies, Moves, At, TypeOK
<1>2. PICK w \in At("waiting") : stage' = [stage EXCEPT ![r] = "done", ![w] = "notified"]
  BY <1>1 DEF MovesAndNotifies
<1>3. At("notified")' = At("notified") \cup {w} /\ w \notin At("notified")
  BY <1>2 DEF At, TypeOK
<1> QED BY <1>1, <1>3, Finite, SizeChanges

\* A request that tries to acquire takes a place, or there is none.
LEMMA TryAcquireAnnounces ==
  ASSUME TypeOK, NoLostWakeup, NEW r \in Requests, stage[r] \in {"found", "waiting", "notified"},
         TryAcquire(r), UNCHANGED missed
  PROVE  NoLostWakeup'
<1> USE PoolAssumption
<1> DEFINE n == Cardinality(At("notified"))
<1>1. n \in Nat /\ n' \in Nat /\ missed \in Nat /\ created \in 0..Max /\ Len(idle) \in Nat
  <2>1. n' \in Nat
    <3>1. IsFiniteSet({q \in Requests : stage'[q] = "notified"})
      BY FS_Subset
    <3>2. At("notified")' = {q \in Requests : stage'[q] = "notified"}
      BY DEF At
    <3> QED BY <3>1, <3>2, FS_CardinalityType
  <2> QED BY <2>1, Finite DEF TypeOK
<1>2. ASSUME NEW to \in {"executing", "creating"}, Moves(r, to)
      PROVE  (At("waiting")' # {} => At("waiting") # {}) /\ n' >= n - 1
  <2>1. At("waiting")' = At("waiting") \ {r} /\ At("notified")' = At("notified") \ {r}
    BY <1>2 DEF Moves, At, TypeOK
  <2>2. CASE r \in At("notified")
    BY <1>1, <2>1, <2>2, Finite, SizeChanges
  <2>3. CASE r \notin At("notified")
    <3>1. At("notified")' = At("notified")
      BY <2>1, <2>3
    <3>2. n' = n
      BY <3>1
    <3> QED BY <1>1, <2>1, <3>2
  <2> QED BY <2>2, <2>3
<1>3. CASE idle # <<>> /\ idle' = Tail(idle) /\ Moves(r, "executing") /\ UNCHANGED created
  <2>1. Len(idle') = Len(idle) - 1
    <3>1. idle \in Seq(Conns)
      BY DEF TypeOK
    <3> QED BY <1>3, <3>1, HeadAndTail
  <2>2. (At("waiting")' # {} => At("waiting") # {}) /\ n' >= n - 1
    BY <1>2, <1>3
  <2> QED BY <1>1, <1>3, <2>1, <2>2 DEF NoLostWakeup
<1>4. CASE created < Max /\ created' = created + 1 /\ Moves(r, "creating") /\ UNCHANGED idle
  <2>1. (At("waiting")' # {} => At("waiting") # {}) /\ n' >= n - 1
    BY <1>2, <1>4
  <2> QED BY <1>1, <1>4, <2>1 DEF NoLostWakeup
<1>5. CASE idle = <<>> /\ created >= Max /\ UNCHANGED <<idle, created>>
  <2>1. Len(idle') = 0 /\ created' = Max
    BY <1>1, <1>5
  <2> QED BY <1>1, <2>1 DEF NoLostWakeup
<1> QED BY <1>3, <1>4, <1>5 DEF TryAcquire

\* Every step of the pool announces the places it frees.
LEMMA WakeupStep ==
  ASSUME TypeOK, NoLostWakeup, [Next]_vars
  PROVE  NoLostWakeup'
<1> USE PoolAssumption
<1>1. /\ Cardinality(At("notified")) \in Nat /\ missed \in Nat /\ created \in 0..Max
      /\ Len(idle) \in Nat
  BY Finite DEF TypeOK
<1>2. ASSUME NEW r \in Requests, Lookup(r) \/ CreateSucceeds(r) \/ QueryEnds(r) \/ Erase(r)
      PROVE  NoLostWakeup'
  <2>1. At("waiting")' = At("waiting") /\ At("notified")' = At("notified")
    BY <1>2 DEF Lookup, CreateSucceeds, QueryEnds, Erase, Moves, At, TypeOK
  <2>2. UNCHANGED <<idle, created, missed>>
    BY <1>2 DEF Lookup, CreateSucceeds, QueryEnds, Erase
  <2> QED BY <2>1, <2>2, WaitersUndisturbed
<1>3. ASSUME NEW r \in Requests, Acquire(r) PROVE NoLostWakeup'
  <2>1. stage[r] = "found" /\ UNCHANGED missed
    BY <1>3 DEF Acquire
  <2>2. CASE Moves(r, "done") /\ UNCHANGED <<idle, created>>
    <3>1. At("waiting")' = At("waiting") /\ At("notified")' = At("notified")
      BY <2>1, <2>2 DEF Moves, At, TypeOK
    <3> QED BY <2>1, <2>2, <3>1, WaitersUndisturbed
  <2>3. CASE TryAcquire(r)
    BY <2>1, <2>3, TryAcquireAnnounces
  <2> QED BY <1>3, <2>2, <2>3 DEF Acquire
<1>4. ASSUME NEW r \in Requests, Retry(r) PROVE NoLostWakeup'
  BY <1>4, TryAcquireAnnounces DEF Retry
<1>5. ASSUME NEW r \in Requests, GiveUp(r) PROVE NoLostWakeup'
  <2>1. Moves(r, "done") /\ UNCHANGED <<idle, created>>
    BY <1>5 DEF GiveUp
  <2>2. At("waiting")' = At("waiting") \ {r} /\ At("notified")' = At("notified") \ {r}
    BY <2>1 DEF Moves, At, TypeOK
  <2>3. CASE stage[r] = "notified"
    <3>1. Cardinality(At("notified"))' = Cardinality(At("notified")) - 1 /\ missed' = missed + 1
      <4>1. r \in At("notified")
        BY <2>3 DEF At
      <4> QED BY <1>5, <2>2, <2>3, <4>1, Finite, SizeChanges DEF GiveUp
    <3> QED BY <1>1, <2>1, <2>2, <3>1 DEF NoLostWakeup
  <2>4. CASE stage[r] = "waiting"
    <3>1. At("notified")' = At("notified") /\ missed' = missed
      BY <1>5, <2>2, <2>4 DEF GiveUp, At
    <3> QED BY <2>1, <2>2, <3>1 DEF NoLostWakeup
  <2> QED BY <1>5, <2>3, <2>4 DEF GiveUp
<1>6. ASSUME NEW r \in Requests, CreateFails(r) PROVE NoLostWakeup'
  <2>1. /\ stage[r] = "creating" /\ MovesAndNotifies(r, "done") /\ created' = created - 1
        /\ UNCHANGED <<idle, missed>>
    BY <1>6 DEF CreateFails
  <2>2. At("waiting")' # {} =>
          At("waiting") # {} /\ Cardinality(At("notified"))' = Cardinality(At("notified")) + 1
    BY <2>1, Announced
  <2> QED BY <1>1, <2>1, <2>2 DEF NoLostWakeup
<1>7. ASSUME NEW r \in Requests, Resume(r) PROVE NoLostWakeup'
  <2>1. stage[r] = "answered" /\ Release(r) /\ UNCHANGED <<created, missed>>
    BY <1>7 DEF Resume
  <2>2. CASE Moves(r, "done") /\ UNCHANGED idle
    <3>1. At("waiting")' = At("waiting") /\ At("notified")' = At("notified")
      BY <2>1, <2>2 DEF Moves, At, TypeOK
    <3> QED BY <2>1, <2>2, <3>1, WaitersUndisturbed
  <2>3. CASE idle' = Append(idle, conn[r]) /\ MovesAndNotifies(r, "done")
    <3>1. Len(idle') = Len(idle) + 1
      BY <2>3 DEF TypeOK
    <3>2. At("waiting")' # {} =>
            At("waiting") # {} /\ Cardinality(At("notified"))' = Cardinality(At("notified")) + 1
      BY <2>1, <2>3, Announced
    <3> QED BY <1>1, <2>1, <3>1, <3>2 DEF NoLostWakeup
  <2> QED BY <2>1, <2>2, <2>3 DEF Release
<1>8. ASSUME NEW r \in Requests, CloseAll(r) PROVE NoLostWakeup'
  <2>1. At("waiting")' = {}
    BY <1>8 DEF CloseAll, At
  <2> QED BY <2>1 DEF NoLostWakeup
<1>9. CASE UNCHANGED vars
  BY <1>9 DEF vars, NoLostWakeup, At
<1> QED BY <1>2, <1>3, <1>4, <1>5, <1>6, <1>7, <1>8, <1>9 DEF Next, Create

\* While a request waits, every idle connection and every free place has a notification on its
\* way, but for those that came after a deadline.
THEOREM NoLostWakeupAlways == Safety => []NoLostWakeup
<1>1. Init => NoLostWakeup
  BY DEF Init, NoLostWakeup, At
<1>2. TypeOK /\ NoLostWakeup /\ [Next]_vars => NoLostWakeup'
  BY WakeupStep
<1> QED BY <1>1, <1>2, PoolTypes, PTL DEF Safety

-----------------------------------------------------------------------------
(* The pool lends its connections *)

Free == {idle[i] : i \in DOMAIN idle}

\* What the pool is to its borrowers, of which waiting and waking change nothing.
Asking == At("waiting") \cup At("notified")

Lent == <<idle, conn, closed, Asking, At("creating")>>

\* A request that is not asking and does not begin to leaves the others asking, notified or not.
LEMMA AskingKept ==
  ASSUME TypeOK, NEW r \in Requests, NEW to, stage[r] \notin {"waiting", "notified"},
         to \notin {"waiting", "notified"}, Moves(r, to) \/ MovesAndNotifies(r, to)
  PROVE  Asking' = Asking
<1>1. CASE Moves(r, to)
  BY <1>1 DEF Moves, Asking, At, TypeOK
<1>2. ASSUME NEW w \in At("waiting"), stage' = [stage EXCEPT ![r] = to, ![w] = "notified"]
      PROVE  Asking' = Asking
  BY <1>2 DEF Asking, At, TypeOK
<1> QED BY <1>1, <1>2 DEF MovesAndNotifies

\* A request that is served or gives up is no longer asking.
LEMMA AskingLeft ==
  ASSUME TypeOK, NEW r \in Requests, NEW to, to \notin {"waiting", "notified"}, Moves(r, to)
  PROVE  Asking' = Asking \ {r}
BY DEF Moves, Asking, At, TypeOK

\* ConnectionLending counts as the pool does: both extend FiniteSets.
LEMMA SameCount ==
  ASSUME NEW S
  PROVE  Lending!Cardinality(S) = Cardinality(S)
BY DEF Lending!Cardinality, Cardinality

\* The places of an invariant pool, as its borrowers count them.
LEMMA PlacesLeft ==
  ASSUME PoolInv, idle = <<>>, created < Max
  PROVE  Cardinality(Holding) + Cardinality(At("creating")) < Max
<1>1. /\ Cardinality(At("creating")) \in Nat /\ Cardinality(Holding) \in Nat /\ Len(idle) = 0
      /\ created \in Nat /\ Max \in Nat
  BY Finite, PoolAssumption DEF PoolInv, TypeOK
<1> QED BY <1>1 DEF PoolInv, Accounting

\* Trying to acquire is taking a free connection, having one made, or asking for one.
LEMMA TryAcquireLends ==
  ASSUME PoolInv, NEW r \in Requests, stage[r] \in {"found", "waiting", "notified"},
         ~closed \/ stage[r] # "found", TryAcquire(r), UNCHANGED closed
  PROVE  Lending!Lend(r) \/ Lending!BeginMaking(r) \/ Lending!Ask(r)
<1>1. conn[r] = NoConn /\ r \notin Holding /\ r \notin At("creating")
  BY DEF PoolInv, HoldsInQuery, Holding, At
<1>2. Lending!IsServed(r)
  BY <1>1 DEF Lending!IsServed, Lending!WithNothing, Lending!Having, Holding, At
<1>3. CASE idle # <<>> /\ conn' = [conn EXCEPT ![r] = Head(idle)] /\ idle' = Tail(idle)
           /\ Moves(r, "executing") /\ UNCHANGED created
  <2>1. idle \in Seq(Conns) /\ idle # <<>>
    BY <1>3 DEF PoolInv, TypeOK
  <2>2. Head(idle) = idle[1] /\ 1 \in DOMAIN idle
    BY <2>1
  <2>3. {idle'[i] : i \in DOMAIN idle'} = Free \ {Head(idle)}
    <3>1. \A i \in DOMAIN Tail(idle) : i + 1 \in DOMAIN idle /\ i + 1 # 1 /\ Tail(idle)[i] = idle[i + 1]
      BY <2>1
    <3>2. \A j \in DOMAIN idle : j # 1 => j - 1 \in DOMAIN Tail(idle) /\ Tail(idle)[j - 1] = idle[j]
      BY <2>1
    <3>3. \A j \in DOMAIN idle : idle[j] = Head(idle) => j = 1
      BY <2>2 DEF PoolInv, NoSharing
    <3>4. \A i \in DOMAIN Tail(idle) : Tail(idle)[i] \in Free /\ Tail(idle)[i] # Head(idle)
      BY <3>1, <3>3 DEF Free
    <3>5. \A j \in DOMAIN idle : idle[j] # Head(idle) => \E i \in DOMAIN Tail(idle) : Tail(idle)[i] = idle[j]
      BY <2>2, <3>2
    <3> QED BY <1>3, <3>4, <3>5 DEF Free
  <2>4. At("creating")' = At("creating")
    BY <1>1, <1>3 DEF At, Moves, PoolInv, TypeOK
  <2>5. Head(idle) \in Free
    BY <2>2 DEF Free
  <2>6. Asking' = Asking \ {r}
    BY <1>3, AskingLeft DEF PoolInv
  <2>7. Lending!Lend(r)
    BY <1>2, <1>3, <2>3, <2>4, <2>5, <2>6 DEF Lending!Lend, Free, Asking
  <2> QED BY <2>7
<1>4. CASE idle = <<>> /\ created < Max /\ created' = created + 1 /\ Moves(r, "creating")
           /\ UNCHANGED <<idle, conn>>
  <2>1. At("creating")' = At("creating") \cup {r}
    BY <1>4 DEF At, Moves, PoolInv, TypeOK
  <2>2. Lending!Cardinality(Lending!Having) + Lending!Cardinality(At("creating")) < Max
    BY <1>4, PlacesLeft, SameCount DEF Lending!Having, Holding
  <2>3. DOMAIN idle = {} /\ {idle[i] : i \in DOMAIN idle} = {} /\ UNCHANGED <<idle, conn, closed>>
    BY <1>4
  <2>4. Asking' = Asking \ {r}
    BY <1>4, AskingLeft DEF PoolInv
  <2>5. Lending!BeginMaking(r)
    BY <1>2, <2>1, <2>2, <2>3, <2>4 DEF Lending!BeginMaking, Asking
  <2> QED BY <2>5
<1>5. CASE Moves(r, "waiting") /\ UNCHANGED <<idle, created, conn>>
  <2>1. At("creating")' = At("creating")
    BY <1>1, <1>5 DEF At, Moves, PoolInv, TypeOK
  <2>2. Asking' = Asking \cup {r}
    BY <1>5 DEF Asking, At, Moves, PoolInv, TypeOK
  <2> QED BY <1>2, <1>5, <2>1, <2>2 DEF Lending!Ask, Asking
<1> QED BY <1>3, <1>4, <1>5 DEF TryAcquire

\* Making a connection comes to an end, with one that nobody has or with none.
LEMMA CreateLends ==
  ASSUME PoolInv, NEW r \in Requests, Create(r)
  PROVE  Lending!Made(r) \/ Lending!MakingFails(r)
<1>1. stage[r] = "creating" /\ r \in At("creating")
  BY DEF Create, CreateSucceeds, CreateFails, At
<1>2. CASE CreateSucceeds(r)
  <2>1. PICK c \in Conns : ~Live(c) /\ conn' = [conn EXCEPT ![r] = c]
    BY <1>2 DEF CreateSucceeds
  <2>2. At("creating")' = At("creating") \ {r} /\ UNCHANGED <<idle, closed>>
    BY <1>2 DEF CreateSucceeds, At, Moves, PoolInv, TypeOK
  <2>3. c \in Conns \ Free /\ \A o \in Lending!Having : conn[o] # c
    BY <2>1 DEF Live, IsIdle, Free, Lending!Having
  <2>4. Asking' = Asking
    BY <1>1, <1>2, AskingKept DEF CreateSucceeds, PoolInv
  <2>5. Lending!Made(r)
    BY <1>1, <2>1, <2>2, <2>3, <2>4 DEF Lending!Made, Free, Asking
  <2> QED BY <2>5
<1>3. CASE CreateFails(r)
  <2>1. MovesAndNotifies(r, "done") /\ UNCHANGED <<idle, closed, conn>>
    BY <1>3 DEF CreateFails
  <2>2. At("creating")' = At("creating") \ {r}
    BY <1>1, <2>1, Notified DEF PoolInv
  <2>3. Asking' = Asking
    BY <1>1, <2>1, AskingKept DEF PoolInv
  <2>4. Lending!MakingFails(r)
    BY <1>1, <2>1, <2>2, <2>3 DEF Lending!MakingFails, Asking
  <2> QED BY <2>4
<1> QED BY <1>2, <1>3 DEF Create

\* A released connection is free again in an open pool, and gone in a closed one.
LEMMA ReleaseGivesBack ==
  ASSUME PoolInv, NEW r \in Requests, Resume(r)
  PROVE  Lending!GiveBack(r)
<1>1. /\ stage[r] = "answered" /\ Release(r) /\ conn' = [conn EXCEPT ![r] = NoConn]
      /\ closed' = closed
  BY DEF Resume
<1>2. conn[r] # NoConn /\ conn[r] \in Conns /\ r \in Lending!Having
  BY <1>1 DEF PoolInv, TypeOK, HoldsInQuery, Lending!Having
<1>3. Asking' = Asking
  BY <1>1, AskingKept DEF PoolInv, Release
<1>4. CASE closed /\ Moves(r, "done") /\ UNCHANGED idle
  <2>1. At("creating")' = At("creating")
    BY <1>1, <1>4 DEF At, Moves, PoolInv, TypeOK
  <2> QED BY <1>1, <1>2, <1>3, <1>4, <2>1 DEF Lending!GiveBack, Asking
<1>5. CASE ~closed /\ idle' = Append(idle, conn[r]) /\ MovesAndNotifies(r, "done")
  <2>1. idle \in Seq(Conns)
    BY DEF PoolInv, TypeOK
  <2>2. {idle'[i] : i \in DOMAIN idle'} = Free \cup {conn[r]}
    <3> DEFINE q == Append(idle, conn[r])
    <3>1. \A i \in DOMAIN q : (i \in DOMAIN idle /\ q[i] = idle[i]) \/ q[i] = conn[r]
      BY <1>2, <2>1, Appended
    <3>2. \A i \in DOMAIN idle : i \in DOMAIN q /\ q[i] = idle[i]
      BY <1>2, <2>1
    <3>3. Len(idle) + 1 \in DOMAIN q /\ q[Len(idle) + 1] = conn[r]
      BY <1>2, <2>1
    <3>4. idle' = q
      BY <1>5
    <3> HIDE DEF q
    <3>5. \A x : x \in {q[i] : i \in DOMAIN q} <=> x \in Free \/ x = conn[r]
      BY <3>1, <3>2, <3>3 DEF Free
    <3> QED BY <3>4, <3>5
  <2>3. At("creating")' = At("creating")
    BY <1>1, <1>5, Notified DEF PoolInv, At
  <2> QED BY <1>1, <1>2, <1>3, <1>5, <2>2, <2>3 DEF Lending!GiveBack, Free, Asking
<1> QED BY <1>1, <1>4, <1>5 DEF Release

\* Every step of the pool is a step of lending, or nothing to the borrowers.
LEMMA LendingStep ==
  ASSUME PoolInv, [Next]_vars
  PROVE  [Lending!Next]_Lending!lendVars
<1>1. UNCHANGED Lent => UNCHANGED Lending!lendVars
  BY DEF Lent, Lending!lendVars, Asking
<1>2. ASSUME NEW r \in Requests, Lookup(r) \/ QueryEnds(r) \/ Erase(r) PROVE UNCHANGED Lent
  <2>1. At("creating")' = At("creating") /\ Asking' = Asking
    BY <1>2 DEF Lookup, QueryEnds, Erase, Moves, At, Asking, PoolInv, TypeOK
  <2> QED BY <1>2, <2>1 DEF Lookup, QueryEnds, Erase, Lent
<1>3. ASSUME NEW r \in Requests, Acquire(r) \/ Retry(r)
      PROVE  Lending!Lend(r) \/ Lending!BeginMaking(r) \/ Lending!Ask(r) \/ UNCHANGED Lent
  <2>1. UNCHANGED closed /\ stage[r] \in {"found", "waiting", "notified"}
    BY <1>3 DEF Acquire, Retry
  <2>2. CASE TryAcquire(r) /\ (~closed \/ stage[r] # "found")
    BY <2>1, <2>2, TryAcquireLends
  <2>3. CASE stage[r] = "found" /\ Moves(r, "done") /\ UNCHANGED <<idle, created, conn>>
    <3>1. At("creating")' = At("creating") /\ Asking' = Asking
      BY <2>3 DEF Moves, At, Asking, PoolInv, TypeOK
    <3> QED BY <2>1, <2>3, <3>1 DEF Lent
  <2> QED BY <1>3, <2>2, <2>3 DEF Acquire, Retry
<1>4. ASSUME NEW r \in Requests, GiveUp(r) PROVE Lending!GiveUp(r)
  <2>1. /\ r \in Asking /\ Moves(r, "done") /\ r \notin At("creating")
        /\ UNCHANGED <<idle, conn, closed>>
    BY <1>4 DEF GiveUp, Asking, At
  <2>2. Asking' = Asking \ {r}
    BY <2>1, AskingLeft DEF PoolInv
  <2>3. At("creating")' = At("creating")
    BY <2>1 DEF Moves, At, PoolInv, TypeOK
  <2> QED BY <2>1, <2>2, <2>3 DEF Lending!GiveUp, Asking
<1>5. ASSUME NEW r \in Requests, CloseAll(r) PROVE Lending!Close
  <2>1. At("creating")' = At("creating") /\ Asking' = Asking
    BY <1>5 DEF CloseAll, At, Asking, PoolInv, TypeOK
  <2> QED BY <1>5, <2>1 DEF CloseAll, Lending!Close, Asking
<1>6. CASE UNCHANGED vars
  <2>1. At("creating")' = At("creating") /\ Asking' = Asking /\ UNCHANGED <<idle, conn, closed>>
    BY <1>6 DEF vars, At, Asking
  <2>2. UNCHANGED Lent
    BY <2>1 DEF Lent
  <2> QED BY <1>1, <2>2
<1> QED BY <1>1, <1>2, <1>3, <1>4, <1>5, <1>6, CreateLends, ReleaseGivesBack DEF Next, Lending!Next

\* The connections Initialize made are the first that are free.
LEMMA LendingStart ==
  ASSUME Init
  PROVE  Lending!Init
<1> USE PoolAssumption
<1>1. Free = {FirstIdle[i] : i \in 1..Len(FirstIdle)} /\ Free \subseteq Conns
  BY DEF Init, Free
<1>2. Len(FirstIdle) \in Nat /\ Len(FirstIdle) <= Max
  OBVIOUS
<1>3. Cardinality(Free) <= Max
  <2>1. ExistsSurjection(1..Len(FirstIdle), Free)
    <3>1. [i \in 1..Len(FirstIdle) |-> FirstIdle[i]] \in Surjection(1..Len(FirstIdle), Free)
      BY <1>1 DEF Surjection
    <3> QED BY <3>1 DEF ExistsSurjection
  <2>2. IsFiniteSet(Free) /\ Cardinality(Free) <= Len(FirstIdle)
    BY <1>2, <2>1, FS_SurjCardinalityBound, FS_NatSurjection
  <2>3. Cardinality(Free) \in Nat
    BY <2>2, FS_CardinalityType
  <2> QED BY <1>2, <2>2, <2>3
<1>4. At("creating") = {} /\ Asking = {} /\ conn = [r \in Requests |-> NoConn] /\ ~closed
  BY DEF Init, At, Asking
<1>5. Lending!Cardinality(Free) <= Max
  BY <1>3, SameCount
<1> QED BY <1>1, <1>4, <1>5 DEF Lending!Init, Free, Asking

\* However requests wait, wake, time out and close the pool, it lends its connections as ConnectionLending
\* says: one borrower for each, no more than _max, none kept after CloseAll and none made for a request
\* that came after it.
THEOREM LendsConnectionsAlways == Safety => LendsConnections
<1>1. Init => Lending!Init
  BY LendingStart
<1>2. PoolInv /\ [Next]_vars => [Lending!Next]_Lending!lendVars
  BY LendingStep
<1> QED BY <1>1, <1>2, PoolInvariance, PTL DEF Safety, Lending!Safety, LendsConnections
=============================================================================
