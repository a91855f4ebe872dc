--------------------------- MODULE SafeQueueProofs ---------------------------
(***************************************************************************)
(* Proofs about SafeQueue, for any number of producers and consumers and   *)
(* any bound.                                                              *)
(***************************************************************************)
EXTENDS SafeQueue, FiniteSetTheorems, TLAPS

-----------------------------------------------------------------------------
(* What the steps do to the queue and to the threads *)

\* A finite set that gains or loses an element.
LEMMA SizeOf ==
  ASSUME NEW S, IsFiniteSet(S), NEW x
  PROVE  /\ Cardinality(S) \in Nat
         /\ x \notin S => Cardinality(S \cup {x}) = Cardinality(S) + 1
         /\ x \in S => Cardinality(S \ {x}) = Cardinality(S) - 1
BY FS_CardinalityType, FS_AddElement, FS_RemoveElement

\* The threads of one kind that are somewhere are finitely many.
LEMMA CountIn ==
  /\ \A stage : IsFiniteSet(In(Producers, stage)) /\ Cardinality(In(Producers, stage)) \in Nat
  /\ \A stage : IsFiniteSet(In(Consumers, stage)) /\ Cardinality(In(Consumers, stage)) \in Nat
<1>1. \A stage : In(Producers, stage) \subseteq Producers /\ In(Consumers, stage) \subseteq Consumers
  BY DEF In
<1> QED BY <1>1, QueueAssumption, FS_Subset, FS_CardinalityType

\* One event more.
LEMMA AppendFacts ==
  ASSUME NEW q \in Seq(Events), NEW e \in Events
  PROVE  /\ Append(q, e) \in Seq(Events) /\ Append(q, e) # <<>>
         /\ Len(Append(q, e)) = Len(q) + 1 /\ Len(q) \in Nat
OBVIOUS

\* One event less.
LEMMA TailFacts ==
  ASSUME NEW q \in Seq(Events), q # <<>>
  PROVE  /\ Head(q) \in Events /\ Tail(q) \in Seq(Events)
         /\ Len(Tail(q)) = Len(q) - 1 /\ Len(q) \in Nat \ {0}
OBVIOUS

\* A thread ends its critical section, and wakes one of the others that wait.
LEMMA LeaveEffect ==
  ASSUME TypeOK, NEW t \in Threads, at[t] = "locking", NEW W \in {Producers, Consumers},
         LeaveAndNotify(t, "idle", W)
  PROVE  /\ at' \in [Threads -> Stages] /\ at'[t] = "idle"
         /\ \A u \in Threads : u # t =>
              at'[u] = at[u] \/ (u \in W /\ at[u] = "waiting" /\ at'[u] = "locking")
         /\ In(W, "waiting")' # {} =>
              \E w \in In(W, "waiting") : at' = [at EXCEPT ![t] = "idle", ![w] = "locking"]
BY DEF LeaveAndNotify, In, TypeOK, Stages, Threads

-----------------------------------------------------------------------------
(* Types, order, and the end *)

\* Every step keeps the types.
LEMMA TypeStep ==
  ASSUME TypeOK, [Next]_vars
  PROVE  TypeOK'
<1> USE QueueAssumption
<1>1. ASSUME NEW p \in Producers, NEW e \in Events, PushCall(p, e) PROVE TypeOK'
  BY <1>1 DEF PushCall, Move, TypeOK, Stages, Threads
<1>2. ASSUME NEW p \in Producers, PushEnds(p) PROVE TypeOK'
  <2>1. CASE MayQueue /\ queue' = Append(queue, arg[p]) /\ accepted' = Append(accepted, arg[p])
             /\ LeaveAndNotify(p, "idle", Consumers)
    <3>1. at[p] = "locking" /\ p \in Threads /\ arg[p] \in Events
      BY <1>2 DEF PushEnds, TypeOK, Threads
    <3>2. /\ at' \in [Threads -> Stages] /\ at'[p] = "idle"
          /\ \A u \in Producers : u # p => at'[u] = at[u]
      BY <2>1, <3>1, LeaveEffect DEF Threads
    <3>3. queue' \in Seq(Events) /\ Len(queue') <= MaxSize /\ accepted' \in Seq(Events)
      BY <2>1, <3>1, AppendFacts DEF MayQueue, TypeOK
    <3> QED BY <1>2, <3>2, <3>3 DEF PushEnds, TypeOK
  <2>2. CASE Move(p, "locking", "idle") /\ UNCHANGED <<queue, accepted>>
    BY <1>2, <2>2 DEF PushEnds, Move, TypeOK, Stages, Threads
  <2> QED BY <1>2, <2>1, <2>2 DEF PushEnds
<1>3. ASSUME NEW c \in Consumers, PopTakes(c) PROVE TypeOK'
  <2>1. at[c] = "locking" /\ c \in Threads /\ c \notin Producers
    BY <1>3 DEF PopTakes, Threads
  <2>2. /\ at' \in [Threads -> Stages]
        /\ \A u \in Producers : at'[u] = at[u] \/ at[u] # "idle"
    BY <1>3, <2>1, LeaveEffect DEF PopTakes, Threads
  <2>3. /\ queue' \in Seq(Events) /\ Len(queue') <= MaxSize /\ popped' \in Seq(Events)
    <3>1. /\ queue # <<>> /\ queue \in Seq(Events) /\ Len(queue) <= MaxSize
          /\ popped \in Seq(Events)
      BY <1>3 DEF PopTakes, TypeOK
    <3>2. /\ Head(queue) \in Events /\ Tail(queue) \in Seq(Events)
          /\ Len(Tail(queue)) = Len(queue) - 1 /\ Len(queue) \in Nat
      BY <3>1, TailFacts
    <3> QED BY <1>3, <3>1, <3>2, AppendFacts DEF PopTakes
  <2> QED BY <1>3, <2>2, <2>3 DEF PopTakes, TypeOK
<1>4. ASSUME NEW c \in Consumers, PopCall(c) \/ PopEnds(c) PROVE TypeOK'
  BY <1>4 DEF PopCall, PopEnds, Move, TypeOK, Stages, Threads
<1>5. ASSUME NEW t \in Threads, Park(t) \/ Spurious(t) PROVE TypeOK'
  BY <1>5 DEF Park, Spurious, Move, TypeOK, Stages, Threads
<1>6. CASE Stop
  BY <1>6 DEF Stop, In, TypeOK, Stages, Threads
<1>7. CASE UNCHANGED vars
  BY <1>7 DEF vars, TypeOK
<1> QED BY <1>1, <1>2, <1>3, <1>4, <1>5, <1>6, <1>7 DEF Next, PushStep, PopStep, Threads

\* Every variable keeps its type, and the queue its bound.
THEOREM QueueTypes == Safety => []TypeOK
<1>1. Init => TypeOK
  BY QueueAssumption DEF Init, TypeOK, Stages, Threads
<1>2. TypeOK /\ [Next]_vars => TypeOK'
  BY TypeStep
<1> QED BY <1>1, <1>2, PTL DEF Safety

\* What the queue and its two histories can do in one step.
Accepts == \E e \in Events : /\ MayQueue /\ queue' = Append(queue, e)
                             /\ accepted' = Append(accepted, e) /\ UNCHANGED <<stop, popped>>
Takes == /\ queue # <<>> /\ queue' = Tail(queue) /\ popped' = Append(popped, Head(queue))
         /\ UNCHANGED <<stop, accepted>>
Quiet == UNCHANGED <<queue, accepted, popped>>

\* There is nothing else.
LEMMA QueueStep ==
  ASSUME TypeOK, [Next]_vars
  PROVE  Accepts \/ Takes \/ Quiet
<1>1. ASSUME NEW p \in Producers, PushEnds(p) PROVE Accepts \/ Quiet
  <2>1. arg[p] \in Events
    BY <1>1 DEF PushEnds, TypeOK
  <2> QED BY <1>1, <2>1 DEF PushEnds, Accepts, Quiet
<1>2. ASSUME NEW c \in Consumers, PopTakes(c) PROVE Takes
  BY <1>2 DEF PopTakes, Takes
<1> QED BY <1>1, <1>2 DEF Next, PushStep, PopStep, PushCall, PopCall, PopEnds, Park, Spurious, Stop,
                          Quiet, vars

\* Events leave in the order they were accepted in, none is lost or repeated.
THEOREM FifoAlways == Safety => []Fifo
<1>1. Init => Fifo
  BY DEF Init, Fifo
<1>2. TypeOK /\ Fifo /\ [Next]_vars => Fifo'
  <2> SUFFICES ASSUME TypeOK, Fifo, [Next]_vars PROVE Fifo'
    OBVIOUS
  <2>1. queue \in Seq(Events) /\ popped \in Seq(Events)
    BY DEF TypeOK
  <2>2. CASE Accepts
    <3>1. PICK e \in Events : queue' = Append(queue, e) /\ accepted' = Append(accepted, e)
                              /\ popped' = popped
      BY <2>2 DEF Accepts
    <3>2. Append(popped \o queue, e) = popped \o Append(queue, e)
      BY <2>1
    <3> QED BY <3>1, <3>2 DEF Fifo
  <2>3. CASE Takes
    <3>1. Append(popped, Head(queue)) \o Tail(queue) = popped \o queue
      BY <2>1, <2>3 DEF Takes
    <3> QED BY <2>3, <3>1 DEF Takes, Fifo
  <2>4. CASE Quiet
    BY <2>4 DEF Quiet, Fifo
  <2> QED BY <2>2, <2>3, <2>4, QueueStep
<1> QED BY <1>1, <1>2, QueueTypes, PTL DEF Safety

\* A consumer that has been told that nothing more will come has left nothing behind.
THEOREM NothingLeftBehindAlways == Safety => []NothingLeftBehind
<1>1. Init => NothingLeftBehind
  BY DEF Init, NothingLeftBehind, In, Threads
<1>2. TypeOK /\ NothingLeftBehind /\ [Next]_vars => NothingLeftBehind'
  <2> SUFFICES ASSUME TypeOK, NothingLeftBehind, [Next]_vars PROVE NothingLeftBehind'
    OBVIOUS
  <2>1. IsRunning' => IsRunning
    BY DEF Next, PushStep, PushCall, PushEnds, PopStep, PopCall, PopTakes, PopEnds, Park, Spurious,
           Stop, IsRunning, vars, TypeOK
  <2>2. ~IsRunning /\ queue = <<>> => queue' = <<>>
    <3>1. CASE Accepts
      BY <3>1 DEF Accepts, MayQueue
    <3>2. CASE Takes \/ Quiet
      BY <3>2 DEF Takes, Quiet
    <3> QED BY <3>1, <3>2, QueueStep
  <2>3. ASSUME NEW c \in Consumers, at'[c] = "ended", at[c] # "ended" PROVE Drained
    <3>1. c \in Threads
      BY DEF Threads
    <3>2. ASSUME NEW t \in Threads, NEW W \in {Producers, Consumers}, at[t] = "locking",
                 LeaveAndNotify(t, "idle", W)
          PROVE  FALSE
      BY <2>3, <3>1, <3>2, LeaveEffect
    <3>3. ASSUME NEW d \in Consumers, PopEnds(d) PROVE Drained
      BY <3>3 DEF PopEnds
    <3> QED BY <2>3, <3>1, <3>2, <3>3
            DEF Next, PushStep, PushCall, PushEnds, PopStep, PopCall, PopTakes, Park, Spurious, Stop,
                Move, In, vars, TypeOK, Threads
  <2>4. ASSUME In(Consumers, "ended")' # {} PROVE queue = <<>> /\ ~IsRunning
    <3>1. PICK c \in Consumers : at'[c] = "ended"
      BY <2>4 DEF In
    <3>2. CASE at[c] = "ended"
      BY <3>2 DEF NothingLeftBehind, In
    <3> QED BY <2>3, <3>1, <3>2 DEF Drained
  <2> QED BY <2>1, <2>2, <2>4 DEF NothingLeftBehind
<1> QED BY <1>1, <1>2, QueueTypes, PTL DEF Safety
-----------------------------------------------------------------------------
(* Wakeups *)

\* A thread that has tested its condition in vain holds the mutex, so that the test still stands
\* when it waits.
TestStands == \A t \in Threads : at[t] = "parking" /\ IsRunning => MustWait(t)

\* A wait set, its woken threads, and what there is for them.
Served(threads, n) == In(threads, "waiting") # {} => n <= Cardinality(In(threads, "locking"))

\* NoLostWakeup, said of the two kinds of threads.
LEMMA NoLostWakeupIs ==
  NoLostWakeup <=> (IsRunning => Served(Consumers, Len(queue)) /\ Served(Producers, MaxSize - Len(queue)))
BY DEF NoLostWakeup, Served

\* The tests keep standing.
LEMMA TestStep ==
  ASSUME TypeOK, TestStands, [Next]_vars
  PROVE  TestStands'
<1> USE QueueAssumption
<1>1. ASSUME NEW t \in Threads, at'[t] = "parking", IsRunning' PROVE MustWait(t)'
  <2>1. IsRunning
    BY <1>1 DEF Next, PushStep, PushCall, PushEnds, PopStep, PopCall, PopTakes, PopEnds, Park, Spurious,
                Stop, IsRunning, vars, TypeOK
  <2>2. CASE at[t] = "parking"
    <3>1. MustWait(t) /\ ~MutexFree
      BY <2>1, <2>2 DEF TestStands, MutexFree, In
    <3>2. UNCHANGED queue
      BY <3>1 DEF Next, PushStep, PushCall, PushEnds, PopStep, PopCall, PopTakes, PopEnds, Park, Spurious,
                  Stop, vars
    <3> QED BY <1>1, <3>1, <3>2 DEF MustWait
  <2>3. CASE at[t] # "parking"
    <3>1. ASSUME NEW u \in Threads, NEW W \in {Producers, Consumers}, at[u] = "locking",
                 LeaveAndNotify(u, "idle", W)
          PROVE  FALSE
      BY <1>1, <2>3, <3>1, LeaveEffect
    <3>2. Park(t) /\ MustWait(t)
      BY <1>1, <2>3, <3>1
         DEF Next, PushStep, PushCall, PushEnds, PopStep, PopCall, PopTakes, PopEnds, Park, Spurious, Stop,
             Move, In, vars, TypeOK, Threads
    <3> QED BY <1>1, <2>1, <3>2 DEF Park, MustWait
  <2> QED BY <2>2, <2>3
<1> QED BY <1>1 DEF TestStands

\* The woken threads of the next state are finitely many, too.
LEMMA CountNext ==
  ASSUME NEW T \in {Producers, Consumers}
  PROVE  IsFiniteSet(In(T, "locking")') /\ Cardinality(In(T, "locking")') \in Nat
<1>1. {t \in T : at'[t] = "locking"} \subseteq T
  OBVIOUS
<1>2. IsFiniteSet({t \in T : at'[t] = "locking"})
  BY <1>1, QueueAssumption, FS_Subset
<1> QED BY <1>2, FS_CardinalityType DEF In

\* A step after which nobody waits who did not, and whoever was woken still is.
LEMMA NobodyWaits ==
  ASSUME NEW T \in {Producers, Consumers}, NEW n \in Int, Served(T, n),
         In(T, "waiting")' \subseteq In(T, "waiting"),
         In(T, "locking") \subseteq In(T, "locking")'
  PROVE  In(T, "waiting")' # {} => n <= Cardinality(In(T, "locking")')
<1>1. Cardinality(In(T, "locking")) <= Cardinality(In(T, "locking")')
  BY CountNext, FS_Subset
<1> QED BY <1>1, CountIn, CountNext DEF Served

\* A critical section of the other kind of thread wakes one for the one more that there is.
LEMMA OneIsWoken ==
  ASSUME TypeOK, NEW T \in {Producers, Consumers}, NEW n \in Int, Served(T, n),
         NEW t \in Threads, t \notin T, at[t] = "locking", LeaveAndNotify(t, "idle", T)
  PROVE  In(T, "waiting")' # {} => n + 1 <= Cardinality(In(T, "locking")')
<1> SUFFICES ASSUME In(T, "waiting")' # {}
             PROVE  n + 1 <= Cardinality(In(T, "locking")')
  OBVIOUS
<1>1. PICK w \in In(T, "waiting") : at' = [at EXCEPT ![t] = "idle", ![w] = "locking"]
  BY LeaveEffect
<1>2. In(T, "locking")' = In(T, "locking") \cup {w} /\ w \notin In(T, "locking")
  BY <1>1 DEF In, TypeOK, Threads
<1>3. Cardinality(In(T, "locking")') = Cardinality(In(T, "locking")) + 1
  <2>1. IsFiniteSet(In(T, "locking"))
    BY CountIn
  <2> QED BY <1>2, <2>1, SizeOf
<1>4. n <= Cardinality(In(T, "locking"))
  BY <1>1 DEF Served
<1> QED BY <1>3, <1>4, CountIn

\* A critical section of a thread's own kind uses up what it was woken for.
LEMMA OneIsServed ==
  ASSUME TypeOK, NEW T \in {Producers, Consumers}, NEW n \in Int, Served(T, n),
         NEW t \in T, at[t] = "locking", NEW W \in {Producers, Consumers}, W \cap T = {},
         LeaveAndNotify(t, "idle", W)
  PROVE  In(T, "waiting")' # {} => n - 1 <= Cardinality(In(T, "locking")')
<1>1. \A u \in T : u # t => at'[u] = at[u]
  BY LeaveEffect DEF Threads
<1>2. at'[t] = "idle"
  BY LeaveEffect DEF Threads
<1>3. In(T, "waiting")' = In(T, "waiting") /\ In(T, "locking")' = In(T, "locking") \ {t}
  BY <1>1, <1>2 DEF In
<1>4. Cardinality(In(T, "locking")') = Cardinality(In(T, "locking")) - 1
  <2>1. IsFiniteSet(In(T, "locking")) /\ t \in In(T, "locking")
    BY CountIn DEF In
  <2> QED BY <1>3, <2>1, SizeOf
<1> QED BY <1>3, <1>4, CountIn DEF Served

\* Every step of the queue wakes whom it serves.
LEMMA WakeupStep ==
  ASSUME TypeOK, TestStands, NoLostWakeup, [Next]_vars
  PROVE  NoLostWakeup'
<1> USE QueueAssumption
<1> SUFFICES ASSUME IsRunning'
             PROVE  /\ In(Consumers, "waiting")' # {} => Len(queue') <= Cardinality(In(Consumers, "locking")')
                    /\ In(Producers, "waiting")' # {} =>
                         MaxSize - Len(queue') <= Cardinality(In(Producers, "locking")')
  BY DEF NoLostWakeup
<1>1. IsRunning
  BY DEF Next, PushStep, PushCall, PushEnds, PopStep, PopCall, PopTakes, PopEnds, Park, Spurious, Stop,
         IsRunning, vars, TypeOK
<1>2. Served(Consumers, Len(queue)) /\ Served(Producers, MaxSize - Len(queue))
  BY <1>1, NoLostWakeupIs
<1>3. Len(queue) \in Nat /\ MaxSize - Len(queue) \in Int /\ queue \in Seq(Events)
  BY DEF TypeOK
<1>4. ASSUME UNCHANGED queue,
             \A T \in {Producers, Consumers} : In(T, "waiting")' \subseteq In(T, "waiting")
                                             /\ In(T, "locking") \subseteq In(T, "locking")'
      PROVE  /\ In(Consumers, "waiting")' # {} => Len(queue') <= Cardinality(In(Consumers, "locking")')
             /\ In(Producers, "waiting")' # {} =>
                  MaxSize - Len(queue') <= Cardinality(In(Producers, "locking")')
  BY <1>2, <1>3, <1>4, NobodyWaits
<1>5. CASE \/ \E p \in Producers, e \in Events : PushCall(p, e)
           \/ \E c \in Consumers : PopCall(c)
           \/ \E t \in Threads : Spurious(t)
           \/ UNCHANGED vars
  <2>1. UNCHANGED queue
    BY <1>5 DEF PushCall, PopCall, Spurious, vars
  <2>2. \A T \in {Producers, Consumers} : In(T, "waiting")' \subseteq In(T, "waiting")
                                        /\ In(T, "locking") \subseteq In(T, "locking")'
    BY <1>5 DEF PushCall, PopCall, Spurious, Move, vars, In, TypeOK, Threads
  <2> QED BY <1>4, <2>1, <2>2
<1>6. ASSUME NEW p \in Producers, PushEnds(p)
      PROVE  /\ In(Consumers, "waiting")' # {} => Len(queue') <= Cardinality(In(Consumers, "locking")')
             /\ In(Producers, "waiting")' # {} =>
                  MaxSize - Len(queue') <= Cardinality(In(Producers, "locking")')
  <2>1. /\ at[p] = "locking" /\ queue' = Append(queue, arg[p]) /\ LeaveAndNotify(p, "idle", Consumers)
        /\ p \in Threads /\ p \notin Consumers /\ arg[p] \in Events
    BY <1>1, <1>6 DEF PushEnds, TypeOK, Threads
  <2>2. Len(queue') = Len(queue) + 1
    BY <1>3, <2>1, AppendFacts
  <2>3. In(Consumers, "waiting")' # {} => Len(queue) + 1 <= Cardinality(In(Consumers, "locking")')
    BY <1>2, <1>3, <2>1, OneIsWoken
  <2>4. In(Producers, "waiting")' # {} =>
          (MaxSize - Len(queue)) - 1 <= Cardinality(In(Producers, "locking")')
    BY <1>2, <1>3, <2>1, OneIsServed
  <2> QED BY <1>3, <2>2, <2>3, <2>4
<1>7. ASSUME NEW c \in Consumers, PopTakes(c)
      PROVE  /\ In(Consumers, "waiting")' # {} => Len(queue') <= Cardinality(In(Consumers, "locking")')
             /\ In(Producers, "waiting")' # {} =>
                  MaxSize - Len(queue') <= Cardinality(In(Producers, "locking")')
  <2>1. /\ at[c] = "locking" /\ queue # <<>> /\ queue' = Tail(queue) /\ LeaveAndNotify(c, "idle", Producers)
        /\ c \in Threads /\ c \notin Producers
    BY <1>7 DEF PopTakes, Threads
  <2>2. Len(queue') = Len(queue) - 1
    BY <1>3, <2>1, TailFacts
  <2>3. In(Consumers, "waiting")' # {} => Len(queue) - 1 <= Cardinality(In(Consumers, "locking")')
    BY <1>2, <1>3, <2>1, OneIsServed
  <2>4. In(Producers, "waiting")' # {} =>
          (MaxSize - Len(queue)) + 1 <= Cardinality(In(Producers, "locking")')
    BY <1>2, <1>3, <2>1, OneIsWoken
  <2> QED BY <1>3, <2>2, <2>3, <2>4
<1>8. ASSUME NEW t \in Threads, Park(t)
      PROVE  /\ In(Consumers, "waiting")' # {} => Len(queue') <= Cardinality(In(Consumers, "locking")')
             /\ In(Producers, "waiting")' # {} =>
                  MaxSize - Len(queue') <= Cardinality(In(Producers, "locking")')
  <2>1. MustWait(t) /\ UNCHANGED queue
    BY <1>1, <1>8 DEF Park, Move, TestStands
  <2>2. \A u \in Threads : u # t => at'[u] = at[u]
    BY <1>8 DEF Park, Move, TypeOK
  <2>3. CASE t \in Consumers
    <3>1. Len(queue') = 0
      BY <2>1, <2>3 DEF MustWait
    <3>2. In(Producers, "waiting")' \subseteq In(Producers, "waiting")
          /\ In(Producers, "locking") \subseteq In(Producers, "locking")'
      BY <2>2, <2>3 DEF In, Threads
    <3>3. In(Producers, "waiting")' # {} =>
            MaxSize - Len(queue) <= Cardinality(In(Producers, "locking")')
      BY <1>2, <1>3, <3>2, NobodyWaits
    <3> QED BY <2>1, <3>1, <3>3, CountNext
  <2>4. CASE t \in Producers
    <3>1. MaxSize - Len(queue') <= 0
      BY <1>3, <2>1, <2>4 DEF MustWait
    <3>2. In(Consumers, "waiting")' \subseteq In(Consumers, "waiting")
          /\ In(Consumers, "locking") \subseteq In(Consumers, "locking")'
      BY <2>2, <2>4 DEF In, Threads
    <3>3. In(Consumers, "waiting")' # {} => Len(queue) <= Cardinality(In(Consumers, "locking")')
      BY <1>2, <1>3, <3>2, NobodyWaits
    <3>4. MaxSize - Len(queue') \in Int /\ Cardinality(In(Producers, "locking")') \in Nat
      BY <1>3, <2>1, CountNext
    <3> QED BY <2>1, <3>1, <3>3, <3>4
  <2> QED BY <2>3, <2>4 DEF Threads
<1>9. ~Stop /\ \A c \in Consumers : ~PopEnds(c)
  BY <1>1 DEF Stop, PopEnds, Drained, IsRunning
<1> QED BY <1>5, <1>6, <1>7, <1>8, <1>9 DEF Next, PushStep, PopStep, Threads

\* While the queue runs, every queued event and every free place that somebody waits for has a woken
\* thread on its way.
THEOREM NoLostWakeupAlways == Safety => []NoLostWakeup
<1>1. Init => TestStands /\ NoLostWakeup
  BY DEF Init, TestStands, NoLostWakeup, In, Threads
<1>2. TypeOK /\ TestStands /\ NoLostWakeup /\ [Next]_vars => TestStands' /\ NoLostWakeup'
  BY TestStep, WakeupStep
<1> QED BY <1>1, <1>2, QueueTypes, PTL DEF Safety

-----------------------------------------------------------------------------
(* Refinement *)

\* The queue is a bounded channel.
THEOREM ImplementsChannel == Safety => ChannelSafety
<1> USE DEF Channel!vars
<1>1. Init => Channel!Init
  BY DEF Init, Channel!Init, IsRunning
<1>2. TypeOK /\ [Next]_vars => [Channel!Next]_(Channel!vars)
  <2> SUFFICES ASSUME TypeOK, [Next]_vars PROVE [Channel!Next]_(Channel!vars)
    OBVIOUS
  <2>1. CASE Accepts
    <3>1. PICK e \in Events : /\ MayQueue /\ queue' = Append(queue, e)
                              /\ UNCHANGED <<stop, popped>>
      BY <2>1 DEF Accepts
    <3>2. Channel!Accept(e)
      BY <3>1 DEF MayQueue, IsRunning, Channel!Accept
    <3> QED BY <3>2 DEF Channel!Next
  <2>2. CASE Takes
    <3>1. Channel!Deliver
      BY <2>2 DEF Takes, IsRunning, Channel!Deliver
    <3> QED BY <3>1 DEF Channel!Next
  <2>3. CASE Quiet
    <3>1. IsRunning' => IsRunning
      BY DEF Next, PushStep, PushCall, PushEnds, PopStep, PopCall, PopTakes, PopEnds, Park, Spurious,
             Stop, IsRunning, vars, TypeOK
    <3> QED BY <2>3, <3>1 DEF Quiet, Channel!Next, Channel!Stop
  <2> QED BY <2>1, <2>2, <2>3, QueueStep
<1> QED BY <1>1, <1>2, QueueTypes, PTL DEF Safety, ChannelSafety, Channel!Safety
=============================================================================
