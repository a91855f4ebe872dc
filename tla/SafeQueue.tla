------------------------------ MODULE SafeQueue ------------------------------
(***************************************************************************)
(* SafeQueue<T> (src/infra/log/SafeQueue.h): a bounded blocking queue with *)
(* one mutex and two condition variables.  Push and Pop test and wait      *)
(* under the mutex.  Stop sets _isRunning and notifies WITHOUT the mutex,  *)
(* so it may come between a thread's test and its wait.  (A Stop between a *)
(* producer's test and its push is ordered after the push, which nobody    *)
(* sees before the mutex is released.)                                     *)
(***************************************************************************)
EXTENDS Naturals, Sequences, FiniteSets

CONSTANTS Producers, Consumers,  \* threads that call Push, threads that call Pop
          Events, NoEvent,       \* what is queued; each event is offered once
          MaxSize                \* _maxSize

ASSUME QueueAssumption ==
  /\ IsFiniteSet(Producers) /\ IsFiniteSet(Consumers)
  /\ Producers \cap Consumers = {}
  /\ NoEvent \notin Events
  /\ MaxSize \in Nat \ {0}

VARIABLES queue,     \* _queue
          stop,      \* Stop: "no", "flagged" once _isRunning is FALSE, "done" after the notifications
          at,        \* where each thread is, see Stages
          arg,       \* the argument of each producer's Push
          offered,   \* the events that have been arguments of Push (history, and bound)
          accepted,  \* what was queued, in order (history)
          popped     \* what Pop returned, in order (history)

vars == <<queue, stop, at, arg, offered, accepted, popped>>

Threads == Producers \cup Consumers

\* "locking" is on the way to the mutex, the first time or after a wakeup; "parking" has tested its
\* condition in vain and holds the mutex up to the moment it waits; "ended" is a consumer whose
\* Pop returned false.
Stages == {"idle", "locking", "parking", "waiting", "ended"}

In(threads, stage) == {t \in threads : at[t] = stage}
Move(t, from, to) == at[t] = from /\ at' = [at EXCEPT ![t] = to]
IsRunning == stop = "no"
MutexFree == In(Threads, "parking") = {}

Init ==
  /\ queue = <<>> /\ stop = "no"
  /\ at = [t \in Threads |-> "idle"]
  /\ arg = [p \in Producers |-> NoEvent]
  /\ offered = {} /\ accepted = <<>> /\ popped = <<>>

\* Sensitivity: nobody is told.
LeaveAndNotify_Nobody(t, stage, waiters) == at' = [at EXCEPT ![t] = stage]

\* A critical section ends with t going on to stage, and one of the waiting threads woken, if any.
LeaveAndNotify(t, stage, waiters) ==
  IF In(waiters, "waiting") = {} THEN at' = [at EXCEPT ![t] = stage]
  ELSE \E w \in In(waiters, "waiting") : at' = [at EXCEPT ![t] = stage, ![w] = "locking"]

-----------------------------------------------------------------------------
(* Push *)

PushCall(p, e) ==
  /\ e \notin offered
  /\ Move(p, "idle", "locking")
  /\ arg' = [arg EXCEPT ![p] = e]
  /\ offered' = offered \cup {e}
  /\ UNCHANGED <<queue, stop, accepted, popped>>

\* Sensitivity: _isRunning is not tested again once the wait is over.
MayQueue_StopIgnored == Len(queue) < MaxSize \/ ~IsRunning

\* Sensitivity: the queue grows to one event too many.
MayQueue_OneMore == IsRunning /\ Len(queue) <= MaxSize

MayQueue == IsRunning /\ Len(queue) < MaxSize

\* Under the mutex: the event is queued and a consumer notified, or the queue was stopped.
PushEnds(p) ==
  /\ at[p] = "locking" /\ MutexFree
  /\ \/ /\ MayQueue
        /\ queue' = Append(queue, arg[p])
        /\ accepted' = Append(accepted, arg[p])
        /\ LeaveAndNotify(p, "idle", Consumers)
     \/ /\ ~IsRunning
        /\ Move(p, "locking", "idle")
        /\ UNCHANGED <<queue, accepted>>
  /\ arg' = [arg EXCEPT ![p] = NoEvent]
  /\ UNCHANGED <<stop, offered, popped>>

-----------------------------------------------------------------------------
(* Pop *)

PopCall(c) ==
  /\ Move(c, "idle", "locking")
  /\ UNCHANGED <<queue, stop, arg, offered, accepted, popped>>

PopTakes(c) ==
  /\ at[c] = "locking" /\ MutexFree
  /\ queue # <<>>
  /\ popped' = Append(popped, Head(queue))
  /\ queue' = Tail(queue)
  /\ LeaveAndNotify(c, "idle", Producers)
  /\ UNCHANGED <<stop, arg, offered, accepted>>

Drained == ~IsRunning /\ queue = <<>>

PopEnds(c) ==
  /\ MutexFree /\ Drained
  /\ Move(c, "locking", "ended")
  /\ UNCHANGED <<queue, stop, arg, offered, accepted, popped>>

-----------------------------------------------------------------------------
(* Waiting and Stop *)

MustWait(t) == IsRunning /\ IF t \in Producers THEN Len(queue) >= MaxSize ELSE queue = <<>>

\* The test in vain, and the wait that follows it.
Park(t) ==
  /\ \/ MutexFree /\ MustWait(t) /\ Move(t, "locking", "parking")
     \/ Move(t, "parking", "waiting")
  /\ UNCHANGED <<queue, stop, arg, offered, accepted, popped>>

\* A condition variable may wake a thread for no reason.
Spurious(t) ==
  /\ Move(t, "waiting", "locking")
  /\ UNCHANGED <<queue, stop, arg, offered, accepted, popped>>

\* Sensitivity: the consumers are forgotten.
StopNotifies_Producers == Producers

StopNotifies == Threads

Stop ==
  /\ \/ stop = "no" /\ stop' = "flagged" /\ UNCHANGED at
     \/ /\ stop = "flagged" /\ stop' = "done"
        /\ at' = [t \in Threads |-> IF t \in In(StopNotifies, "waiting") THEN "locking" ELSE at[t]]
  /\ UNCHANGED <<queue, arg, offered, accepted, popped>>

-----------------------------------------------------------------------------

PushStep(p) == PushEnds(p) \/ Park(p)
PopStep(c) == PopCall(c) \/ PopTakes(c) \/ PopEnds(c) \/ Park(c)

Next ==
  \/ \E p \in Producers : PushStep(p) \/ \E e \in Events : PushCall(p, e)
  \/ \E c \in Consumers : PopStep(c)
  \/ \E t \in Threads : Spurious(t)
  \/ Stop

Safety == Init /\ [][Next]_vars

-----------------------------------------------------------------------------
(* Properties *)

\* Every variable has its type; in particular the queue never holds more than _maxSize events,
\* however many producers wake up together.
TypeOK ==
  /\ queue \in Seq(Events) /\ Len(queue) <= MaxSize
  /\ stop \in {"no", "flagged", "done"}
  /\ at \in [Threads -> Stages]
  /\ arg \in [Producers -> Events \cup {NoEvent}]
  /\ \A p \in Producers : at[p] # "idle" => arg[p] \in Events
  /\ offered \subseteq Events
  /\ accepted \in Seq(Events)
  /\ popped \in Seq(Events)

\* Events leave in the order they were accepted in, none is lost or repeated, whichever of several
\* consumers takes them and whenever the queue is stopped.
Fifo == accepted = popped \o queue

\* When a consumer has been told that nothing more will come, nothing is left and nothing more is
\* accepted: a producer that was waiting for room does not slip an event in after Stop.  This is
\* what makes the second loop of AsyncLogThread (Logger.cpp:217) dead code.
NothingLeftBehind == In(Consumers, "ended") # {} => queue = <<>> /\ ~IsRunning

\* No lost wakeup while the queue runs: every queued event and every free place that some thread
\* waits for has a woken thread on its way to it.
NoLostWakeup ==
  IsRunning =>
    /\ In(Consumers, "waiting") # {} => Len(queue) <= Cardinality(In(Consumers, "locking"))
    /\ In(Producers, "waiting") # {} => MaxSize - Len(queue) <= Cardinality(In(Producers, "locking"))

\* The queue is the bounded channel that the send path of a session is, too; it never shuts.
Channel == INSTANCE SendChannel WITH
             Messages <- Events,
             Capacity <- MaxSize,
             pending <- queue,
             delivered <- popped,
             status <- IF IsRunning THEN "open" ELSE "stopping"

\* Every step of the queue is a step of the channel or changes nothing it sees.
ChannelSafety == Channel!Safety

=============================================================================
