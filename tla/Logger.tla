------------------------------- MODULE Logger -------------------------------
(***************************************************************************)
(* Logger (src/infra/log/Logger.cpp) over its queue and its log file.      *)
(* Threads log; in asynchronous mode they push to the queue and one worker *)
(* thread appends, under _mutex, what it pops; in synchronous mode they    *)
(* append themselves.  Rolling the file logs, too: the thread that appends *)
(* is then a producer, called Nested here.                                 *)
(***************************************************************************)
EXTENDS SafeQueue, LogFile, SequencesExt

CONSTANTS Worker,        \* AsyncLogThread
          Nested,        \* the worker as a thread that logs
          Main, Nobody,  \* the thread that calls SetAsyncMode and ~Logger; no thread
          Announced,     \* the events OpenFile logs
          DirectEvents,  \* what is logged in synchronous mode
          EarlierEvents, \* what earlier processes logged
          Left           \* what they may have left on the disk

\* What an earlier process left has whole backups, unless it could not open its log.
ASSUME LoggerAssumption ==
  /\ Consumers = {Worker} /\ Nested \in Producers
  /\ {Main, Nobody} \cap Threads = {} /\ Main # Nobody
  /\ Announced \subseteq Events
  /\ DirectEvents \cap (Events \cup {NoEvent}) = {}
  /\ Left \subseteq [Files -> Seq(EarlierEvents)]
  /\ \A d \in Left : BackupsWhole(d)

VARIABLES isAsync, \* _isAsync and _logQue
          holder,  \* the thread that holds _mutex
          direct,  \* the event a thread logs in synchronous mode
          written, \* what was handed to the appenders, in order (history), after what was on the disk
          handed,  \* what of it the worker handed over (history)
          main,    \* "runs", "switching" (SetAsyncMode(false)), "sync", "exiting" (~Logger), "ended"
          down     \* the process has been killed by an exception or undefined behaviour

loggerVars == <<isAsync, holder, direct, written, handed, main, down>>

allVars == <<vars, fileVars, loggerVars>>

Callers == Producers \ {Nested}

LoggerInit ==
  /\ Init /\ FileInit(Left)
  /\ isAsync = TRUE /\ holder = Nobody
  /\ direct = [c \in Callers |-> NoEvent]
  /\ written = Text /\ handed = <<>>
  /\ main = "runs" /\ down = FALSE

-----------------------------------------------------------------------------
(* Logger::log *)

LogAsync(c, e) ==
  /\ isAsync /\ direct[c] = NoEvent
  /\ PushCall(c, e)
  /\ UNCHANGED <<fileVars, loggerVars>>

LogDirect(c, e) ==
  /\ ~isAsync /\ at[c] = "idle" /\ direct[c] = NoEvent
  /\ e \notin ToSet(written) /\ \A d \in Callers : direct[d] # e
  /\ direct' = [direct EXCEPT ![c] = e]
  /\ UNCHANGED <<vars, fileVars, isAsync, holder, written, handed, main, down>>

-----------------------------------------------------------------------------
(* DispatchLog and the worker *)

HasPopped == at[Worker] = "idle" /\ handed # popped

WorkerPops ==
  /\ PopStep(Worker)
  /\ ~HasPopped
  /\ UNCHANGED <<fileVars, loggerVars>>

Dispatch(t) ==
  /\ holder = Nobody
  /\ IF t = Worker THEN HasPopped ELSE direct[t] # NoEvent
  /\ holder' = t
  /\ UNCHANGED <<vars, fileVars, isAsync, direct, written, handed, main, down>>

\* The thread in DispatchLog; Main holds the mutex for other reasons.
Appending == holder \in Callers \cup {Worker}

Current == IF holder = Worker THEN Last(popped) ELSE direct[holder]

RollStep ==
  /\ Appending
  /\ BeginRoll \/ Rename \/ (OpenFile /\ at[Nested] = "idle")
  /\ UNCHANGED <<vars, loggerVars>>

\* fs::rename throws: out of the worker, or out of a destructor of LogStream.
RenameThrows ==
  /\ Appending /\ stage = "rename"
  /\ down' = TRUE
  /\ UNCHANGED <<vars, fileVars, isAsync, holder, direct, written, handed, main>>

\* OpenFile logs.  In synchronous mode it would lock _mutex again, which never ends: no step.
\* Bound: lines beyond those of Announced are left out.
Announce ==
  /\ holder = Worker /\ isAsync
  /\ Announces
  /\ \/ \E e \in Announced : PushCall(Nested, e)
     \/ Announced \subseteq offered /\ at[Nested] = "idle" /\ UNCHANGED vars
  /\ UNCHANGED loggerVars

WriteAndLeave ==
  /\ Appending
  /\ WriteFile(Current)
  /\ written' = Append(written, Current)
  /\ handed' = IF holder = Worker THEN Append(handed, Current) ELSE handed
  /\ holder' = Nobody
  /\ direct' = [c \in Callers |-> IF c = holder THEN NoEvent ELSE direct[c]]
  /\ UNCHANGED <<vars, isAsync, main, down>>

-----------------------------------------------------------------------------
(* SetAsyncMode(false) and ~Logger *)

\* The mutex is taken for good: it is held while the worker is joined.
SwitchToSync ==
  /\ main = "runs" /\ holder = Nobody
  /\ holder' = Main /\ isAsync' = FALSE /\ main' = "switching"
  /\ UNCHANGED <<vars, fileVars, direct, written, handed, down>>

\* The singleton is destroyed when the threads that log have ended.
Exit ==
  /\ main \in {"runs", "sync"}
  /\ \A c \in Callers : at[c] = "idle" /\ direct[c] = NoEvent
  /\ main' = IF isAsync THEN "exiting" ELSE "ended"
  /\ UNCHANGED <<vars, fileVars, isAsync, holder, direct, written, handed, down>>

StopQueue ==
  /\ main \in {"switching", "exiting"}
  /\ Stop
  /\ UNCHANGED <<fileVars, loggerVars>>

\* Sensitivity: nobody waits for the worker.
WorkerHasEnded_NotAwaited == stop = "done"

WorkerHasEnded == stop = "done" /\ at[Worker] = "ended"

\* The queue is destroyed under a thread that is still inside Push: undefined.
JoinedSwitch ==
  /\ main = "switching" /\ WorkerHasEnded
  /\ main' = "sync" /\ holder' = Nobody
  /\ down' \in IF \E p \in Producers : at[p] # "idle" THEN BOOLEAN ELSE {FALSE}
  /\ UNCHANGED <<vars, fileVars, isAsync, direct, written, handed>>

JoinedExit ==
  /\ main = "exiting" /\ WorkerHasEnded
  /\ main' = "ended"
  /\ UNCHANGED <<vars, fileVars, isAsync, holder, direct, written, handed, down>>

-----------------------------------------------------------------------------

QueueOnly(A) == A /\ UNCHANGED <<fileVars, loggerVars>>

Log(c) == \/ \E e \in Events \ Announced : LogAsync(c, e)
          \/ \E e \in DirectEvents : LogDirect(c, e)

\* A thread in DispatchLog goes on, from the mutex to the last appender.
DispatchStep ==
  \/ \E t \in Callers \cup {Worker} : Dispatch(t)
  \/ RollStep \/ Announce \/ WriteAndLeave

MainStep == StopQueue \/ JoinedSwitch \/ JoinedExit

LoggerNext ==
  /\ ~down
  /\ \/ \E c \in Callers : Log(c)
     \/ \E p \in Producers : QueueOnly(PushStep(p))
     \/ \E t \in Threads : QueueOnly(Spurious(t))
     \/ WorkerPops \/ DispatchStep \/ RenameThrows
     \/ SwitchToSync \/ Exit \/ MainStep

LoggerSafety == LoggerInit /\ [][LoggerNext]_allVars

(* A thread that finds the mutex of the queue free again and again gets it (nobody holds it for   *)
(* longer than a test); who is inside DispatchLog, SetAsyncMode or ~Logger goes on.               *)
LoggerSpec ==
  /\ LoggerSafety
  /\ \A p \in Producers : SF_allVars(~down /\ QueueOnly(PushStep(p)))
  /\ SF_allVars(~down /\ WorkerPops)
  /\ WF_allVars(~down /\ DispatchStep)
  /\ WF_allVars(~down /\ MainStep)

-----------------------------------------------------------------------------
(* Properties *)

\* Every variable has its type.
LoggerTypeOK ==
  /\ TypeOK
  /\ FileTypeOK(Events \cup DirectEvents \cup EarlierEvents)
  /\ isAsync \in BOOLEAN /\ down \in BOOLEAN
  /\ holder \in Callers \cup {Worker, Main, Nobody}
  /\ direct \in [Callers -> DirectEvents \cup {NoEvent}]
  /\ handed \in Seq(Events)
  /\ main \in {"runs", "switching", "sync", "exiting", "ended"}

\* "优雅停止异步线程，处理剩余日志" (Logger.cpp:193, :166): when ~Logger has returned, or SetAsyncMode(false)
\* before it, the worker handed the appenders every event that was ever accepted, once and in the
\* order of acceptance, whoever logged it and however the file was rolled meanwhile.
Flushed == main \in {"sync", "ended"} => handed = accepted

\* The files together hold an unbroken end of all that was written, at every moment of a roll, so
\* also when the process ends there.  Something is only ever lost for as many whole backups as are
\* meant to be kept, but for those that were missing when the process started: RollFile shifts the
\* holes that an unfinished roll leaves, and removes the oldest backup all the same.  (Not when the
\* log could not be opened or written: see failed.)
SuffixKept ==
  ~failed =>
    /\ IsSuffix(Text, written)
    /\ Len(Text) < Len(written) => Len(Text) >= MaxFileSize * (MaxBackup - holes)

\* The log thread waits for room in the queue that only it can empty.
BlockedOnItself == holder = Worker /\ at[Nested] # "idle" /\ Len(queue) >= MaxSize

\* SetAsyncMode(false) joins the log thread while holding the mutex that this thread needs to hand
\* over what it has popped, or will pop before it ends.
JoinsUnderMutex == main = "switching" /\ (HasPopped \/ queue # <<>>)

\* Whatever is accepted is handed to the appenders, and the only ways to fail are these two knots and
\* the end of the process.
EventuallyWritten ==
  \A e \in Events :
    Contains(accepted, e) ~>
      (Contains(written, e) \/ down \/ [](BlockedOnItself \/ JoinsUnderMutex))

\* SetAsyncMode(false) and ~Logger come to an end, but for the two knots and the end of the process,
\* unless the log thread was between its test and its wait when Stop, which takes no mutex, began:
\* then the notification passes it by (only then, and only a spurious wakeup would help it).
StopCompletes ==
  (stop = "flagged" /\ at[Worker] # "parking") ~>
    (main \in {"sync", "ended"} \/ down \/ [](BlockedOnItself \/ JoinsUnderMutex))

-----------------------------------------------------------------------------
(* What a comment says and the code does not do *)

\* "队列满且运行中，等待消费者消费" (queue full and running: wait for the consumer to consume; SafeQueue.h:22):
\* a thread that logs is not held up for good while the logger runs.  The log thread itself logs
\* when it rolls the file; with a full queue it waits for itself, and every other thread for it.
LoggingReturns ==
  \A c \in Callers : (main = "runs" /\ at[c] # "idle") ~> (at[c] = "idle" \/ down \/ main # "runs")
=============================================================================
