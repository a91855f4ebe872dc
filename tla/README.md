# AsioServer: specification and proofs

AsioServer is a C++20 TCP server on Boost.Asio. Clients connect, send packets of a
fixed header and a JSON body, and are served by services (hello, heartbeat,
communication between named clients, database). This directory holds TLA+ models of
its concurrent core, the TLC configurations that check them on small instances, and
TLAPS proofs of their safety properties for every instance.

## The system

| component | source | state | operations | what is hard |
|---|---|---|---|---|
| session: send path | `core/session/CSession.cpp` | `_sendQue`, `_bStop`, `_socket`, posted tasks | `Send`, `DoSend`, `DoWrite`, `HandleWrite`, `Close` | called from any thread; queue full; Close between test and post; one write at a time |
| session: lifecycle | `net/coroutine/CoroutineSession.cpp` | reader and watchdog coroutines, time of the last header | `Start`, `StartHeartbeatCheck` | who holds the object; timeouts racing data; every end of a session happens twice |
| server | `core/server/CServer.cpp` | `_sessionMap`, acceptor | accept handler, `DelSessionByUuid`, `GetSessionByUuid`, `~CServer` | the session runs before it is inserted; exceptions end the accept loop |
| client registry | `services/CommunicationService` | `_clientMap`, `_clientInfo` of each session | register, close, send, show; `~CSession` | two-step updates of two maps; stale uuids |
| database pool | `services/DBService/DBConnectionPool.cpp` | `_idle`, `_created`, `_closed`, condition variable | `Acquire`, `Release`, `CloseAll`, `Initialize` | blocking wait on io threads; failure and close while unlocked |
| database executor | `services/DBService/DBExecutor.cpp` | `_connPools` | `ExecuteRequest`, `InitializeFromConfig`, `Shutdown` | close racing requests; pools that outlive their io_contexts |
| log queue | `infra/log/SafeQueue.h` | `_queue`, `_isRunning`, two condition variables | `Push`, `Pop`, `Stop` | one notification per change; a `Stop` that takes no mutex |
| logger, log file | `infra/log/Logger.cpp` | `_isAsync`, log thread, `_mutex`, `_fileMutex`, file and backups | `log`, `DispatchLog`, `SetAsyncMode`, `~Logger`, `Append`, `RollFile`, `OpenFile` | logging while logging; joining under a mutex; a process that ends inside a roll |
| logic system, async session | `core/logic`, `net/threaded` | `_msgQue`, worker thread | `PostMsgToQue`, `ProcessMsg`, `~LogicSystem` | wakeups at stop; exceptions on the worker; not reached by the shipped `main` |
| services and dispatch | `services/ServiceManager.cpp`, `services/IService.cpp`, Hello, Heart, Communication, DB | two maps filled at start | `GetServiceById`, `Handle`, the callbacks | order of replies; what the sender of a forwarded message is told |
| io context pool, main | `core/session/AsioIOServicePool.cpp`, `app/server_coroutine/main.cpp` | one io_context and one thread per slot, statics | `GetInstance`, `GetIOServive`, `Stop`, signal handler | shutdown waits for every session; order of destruction; exits by exception |
| configuration | `config` | settings | `LoadConfig` | numbers that do not fit |
| framing, JSON, drivers | `core/message`, `core/protocol`, drivers | - | conversions | widths of integers |

How they interact. The acceptor runs on the main thread. Every accepted connection
gets an io_context of the pool, round robin; one thread runs each io_context
(`AsioIOServicePool.cpp:25-30`), so everything of one session except `Send` (called by
any thread) and the accept handler is sequential, and different sessions interleave.
The reader parses a packet and spawns the service's coroutine on the session's
io_context. The communication service goes through the client map and the session map
to another session's `Send`. The database service calls the executor, which calls the
pool from the io thread. Every thread logs, which pushes to the log queue; one log
thread empties it into the file, and itself logs when it rolls the file. In the ASYNC type
of server the reader is a chain of completion handlers that post whole messages to
`LogicSystem`, whose worker thread spawns the services' coroutines; `main` builds the
server with the default, the coroutine type. Sessions are held by shared_ptrs: in the session map, in
coroutines, in posted tasks and in completion handlers.

What makes each component correct:

- send path: accepted packets are written once, whole and in order; one write at a time;
  never stuck; nothing accepted after a stop; a stop closes the socket.
- lifecycle: a serving session is registered; every session ends; a closed and forgotten
  session is destroyed, never while its socket is open.
- registry: a registered client is reachable until it leaves or a session of its own takes the name away, its name is
  free afterwards;
  the sender shown to a receiver is the sender.
- pool: a connection serves one request; places and wakeups are not lost; a closed pool is
  empty; every request is answered.
- log queue and logger: an accepted event is handed over once and in order, at the latest
  when the logger is stopped; no wakeup is lost; the files keep an unbroken end of the log.
- the way of a request: it is answered once; replies and forwarded messages keep their
  order; what a sender is told of its message is true.
- process: whatever is configured, the port and the io threads are in range; a signal ends
  the program without anything being used after its destruction.

The hazards that follow from this are listed with their lines in `PROJECT.json`.

## Modules

| module | models | checked by | proved in |
|---|---|---|---|
| `SendChannel` | abstract: a bounded FIFO channel that stops and shuts | refinement | - |
| `SessionLife` | abstract: the life of one session, as the rest of the server may rely on it | refinement | - |
| `ConnectionLending` | abstract: a pool lends each connection to one borrower, at most so many, none to who comes after it was closed | refinement | - |
| `SendQueue` | `CSession` Send/DoSend/DoWrite/HandleWrite/Close | `MCSendQueue` | `SendQueueProofs` |
| `SessionLifecycle` | accept handler, session map, reader, watchdog, handlers, senders of other sessions, Close, object lifetime | `MCSessionLifecycle` | `SessionLifecycleProofs` |
| `ClientRegistry` | `ClientManager`, `CommunicationService`, `~CSession`, with an abstraction of the lifecycle | `MCClientRegistry` | `ClientRegistryProofs` |
| `DBConnectionPool` | the pool and the executor's requests on blocking io threads | `MCDBConnectionPool` | `DBConnectionPoolProofs` |
| `SafeQueue` | the bounded blocking queue, for any producers and consumers | through `Logger` | `SafeQueueProofs` |
| `LogFile` | `FileAppender`: Append, RollFile, OpenFile | through `Logger` | `LoggerProofs` |
| `Logger` | `Logger` over `SafeQueue` and `LogFile` | `MCLogger` | `LoggerProofs` |
| `Messaging` | readers of both server types, `LogicSystem`, dispatch, the services' replies, forwarding | `MCMessaging` | `MessagingProofs` |
| `Process` | `main`, io context pool, `CServer`'s and the executor's start and end, conversions of settings | `MCProcess` | `ProcessProofs` |

Definitions named `X_Something` with the comment "Sensitivity:" are variants of `X` with a
plausible bug. No specification uses them; each property was seen to fail with one of
them in the place of `X`.

### SendQueue

`Send` is two steps, the test of `_bStop` (`SendCheck`) and the post of `DoSend`
(`SendPost`), because Close may come between them. `tasks` is the io_context's queue of
posted tasks, which asio runs in order; completion handlers of `async_write` run
whenever they are ready. `RunDoSend`, `RunClose`, `HandleWriteOk` and `HandleWriteError`
are the handlers of the io thread. `writes` holds the outstanding writes, so that two at
a time would be visible. `wire` and `accepted` are history. `_mutex` of the session is
not modelled: only the io thread takes it. Packets are names (sender, number).

### SessionLifecycle

`Held(s)` enumerates the shared_ptrs to a session; `Gone(s)` is the destruction that
follows when none is left, at the very step that drops the last. The reader captured
only `this`, so `ReaderDangles` is its resumption after that: undefined behaviour, of
which the outcomes "ends" and "the process dies" (`down`) are kept. The log line of the
accept handler can throw out of `io_context::run`, which also sets `down`. The send path
is reduced to one outstanding piece of send work. The threads of other sessions come in through
`SendToOtherSession`: `SenderFinds` takes the shared_ptr that `GetSessionByUuid` returns, `SenderLeaves` lets go
of it after a Send or an exception (`sender`; one such thread at a time). The watchdog's 60 s and 5 s become
`IdleTicks` checks, with one check in which either outcome is possible.

`SessionLife` is what others may rely on: a session is put into `_sessionMap` once and taken out once,
its socket is closed only after it was stopped, and it is destroyed only when its socket is closed
and it is out of the map. `LivesOnce` says that every session of `SessionLifecycle` implements it
(`Place` and `Link` are the mapping). `ClientRegistry` and `Messaging`, which abstract from the
coroutines, take no other steps: `SessionsLive` in their proof modules.

### ClientRegistry

The handlers of `CommunicationService` are cut wherever they touch state shared with
other sessions. A session's own thread runs them one after the other. The lifecycle
actions allow a session to be stopped, left in the map or inserted late; that they are steps of
`SessionLife` is proved. A client may be behind several sessions (`ClientOf`), as one that reconnects is, and
`MayClaim` says which names it puts in its requests. The properties about well-behaved clients assume
`OwnNames` (each client its own single name, over all its sessions); `SenderNotForged` does not.
`accepted` and `unbinder` are history: whether `AddClient` has bound a name to the session, and who has unbound it since.

`RegisteredIsReachable` has one exception, `UnboundByOldSession`: a stopped session of the same client. It is
needed. A client that reconnects can register its name as soon as `RemoveClient` has unbound the old session's,
while that session's object is kept by its watchdog for up to five seconds; then `~CSession` (`CSession.cpp:50`)
unbinds the name once more, and with it the new session, which is from then on unreachable while its client
believes itself registered. No comment promises otherwise, so this is not among the findings; what the property does promise is
that no session of another client, no refused registration and no handler of the running session itself does such a thing. `OnShow` only reads, and the replies to the requester
are in `Messaging`.

### DBConnectionPool

A request is a coroutine of the io thread `ThreadOf[r]`. While it is inside `Acquire`
(waiting, or connecting synchronously) its thread is `Busy`: no other request of the
thread starts or resumes (`Lookup`, `Resume`), and no query on a connection whose socket
belongs to that thread makes progress (`QueryEnds`). `TryAcquire` is once around the loop
under the mutex. `MovesAndNotifies` is `notify_one`. `Retry` may also happen unnotified
(spurious wakeups), `GiveUp` is the deadline; since `wait_until` may report a timeout to a
waiter that was notified, the notification is then counted in `missed`. `listed` is the
executor's entry for the pool's key. `ConnectionLending` is the pool without its queue, waiting and wakeups;
`LendsConnections` maps the idle queue to the free connections and requests in `CreateConnection` to
the borrowers that one is made for. Its borrowers are let in (`asking`) while the pool is open, and it lends or makes
a connection for those only: a request that waited when the pool was closed may still get one, as in the code
(`ClosedCreatesNothing` is the finding), one that came later may not. `Initialize` and the executor's refusal of
connectionless pools are the initial state.

### SafeQueue, LogFile and Logger

`SafeQueue` has one place per thread (`at`): `locking` is on the way to the mutex, `parking` has
tested its condition in vain and still holds the mutex, `waiting` sleeps. `PushEnds` and
`PopTakes` are critical sections with their `notify_one`, which wakes any waiter
(`LeaveAndNotify`). `Stop` is two steps, the flag and the notifications, and needs no mutex, so
it may come between a thread's test and its wait: the one wakeup it can miss. `Spurious`
wakeups are possible, not promised.

`LogFile` is `FileAppender` step by step: the test of the size, each rename from the oldest
backup down, the lines `OpenFile` logs, the opening and the write, either of which may fail
(`failed`): a write that fails loses its text and, the stream being bad from then on, those after it. Sizes are counted in events. `FileInit` starts from anything an earlier process may
have left, a roll it did not finish included, with a first `OpenFile` that may have failed. What it may
have left is assumed to be `BackupsWhole`: a backup is missing or has the size of a log that is rolled
(`LeavesBackupsWhole` proves this of every process in which no `OpenFile` failed). `holes` counts the
backups missing between others at the start. `Text` is all files read as one, the oldest first.

`SuffixKept` counts the holes because a roll does not close them: the loop renames every file it finds, and the
rename of the oldest but one overwrites the oldest backup whether or not a gap could
have taken it in. So a process that ends between two renames costs the next one a backup for each gap. That
follows from `RollFile`'s loop (`Logger.cpp:128-143`), contradicts no comment, and came to light with the proof:
without `holes` the property fails for three backups.

`Logger` composes both. Threads in `Callers` log; the log thread is the queue's consumer
`Worker` and, when `OpenFile` logs inside `Append`, also its producer `Nested`. `holder` is
who has `_mutex`; `_fileMutex` is only ever taken inside it. In synchronous mode, the
nested log would lock the mutex again, which never ends: the model has no step there.
`SetAsyncMode(false)` holds `_mutex` while it joins (`SwitchToSync`, `JoinedSwitch`): it does not return if the log
thread still has an event to hand over, popped or queued (`JoinsUnderMutex`), and returns otherwise.
`~Logger` begins when the other threads have ended (`Exit`). A rename that throws, and a
queue destroyed under a thread inside `Push`, set `down`.
`SetAsyncMode(true)`, `AddAppender` and `SetLevel` are called once, by `InitLog`, before any
thread starts: they are `LoggerInit`.

### Messaging

A request goes from `Read` to a handler posted to the session's io_context, in the ASYNC
type by way of `que` and the worker (`DispatchNext`). `tasks[s]` is the io_context's queue of
handlers, posted packets (`send`) and the close task. `RunHandler` is `IService::Handle` and
the callback behind it: an echo (Hello, and every reply of the registry that is sent at
once), the heartbeat and forwarding, which first ask for an endpoint and may meet the
exception of `remote_endpoint`, a database request, which suspends (`awaiting`) until
`Resume`, a close, whose reply is never sent because the session is then stopped, an
unknown service and an unknown command, which have no reply. `wire[s]` is what `DoSend` takes in; `lost` has the packets that
it drops and the replies of the database that `body.dump` throws on (`Resume`). From `DoSend` on it is
`SendQueue`'s business. The allocation of a body may throw (`AllocateThrows`): that ends the reader of a coroutine session,
and in the ASYNC type leaves `io_context::run` and ends the program. `mapped` joins
`_sessionMap` and `_clientMap`; what may go wrong between the two is `ClientRegistry`'s
business. The address logged by the worker throws out of its thread when the client has
gone, which ends the program (`down`). At the end the io threads are joined
(`IoThreadsEnd`) before `~LogicSystem` runs; what the worker then still dispatches is spawned
on an io_context that nobody runs, which answers no one. `HeartService`'s time stamp is
read by nobody.

### Process

`Init` chooses the machine and the settings; `Uint16` is the narrowing of the configuration's
`uint16_t`s. The main thread walks from `loading` to `ended`. The pool is a static of the
first call that needs it (`StartPool`), be it a database connection or the port. `AwaitClient`
takes the io_context of the next socket before its client comes. `Signal` is the handler,
`Join` the joining in `Stop`, `Leave` the end of `main`'s block with `~CServer`, `DestroyPool` and
`DestroyExecutor` the statics in the reverse order of their construction. `misuse` records
what an io thread touches of what is being or has been destroyed. `SignalEndsCleanly` excuses one of its members: the database
connections that are destroyed after their io_contexts (`context`), which the order of the statics makes certain.

What the model shows besides its properties: a second signal finds no handler; after an exception (no
configuration, no port, an accept that logs a vanished client) the io threads still run and the
pool's destruction aborts the program; database connections are destroyed after the
io_contexts they were made on; a machine with one hardware thread and no valid
setting divides by zero; a port above 65535 is reduced modulo 2^16 before it is looked at.

## Runs

| run | instance | shows |
|---|---|---|
| `send_queue` | 2 senders of 3 packets, queue of 2 | `OneWriteInFlight`, `BufferOwned`, `NeverStuck`, `Fifo`, `SenderOrder`, refinement of `SendChannel`, `StopCloses`, `AcceptedSettles` |
| `session_lifecycle` | 1 session, 2 packets, watchdog limit 1 | `OpenIsRegistered`, `LeakCauses`, refinement of `SessionLife` (`LivesOnce`), `SilentIsClosed`, `ForgottenIsGone` |
| `client_registry` | 3 sessions of 2 clients, 2 names, 3 requests over all sessions, own names | `RegisteredIsReachable`, `NoDanglingName`, `NamesAreFreed` |
| `db_pool` | 4 requests on 2 threads, 2 connections of which 1 is made at start | `NoSharing`, `Accounting`, `NoLostWakeup`, refinement of `ConnectionLending` (`LendsConnections`), `Answered` |
| `logger` | 2 threads, 2 events, 2 more from rolling, queue of 2, files of 4 events, 3 backups, 5 disks | `NoLostWakeup`, `Flushed`, `SuffixKept`, refinement of `SendChannel`, `EventuallyWritten`, `StopCompletes` |
| `messaging` | 2 clients, 18 pairs of scripts, both server types | `Delivery`, `OutcomeIsTrue`, `Answered`, `LogicEnds` |
| `process` | 0 to 3 hardware threads, 75 settings, 3 sessions | `SignalEndsCleanly`, `ShutdownCompletes` |
| `reader_outlives`, `write_error_leaks` | as `session_lifecycle` | violated: see findings |
| `forged_sender` | as `client_registry`, any names | violated: see findings |
| `db_closed_pool` | as `db_pool` | violated: see findings |
| `logger_knot` | as `logger`, queue of 1 | violated: see findings |

Bounds. `SendLimit`, `MsgLimit` and `RequestLimit` bound what the environment does and
appear only in guards. Six packets over a queue of two fill it, overflow it and drain it.
One session is enough for `SessionLifecycle` because sessions share only the map, the acceptor and what
`SendToOtherSession` does to another session, which needs no second session to come from (`sender`); the proofs hold for any
number of sessions. Its `MsgLimit` of 2 lets a second
header race the first one's handler. In `client_registry` two of the three sessions are of
one client, so that a new session of it meets the end of the old one, and the third is of another, whose handlers
meet both; three requests are a registration, a close and a second registration, or a registration and two
messages to its name. Four requests on two threads are the least with both
threads blocked by waiters while both holders must resume on them: the knot that only
the deadline dissolves.

In `logger` each event is logged once; a queue of two places fills with the two events, or,
while the log thread rolls for one of them, with the other and a nested line, so that both knots happen. The disk starts with a full or nearly full log
and with backups that are all there, all missing, or missing at either place below an older one, so
that a roll happens at once or after one event, over gaps, too. Three backups are the least with which a
gap costs one. Lines of `OpenFile` after the first two are left out (`Announced`).
In `messaging` only the second session is stopped or loses its peer (`Frail`), and one
packet finds a full send queue or is dropped on its way to it (`MaxLost`); the scripts pair every kind of request that can
matter to another with what the receiver may do meanwhile. In `process` the settings are in range,
out of range, and in range only after the narrowing; three sessions wrap around the io_contexts.

Deadlock checking is off in all of them: clients may send nothing more, every session may
be over, all requests may be answered, the logger may be at a knot, and the program ends.

Fairness. Io threads run what is ready, so each of their handlers is weakly fair, and so
are a thread's way from the test to the post in `Send` and its return from it (`SenderLeaves`), timers and deadlines, destruction
(reference counting leaves no choice) and the end of service coroutines. Nothing is
assumed of the peer in `SessionLifecycle`: a silent one is the watchdog's business.
`AcceptedSettles` assumes in addition that an outstanding write completes or fails
(`PeerReads`), and `Answered` of the database that connecting and querying come to an end: assumptions
about the environment, named as such.

In `Logger`, who is inside `DispatchLog`, `SetAsyncMode` or `~Logger` goes on (weak
fairness), and a thread that finds the queue's mutex free again and again gets it (strong
fairness: nobody holds that mutex for longer than a test, and that a mutex is not kept from
one thread for good is assumed of its implementation). No thread is made to log and nobody to stop the logger.
In `Messaging` the io threads and the worker's own steps are weakly fair, as are the
executor's answer (`DBConnectionPool`'s `Answered`) and the second half of `~LogicSystem`. In `Process` the
main thread and the ends of io threads are; that sessions end is not assumed but is the premise of
`ShutdownCompletes`, and no signal is promised. Spurious wakeups are nowhere
assumed to come.

## Findings

- `reader_outlives`: the reader coroutine (`CoroutineSession.cpp:63`) captures `this`
  only. After a watchdog timeout or a close request, the map, the watchdog and the close
  task may let go of the session before the aborted read resumes the reader, which then
  uses a destroyed object. The comment at line 128 says what a coroutine needs.
- `write_error_leaks`: `HandleWrite` closes and does not call `DelSessionByUuid`
  (`CSession.cpp:186-187`). If the reader then leaves its loop at the test of `_bStop`,
  nothing takes the session out of the map.
- `forged_sender`: `OnCreateCallBack` stores the name in the session before `AddClient`
  refuses it, and keeps it (`CommunicationService.cpp:58`); the forwarded "from" is that
  name, against the comment at line 175. Among clients that use names of their own it cannot
  happen (`OwnNamesNotForged`).
- `db_closed_pool`: `Acquire` looks at `_closed` once; a request that waited when the pool
  was closed may create a connection in it (`DBConnectionPool.cpp:23, 40`), against
  `DBConnectionPool.h:29`.
- `logger_knot`: `OpenFile` logs (`Logger.cpp:89`) while the log thread is inside `Append`. With a full
  queue the only consumer waits for room in it, holding both of the logger's mutexes, and
  every thread that logs waits for it, against the comment at `SafeQueue.h:22`. `KnotIsForGood` proves that while
  the program runs no step of any thread, no spurious wakeup either, unties it, accepts an event or
  writes one.

Not findings, because no text of the repository says otherwise, but named in the properties as
their only exceptions: a `Stop` or `~LogicSystem` that comes between a test and a wait
(`StopCompletes`, `LogicEnds`: they promise nothing then, so they do not cover those two), the join under `_mutex`
while an event is left (`EventuallyWritten`, `StopCompletes`), the exception that leaves the worker or the reader of the
ASYNC type (`Answered` of `Messaging`), the late wakeup in `Acquire` (`missed` in `NoLostWakeup`; `Answered` shows that
it costs time, not an answer), and the reconnecting client that its old session unregisters (`RegisteredIsReachable`).

## Proofs

All theorems are about `Safety == Init /\ [][Next]_vars` and hold for every value of the
constants that satisfies the module's ASSUME. Each has the form: an inductive invariant,
preserved action by action in lemmas, which implies the property.

- `SendQueueProofs`. `TypeCorrect`; `WritePathCorrect` (the three facts about the write in
  flight are inductive together: a write exists iff its packet is the queue's front,
  except in a stopped session after an error); `FifoCorrect` on top of it;
  `SenderOrderCorrect`, whose invariant orders each sender's packets along the whole way:
  wire, queue, tasks, and the packet being built; `ImplementsChannel`, the step
  simulation of `SendChannel`. `BufferOwnedAlways` and `NeverStuckAlways` are parts of
  `WritePathCorrect`. `CloseOnce` is inductive with the types: the first Close posts the one task that
  closes the socket, and every other call of Close, from whichever handler, finds `_bStop` set; the lemmas
  about `CloseTasks` follow the task to the head of the queue. `AcceptedOnTheWay` follows from `Fifo` and
  `NeverStuck`. What `StopCloses` and `AcceptedSettles` add is that the task is run and the write ends.
- `SessionLifecycleProofs`. Types, `OpenIsRegistered`, `LeakCauses`, and the refinement `LivesOnce`. The
  strengthening follows the two coroutines: a session that is not stopped has a live watchdog, and
  the socket is closed only by the close task, which itself holds the session. For `LivesOnce` each
  action is shown to be a step of the life of the session it is about and to leave the others alone
  (`LifeMoves`); it needs that the close task runs only in a stopped session and that what was
  destroyed stays so. `GoneIsClosed` is its immediate consequence.
  `Watched`, what `SilentIsClosed` needs at every moment, is part of the invariant. `LeakedForGood` is the
  action property that gives `LeakCauses` its weight: no step undoes a leak. `DanglesResuming` bounds the
  finding `reader_outlives`: the reader has its read completed when its session is destroyed, so no
  pending operation of asio refers to the object. Its invariant `ReaderAware` says that nothing is
  pending on a closed socket and that nobody can close a session whose reader has not started; the second part
  needs the count of service coroutines (`HandlersCounted`), that what another session's thread posts runs after the reader's start,
  which was posted before it, and that the watchdog's timer, the five seconds
  of `TimerFires`, outlasts the start of the reader.
  It also shows that `ReaderDangles` covers every step a reader takes after the destruction.
- `ClientRegistryProofs`. Types for any clients. `RegisteredIsReachable` and
  `NoDanglingName` under `OwnNames`, with the invariant `Owned` (bindings, ClientInfo and
  pending removals are about the client's own name) and `StopFirst` (closing and
  destruction come after the stop), without which a destructor could unbind its own session while it runs.
  `SingleSessionIsReachable` is what follows for a client that connects once: no exception is left.
  `OwnNamesNotForged` follows from `Owned`: the finding `forged_sender` needs a client that uses another's name.
  `SessionsLive` is the refinement of `SessionLife`, with `LifeOrder` as its invariant.
- `DBConnectionPoolProofs`. `_created \in 0..Max` is not inductive without `Accounting` (a rollback
  must meet a counted attempt), which needs `HoldsInQuery` (connections are held during
  the query only); `NoSharing` and `ClosedIsEmpty` complete `PoolInv`.
  `NoLostWakeup` is then inductive with the types: a place is freed together with a
  notification and taken by a request that consumes at most one.
  `LendsConnectionsAlways` simulates `ConnectionLending`: that the connection at the head of the queue
  leaves the set of free ones needs `NoSharing`, and that there is room when one is made needs `Accounting`,
  in a closed pool, too, where the count is only an upper bound.

- `SafeQueueProofs`. Types, `FifoAlways` and `NothingLeftBehindAlways` (both not run on their own:
  `Logger` has one consumer) and `ImplementsChannel` for any number of threads.
  `NoLostWakeup` needs `TestStands`: a thread that has tested in vain holds the mutex, so its
  test is still true when it waits. Then each step is counted: it changes what there is to
  have by at most as much as it changes the number of woken threads.
- `LoggerProofs`. `UsesSafeQueue`: `LoggerSafety => Safety` of the queue, so that the queue's theorems
  hold in the logger, where the consumer is a producer, too. `Behind` and `HolderHasEvent` say
  that the worker has handed over all it popped but the one it is at; with `JoinedFirst`
  (the worker was joined before the logger is synchronous or gone) and the queue's
  `NothingLeftBehind` this is `Flushed`.
  `SuffixKept` is a property of a text put together by recursion over the files. The lemmas about it
  (`TextSame`, `TextWritten`, `TextMoved`, `TextLong`, `EndIsSuffix`) are proved by set induction over the
  file numbers (`FilesInduction`: a set of files that has 0, and with a file the next one, has all).
  The invariant `RollInv` says where in a roll the free slot is (`Slot`): the first
  rename overwrites at most the oldest backup, and every later one moves a file to a name that is free and leaves
  the text as it is. It also counts the backups that are full against the holes that are left (`FullOrHole`,
  `HolesMoved`). `LeavesBackupsWhole`
  closes the circle: what `LoggerAssumption` asks of the disk is what a process leaves there.
  `KnotIsForGood` needs that the nested push is made inside `DispatchLog` only (`NestedInside`), and that the main
  thread, which alone could stop the queue, has not begun to (`MainHolds`).
- `MessagingProofs`. `Delivery` is not inductive: replies and messages pass through a queue of
  tasks. `Orderly` orders the whole way: wire, posted packets, posted handlers, `que`, and what is
  still to be read. Its parts are operators of the queues, not of the variables,
  because a handler posts to several queues in one step; lemmas about posting and taking one
  task are then chained. `Truthful` says of replies still posted what `OutcomeIsTrue` says of
  those sent: without it a reply could be overtaken by the fate of its message.
  `NothingForgotten` is the safety half of `Answered`, inductive with this invariant: at every moment a request
  that was read and asks for an answer waits (in `que`, posted, or for the executor), or its reply is on
  its way, sent, or itself among those a full send queue or an exception on its way dropped. The excuses are exact: its session has stopped,
  it is a heartbeat whose peer is gone, or an exception has ended the process. What is left to
  fairness, and so to TLC, is that the wait ends.
  `SessionsLive` shows that every step of the readers, the handlers, the worker and the peers is one of
  `SessionLife` (without its beginning and its destruction, which `Messaging` leaves out).
- `ProcessProofs`. `ProcessInv` follows the main thread: what of pool, server and port exists at
  each place (`PoolOK`, `MainOK`), and after a signal no io thread is live beyond `joining`
  (`CleanOK`), which gives `SignalEndsCleanly`. `CrashCause` says when the remainder by `_maxSize` divides by
  zero: only where `hardware_concurrency` reports less than two threads. Its invariant `SizeFollows` ties the
  pool's size to the machine and its settings, through every call that may be the one that starts the pool.

Only model-checked: all liveness (`StopCloses`, `AcceptedSettles`, `SilentIsClosed`,
`ForgottenIsGone`, `NamesAreFreed`, the two `Answered`, `EventuallyWritten`, `StopCompletes`,
`LogicEnds`, `ShutdownCompletes`), which TLAPS cannot treat with fairness; the safety halves of
`StopCloses`, `AcceptedSettles`, `SilentIsClosed` and `Messaging`'s `Answered` are proved. Every invariant and every
refinement that a passing run checks is also a theorem.

## Not modelled, and the plan

Not modelled, and why:

- Framing (`MsgNode`, `MessageHeader`): one buffer that no other actor touches. Of it
  `SessionLifecycle` has the failing allocation; the wrap of `bodyLen + 1` in 32 bits is listed as a
  hazard.
- JSON: the texts of requests and replies. `Messaging` tells a reply from an error, no more.
- The database drivers (Boost.MySQL, sqlite3): their outcome is a choice. That a connection
  whose link is broken goes back to the idle queue is listed as a hazard: nothing
  in the pool could tell it from a good one. No code creates a Sqlite pool.
- Reading the configuration files, and filling the maps of services, which static objects
  (`*ServiceRegister.cpp`) and `main` do before the first connection.
- `DBExecutor::Shutdown`, which has no caller. The acceptor of the ASYNC type, which repeats
  the coroutine one line by line; its sessions begin in `Messaging` where they are accepted.
- Log levels and formatting, path helpers, and the vendored JSON library: a single header
  of 25,526 lines, five sixths of all the code, without state of this program.

Left of the plan: nothing of what was planned. `Messaging`'s `mapped` still joins the session map with the
client map, and that `ClientRegistry` allows this is by inspection only.
