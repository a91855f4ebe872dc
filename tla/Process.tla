------------------------------- MODULE Process -------------------------------
(***************************************************************************)
(* The life of the server process: main (src/app/server_coroutine/         *)
(* main.cpp) reads the configuration, starts the io threads of             *)
(* AsioIOServicePool, opens the CServer, accepts sessions, and goes down   *)
(* on a signal or by an exception; then the statics are destroyed in the   *)
(* reverse order of their construction, the pool before DBExecutor.        *)
(* What a session does while it lives is SessionLifecycle's business.      *)
(***************************************************************************)
EXTENDS Integers, FiniteSets

CONSTANTS Sessions,
          Hardware,        \* what hardware_concurrency may return
          PortSettings,    \* "port" of server.json, or its default
          ThreadSettings,  \* "thread_pool_size", or its default
          PoolSettings     \* the size of a database's pool in database.json, 0 for no database

ASSUME SettingsAssumption ==
  /\ IsFiniteSet(Sessions)
  /\ Hardware \subseteq Nat /\ PoolSettings \subseteq Nat
  /\ PortSettings \subseteq Int /\ ThreadSettings \subseteq Int

VARIABLES hardware, settings,  \* the machine and its configuration files
          main,      \* where the main thread is, see Places
          port,      \* the port that is served, 0 before it is known
          size,      \* the pool's _maxSize, 0 before it is started, which is then FALSE
          started,   \* the pool has been constructed
          next,      \* _nextIndex modulo _maxSize
          awaited,   \* the io_context of the socket that waits for the next client
          guarded,   \* the work guards are in place
          live,      \* io threads that run
          joined,    \* how many of them Stop has joined
          server,    \* the CServer: "none", "alive", "clearing" (~CServer), "destroyed"
          session,   \* of each session: "none", "open", "ended"
          home,      \* the io_context of each session
          conns,     \* connections of DBExecutor's pools
          misuse     \* what was used against the rules (history)

poolVars == <<size, started, next, guarded, live, joined>>
sessionVars == <<session, home, awaited>>
vars == <<hardware, settings, main, port, poolVars, server, sessionVars, conns, misuse>>

Places == {"loading", "databases", "port", "serving", "accepting", "joining", "leaving", "clearing",
           "statics", "executor", "ended", "aborted", "crashed"}

Uint16(n) == n % 65536

Init ==
  /\ hardware \in Hardware
  /\ settings \in [port : PortSettings, threads : ThreadSettings, pool : PoolSettings]
  /\ main = "loading" /\ port = 0
  /\ size = 0 /\ started = FALSE /\ next = 0 /\ guarded = FALSE /\ live = {} /\ joined = 0
  /\ server = "none"
  /\ session = [s \in Sessions |-> "none"] /\ home = [s \in Sessions |-> 0]
  /\ awaited = 0
  /\ conns = 0 /\ misuse = {}

-----------------------------------------------------------------------------
(* Starting *)

\* Sensitivity: the machine's limit is not looked at.
PoolSize_NoLimit == IF Uint16(settings.threads) > 0 THEN Uint16(settings.threads) ELSE hardware \div 2

PoolSize ==
  IF Uint16(settings.threads) \in 1 .. hardware THEN Uint16(settings.threads) ELSE hardware \div 2

\* The static of AsioIOServicePool::GetInstance is constructed by the first call.
StartPool ==
  IF started THEN UNCHANGED <<size, started, guarded, live, joined>>
  ELSE /\ size' = PoolSize /\ started' = TRUE
       /\ guarded' = TRUE /\ live' = 0 .. PoolSize - 1 /\ joined' = 0

\* n calls of GetIOServive, which divides by _maxSize.
GetIOServive(n) ==
  /\ StartPool
  /\ next' = IF size' = 0 THEN next ELSE (next + n) % size'

\* The configuration cannot be found (an exception of canonical), or is read.
LoadConfig ==
  /\ main = "loading" /\ main' \in {"databases", "leaving"}
  /\ UNCHANGED <<hardware, settings, port, poolVars, server, sessionVars, conns, misuse>>

\* InitializeFromConfig: a pool connects half of its connections at once; one that fails makes the
\* executor discard the pool, and so does a pool that need not connect any.  A malformed entry
\* throws, wherever it stands.
InitDatabases ==
  LET wanted == settings.pool \div 2 IN
  /\ main = "databases"
  /\ IF wanted > 0
     THEN \E n \in 1 .. wanted : GetIOServive(n) /\ conns' \in IF n = wanted THEN {0, n} ELSE {0}
     ELSE UNCHANGED <<poolVars, conns>>
  /\ main' \in IF started' /\ size' = 0 THEN {"crashed"} ELSE {"port", "leaving"}
  /\ UNCHANGED <<hardware, settings, port, server, sessionVars, misuse>>

GetPortFromConfig ==
  LET configured == Uint16(settings.port) IN
  /\ main = "port" /\ main' = "serving"
  /\ port' = IF configured > 65535 \/ configured < 1024 THEN 19998 ELSE configured
  /\ StartPool
  /\ UNCHANGED <<hardware, settings, next, server, sessionVars, conns, misuse>>

AwaitClient == GetIOServive(1) /\ awaited' = next

\* CServer's constructor binds the port, or throws, and waits for the first client.
Serve ==
  /\ main = "serving"
  /\ \/ main' = "leaving" /\ UNCHANGED <<poolVars, server, awaited>>
     \/ size = 0 /\ main' = "crashed" /\ UNCHANGED <<poolVars, server, awaited>>
     \/ size > 0 /\ AwaitClient /\ main' = "accepting" /\ server' = "alive"
  /\ UNCHANGED <<hardware, settings, port, session, home, conns, misuse>>

-----------------------------------------------------------------------------
(* Serving *)

\* The awaited client comes, and belongs to the context chosen before; its address is logged when
\* it has started, which throws if it has gone.  Then the next one is awaited.
Accept(s) ==
  /\ main = "accepting" /\ session[s] = "none"
  /\ session' = [session EXCEPT ![s] = "open"]
  /\ home' = [home EXCEPT ![s] = awaited]
  /\ \/ main' = "leaving" /\ UNCHANGED <<poolVars, awaited>>
     \/ main' = main /\ AwaitClient
  /\ UNCHANGED <<hardware, settings, port, server, conns, misuse>>

AcceptFails ==
  /\ main = "accepting" /\ AwaitClient
  /\ UNCHANGED <<hardware, settings, main, port, server, session, home, conns, misuse>>

Running(s) ==
  session[s] = "open" /\ home[s] \in live /\ main \notin {"ended", "aborted", "crashed"}

\* A request of a session makes a connection in a pool that was not discarded.
CreateConnection(s) ==
  /\ Running(s) /\ conns > 0 /\ conns < settings.pool
  /\ GetIOServive(1) /\ conns' = conns + 1
  /\ UNCHANGED <<hardware, settings, main, port, server, sessionVars, misuse>>

\* A session ends on its io thread and takes itself out of the server's map.
SessionEnds(s) ==
  /\ Running(s)
  /\ session' = [session EXCEPT ![s] = "ended"]
  /\ misuse' = misuse \cup (CASE server = "destroyed" -> {"server"}
                              [] server = "clearing"  -> {"map"}
                              [] OTHER -> {})
  /\ UNCHANGED <<hardware, settings, main, port, poolVars, server, home, awaited, conns>>

\* io_context::run returns when there is neither a guard nor a session left.
IoThreadEnds(i) ==
  /\ i \in live /\ ~guarded /\ \A s \in Sessions : session[s] = "open" => home[s] # i
  /\ live' = live \ {i}
  /\ UNCHANGED <<hardware, settings, main, port, size, started, next, guarded, joined, server,
                 sessionVars, conns, misuse>>

-----------------------------------------------------------------------------
(* Going down *)

\* Sensitivity: the guards stay.
Signal_KeepsGuards ==
  /\ main = "accepting" /\ main' = "joining"
  /\ UNCHANGED <<hardware, settings, port, poolVars, server, sessionVars, conns, misuse>>

\* The handler stops the acceptor's context and begins AsioIOServicePool::Stop; a second signal finds
\* no handler waiting.
Signal ==
  /\ main = "accepting" /\ main' = "joining"
  /\ guarded' = FALSE
  /\ UNCHANGED <<hardware, settings, port, size, started, next, live, joined, server, sessionVars,
                 conns, misuse>>

\* Sensitivity: the threads are detached.
Joins_Nobody == joined < size

Joins == joined < size /\ joined \notin live

Join ==
  /\ main = "joining"
  /\ \/ Joins /\ joined' = joined + 1 /\ UNCHANGED main
     \/ joined = size /\ main' = "leaving" /\ UNCHANGED joined
  /\ UNCHANGED <<hardware, settings, port, size, started, next, guarded, live, server, sessionVars,
                 conns, misuse>>

\* The block of main is left: ~CServer clears the map without the mutex, if there is a CServer.
Leave ==
  /\ \/ main = "leaving" /\ server = "alive" /\ main' = "clearing" /\ server' = "clearing"
     \/ main = "leaving" /\ server = "none" /\ main' = "statics" /\ UNCHANGED server
     \/ main = "clearing" /\ main' = "statics" /\ server' = "destroyed"
  /\ UNCHANGED <<hardware, settings, port, poolVars, sessionVars, conns, misuse>>

\* After main the pool goes; destroying a thread that was not joined terminates the program.
DestroyPool ==
  /\ main = "statics"
  /\ main' = IF joined < size THEN "aborted" ELSE "executor"
  /\ UNCHANGED <<hardware, settings, port, poolVars, server, sessionVars, conns, misuse>>

\* Then DBExecutor, and its connections with it, whose io_contexts were the pool's.
DestroyExecutor ==
  /\ main = "executor" /\ main' = "ended"
  /\ misuse' = IF conns > 0 THEN misuse \cup {"context"} ELSE misuse
  /\ UNCHANGED <<hardware, settings, port, poolVars, server, sessionVars, conns>>

-----------------------------------------------------------------------------

MainStep ==
  \/ LoadConfig \/ InitDatabases \/ GetPortFromConfig \/ Serve
  \/ Join \/ Leave \/ DestroyPool \/ DestroyExecutor

Next ==
  \/ MainStep \/ AcceptFails \/ Signal
  \/ \E s \in Sessions : Accept(s) \/ CreateConnection(s) \/ SessionEnds(s)
  \/ \E i \in live : IoThreadEnds(i)

Safety == Init /\ [][Next]_vars

(* Threads run; that a session ends, or a signal comes, is not promised. *)
Spec == Safety /\ WF_vars(MainStep) /\ WF_vars(\E i \in live : IoThreadEnds(i))

-----------------------------------------------------------------------------
(* Properties *)

Registered(p) == p \in Nat /\ 1024 <= p /\ p <= 65535

\* Every variable has its type.  Whatever is configured, the port is a registered one, there are no
\* more io threads than the machine runs at once, and sessions exist on io_contexts that exist.
ProcessTypeOK ==
  /\ main \in Places /\ server \in {"none", "alive", "clearing", "destroyed"}
  /\ port = 0 \/ Registered(port)
  /\ size \in 0 .. hardware /\ joined \in 0 .. size /\ live \subseteq 0 .. size - 1
  /\ started \in BOOLEAN /\ guarded \in BOOLEAN
  /\ next \in Nat /\ awaited \in Nat /\ (size > 0 => next < size /\ awaited < size)
  /\ session \in [Sessions -> {"none", "open", "ended"}] /\ home \in [Sessions -> Nat]
  /\ \A s \in Sessions : session[s] # "none" => home[s] < size
  /\ conns \in Nat /\ misuse \subseteq {"server", "map", "context"}

\* A shutdown by signal is orderly: no session outlives the server it points to or meets ~CServer in
\* the map, whose mutex the destructor does not take, and no io thread is left when the pool is
\* destroyed.  (Connections of a database pool are destroyed after their io_contexts all
\* the same.  After an exception, none of this holds: the io threads run on, and the pool's
\* destruction aborts the program.)
SignalEndsCleanly ==
  started /\ ~guarded =>
    /\ misuse \subseteq {"context"}
    /\ main # "aborted"
    /\ main = "ended" => live = {} /\ \A s \in Sessions : session[s] # "open"

\* A shutdown by signal ends if the sessions that are there do, which nothing makes them: Stop waits for
\* every one of them, and the handler of a second signal is not there.
ShutdownCompletes ==
  <>[](\A s \in Sessions : session[s] # "open") => (main = "joining" ~> main = "ended")
=============================================================================
