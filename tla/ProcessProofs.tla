---------------------------- MODULE ProcessProofs ----------------------------
(***************************************************************************)
(* Proofs about Process, for every machine, every configuration and any    *)
(* number of sessions.                                                     *)
(***************************************************************************)
EXTENDS Process, TLAPS

\* A configured number is cut to 16 bits.
LEMMA Uint16Type ==
  \A n \in Int : Uint16(n) \in Nat /\ Uint16(n) <= 65535
BY DEF Uint16

\* An index taken modulo a size is an index.
LEMMA ModType ==
  ASSUME NEW a \in Nat, NEW b \in Nat, b > 0
  PROVE  a % b \in Nat /\ a % b < b
OBVIOUS

\* The machine and its configuration, which never change.
SettingsOK ==
  /\ hardware \in Nat
  /\ settings \in [port : Int, threads : Int, pool : Nat]

\* The pool never has more threads than the hardware.
LEMMA PoolSizeType ==
  ASSUME SettingsOK
  PROVE  PoolSize \in 0 .. hardware
<1>1. settings.threads \in Int /\ hardware \in Nat
  BY DEF SettingsOK
<1>2. Uint16(settings.threads) \in Nat
  BY <1>1, Uint16Type
<1>3. hardware \div 2 \in 0 .. hardware
  BY <1>1
<1>4. CASE Uint16(settings.threads) \in 1 .. hardware
  BY <1>1, <1>2, <1>4 DEF PoolSize
<1>5. CASE Uint16(settings.threads) \notin 1 .. hardware
  BY <1>3, <1>5 DEF PoolSize
<1> QED BY <1>4, <1>5

\* The pool before it starts, while its guards are in place, and after.
PoolOK ==
  /\ ~started => size = 0 /\ live = {} /\ ~guarded /\ joined = 0
  /\ guarded => live = 0 .. size - 1 /\ joined = 0
  /\ \A i \in live : i >= joined
  /\ size > 0 => started
  /\ ~started => next = 0 /\ awaited = 0

\* The places where the main thread may be with a server, and with sessions that met its end.
Late == {"clearing", "statics", "executor", "ended", "aborted"}

MainOK ==
  /\ main = "loading" => ~started
  /\ main \in {"loading", "databases", "port", "serving"} =>
       server = "none" /\ (started => guarded) /\ \A s \in Sessions : session[s] = "none"
  /\ main = "accepting" => server = "alive" /\ size > 0 /\ guarded
  /\ server \in {"clearing", "destroyed"} \/ misuse # {} => main \in Late
  /\ main = "joining" => started /\ ~guarded
  /\ started /\ ~guarded => main \in {"joining", "leaving"} \cup Late
  /\ started /\ ~guarded /\ main # "joining" => joined = size
  /\ \A s \in Sessions : session[s] = "open" => home[s] \in live

\* What an orderly shutdown has not done.
CleanOK ==
  started /\ ~guarded =>
    /\ misuse \subseteq {"context"}
    /\ main # "aborted"

ProcessInv == SettingsOK /\ ProcessTypeOK /\ PoolOK /\ MainOK /\ CleanOK

\* What starting the pool and asking it for a context does.
LEMMA StartEffect ==
  ASSUME ProcessInv, StartPool
  PROVE  /\ started' = TRUE /\ (guarded' = guarded \/ (~started /\ guarded' = TRUE))
         /\ size' \in 0 .. hardware /\ joined' \in 0 .. size'
         /\ live' \subseteq 0 .. size' - 1 /\ live \subseteq live' /\ guarded' \in BOOLEAN
         /\ PoolOK'
         /\ started => UNCHANGED <<size, live, joined, guarded>>
<1>1. CASE started
  <2>1. UNCHANGED <<size, started, guarded, live, joined>>
    BY <1>1 DEF StartPool
  <2>2. /\ size \in 0 .. hardware /\ joined \in 0 .. size /\ live \subseteq 0 .. size - 1
        /\ guarded \in BOOLEAN /\ PoolOK
    BY DEF ProcessInv, ProcessTypeOK
  <2>3. PoolOK'
    BY <1>1, <2>1, <2>2 DEF PoolOK
  <2> QED BY <1>1, <2>1, <2>2, <2>3
<1>2. CASE ~started
  <2>1. PoolSize \in 0 .. hardware /\ hardware \in Nat /\ live = {}
    BY <1>2, PoolSizeType DEF SettingsOK, ProcessInv, PoolOK
  <2>2. /\ size' = PoolSize /\ started' = TRUE /\ guarded' = TRUE /\ live' = 0 .. PoolSize - 1
        /\ joined' = 0
    BY <1>2 DEF StartPool
  <2>3. /\ size' \in 0 .. hardware /\ joined' \in 0 .. size'
        /\ live' \subseteq 0 .. size' - 1 /\ live \subseteq live'
    BY <2>1, <2>2
  <2>4. PoolOK'
    BY <2>1, <2>2 DEF PoolOK
  <2> QED BY <1>2, <2>2, <2>3, <2>4
<1> QED BY <1>1, <1>2

\* The index stays an index.
LEMMA GetEffect ==
  ASSUME ProcessInv, NEW n \in Nat, GetIOServive(n)
  PROVE  /\ next' \in Nat /\ (size' > 0 => next' < size')
         /\ StartPool
<1>1. StartPool
  BY DEF GetIOServive
<1>2. next \in Nat /\ hardware \in Nat
  BY DEF ProcessInv, ProcessTypeOK, SettingsOK
<1>3. size' \in Nat
  BY <1>1, <1>2, StartEffect
<1>4. CASE size' = 0
  BY <1>1, <1>2, <1>4 DEF GetIOServive
<1>5. CASE size' # 0
  <2>1. next' = (next + n) % size'
    BY <1>5 DEF GetIOServive
  <2>2. next + n \in Nat /\ size' > 0
    BY <1>2, <1>3, <1>5
  <2> QED BY <1>1, <1>3, <2>1, <2>2, ModType
<1> QED BY <1>4, <1>5

-----------------------------------------------------------------------------
(* The steps, part by part *)

\* A started pool stays as it is, but for its end.
PoolSteps ==
  \/ UNCHANGED <<poolVars, awaited>>
  \/ StartPool /\ UNCHANGED <<next, awaited>>
  \/ \E n \in Nat : GetIOServive(n) /\ (UNCHANGED awaited \/ (awaited' = next /\ size > 0))
  \/ Signal
  \/ main = "joining" /\ Joins /\ joined' = joined + 1 /\ UNCHANGED <<size, started, next, guarded, live, awaited>>
  \/ \E i \in live : IoThreadEnds(i)

\* There is nothing else.
LEMMA PoolStep ==
  ASSUME ProcessInv, [Next]_vars
  PROVE  PoolSteps
<1>0. main = "accepting" => size > 0
  BY DEF ProcessInv, MainOK
<1>1. CASE InitDatabases
  <2>1. settings.pool \div 2 \in Nat
    BY DEF ProcessInv, SettingsOK
  <2>2. ASSUME settings.pool \div 2 > 0
        PROVE  \E n \in Nat : GetIOServive(n)
    BY <1>1, <2>1, <2>2 DEF InitDatabases
  <2>3. UNCHANGED awaited
    BY <1>1 DEF InitDatabases, sessionVars
  <2>4. ASSUME ~(settings.pool \div 2 > 0) PROVE UNCHANGED poolVars
    BY <1>1, <2>4 DEF InitDatabases
  <2> QED BY <2>2, <2>3, <2>4 DEF PoolSteps
<1>2. CASE Serve
  BY <1>0, <1>2 DEF Serve, AwaitClient, PoolSteps
<1>3. ASSUME NEW s \in Sessions, Accept(s) PROVE PoolSteps
  BY <1>0, <1>3 DEF Accept, AwaitClient, PoolSteps
<1>4. CASE AcceptFails
  BY <1>0, <1>4 DEF AcceptFails, AwaitClient, PoolSteps
<1>5. ASSUME NEW s \in Sessions, CreateConnection(s) PROVE PoolSteps
  BY <1>0, <1>5 DEF CreateConnection, sessionVars, PoolSteps
<1>6. CASE GetPortFromConfig
  BY <1>6 DEF GetPortFromConfig, sessionVars, PoolSteps
<1>7. CASE Join
  BY <1>7 DEF Join, sessionVars, poolVars, PoolSteps
<1>8. ASSUME NEW i \in live, IoThreadEnds(i) PROVE PoolSteps
  BY <1>8 DEF IoThreadEnds, sessionVars, PoolSteps
<1>9. CASE Signal
  BY <1>9 DEF Signal, sessionVars, PoolSteps
<1>10. CASE \/ LoadConfig \/ Leave \/ DestroyPool \/ DestroyExecutor \/ UNCHANGED vars
            \/ \E s \in Sessions : SessionEnds(s)
  BY <1>10 DEF LoadConfig, Leave, DestroyPool, DestroyExecutor, SessionEnds, sessionVars, vars, PoolSteps
<1> QED BY <1>1, <1>2, <1>3, <1>4, <1>5, <1>6, <1>7, <1>8, <1>9, <1>10 DEF Next, MainStep

\* The types of the pool.
PoolTypes ==
  /\ size \in 0 .. hardware /\ joined \in 0 .. size /\ live \subseteq 0 .. size - 1
  /\ started \in BOOLEAN /\ guarded \in BOOLEAN
  /\ next \in Nat /\ awaited \in Nat /\ (size > 0 => next < size /\ awaited < size)

\* Every step keeps the pool in order.
LEMMA PoolKept ==
  ASSUME ProcessInv, [Next]_vars
  PROVE  /\ PoolOK' /\ PoolTypes' /\ SettingsOK'
         /\ started => started' /\ size' = size
<1>0. /\ SettingsOK /\ PoolOK /\ PoolTypes /\ hardware \in Nat /\ size \in Nat
  BY DEF ProcessInv, ProcessTypeOK, PoolTypes, SettingsOK
<1>1. UNCHANGED <<hardware, settings>>
  BY DEF Next, MainStep, LoadConfig, InitDatabases, GetPortFromConfig,
         Serve, Accept, AcceptFails, CreateConnection, SessionEnds, IoThreadEnds, Signal, Join, Leave, DestroyPool,
         DestroyExecutor, vars
<1>2. SettingsOK'
  BY <1>0, <1>1 DEF SettingsOK
<1>3. CASE UNCHANGED <<poolVars, awaited>>
  BY <1>0, <1>1, <1>2, <1>3 DEF PoolOK, PoolTypes, poolVars
<1>4. CASE StartPool /\ UNCHANGED <<next, awaited>>
  BY <1>0, <1>1, <1>2, <1>4, StartEffect DEF PoolOK, PoolTypes
<1>5. ASSUME NEW n \in Nat, GetIOServive(n), UNCHANGED awaited \/ (awaited' = next /\ size > 0)
      PROVE  PoolOK' /\ PoolTypes' /\ (started => started' /\ size' = size)
  <2>1. next' \in Nat /\ (size' > 0 => next' < size') /\ StartPool
    BY <1>5, GetEffect
  <2>2. /\ started' = TRUE /\ size' \in 0 .. hardware /\ joined' \in 0 .. size'
        /\ live' \subseteq 0 .. size' - 1 /\ guarded' \in BOOLEAN /\ PoolOK'
        /\ started => UNCHANGED <<size, live, joined, guarded>>
    BY <2>1, StartEffect
  <2>3. awaited' \in Nat /\ (size' > 0 => awaited' < size')
    <3>1. CASE started
      BY <1>0, <1>5, <2>2, <3>1 DEF PoolTypes
    <3>2. CASE ~started
      <4>1. size = 0 /\ awaited = 0
        BY <1>0, <3>2 DEF PoolOK
      <4> QED BY <1>0, <1>5, <2>2, <4>1
    <3> QED BY <3>1, <3>2
  <2>4. PoolTypes'
    BY <1>1, <2>1, <2>2, <2>3 DEF PoolTypes
  <2> QED BY <2>2, <2>4
<1>6. CASE Signal
  BY <1>0, <1>1, <1>2, <1>6 DEF Signal, sessionVars, PoolOK, PoolTypes
<1>7. CASE main = "joining" /\ Joins /\ joined' = joined + 1 /\ UNCHANGED <<size, started, next, guarded, live, awaited>>
  BY <1>0, <1>1, <1>2, <1>7 DEF Joins, PoolOK, PoolTypes, ProcessInv, MainOK
<1>8. ASSUME NEW i \in live, IoThreadEnds(i) PROVE PoolOK' /\ PoolTypes' /\ (started => started' /\ size' = size)
  BY <1>0, <1>1, <1>8 DEF IoThreadEnds, sessionVars, PoolOK, PoolTypes
<1> QED BY <1>2, <1>3, <1>4, <1>5, <1>6, <1>7, <1>8, PoolStep DEF PoolSteps

\* Databases leave the rest alone.
LEMMA DatabasesEffect ==
  ASSUME ProcessInv, InitDatabases
  PROVE  /\ main = "databases" /\ main' \in {"crashed", "port", "leaving"}
         /\ conns' \in Nat
         /\ UNCHANGED <<hardware, settings, port, server, session, home, awaited, misuse>>
<1>1. settings.pool \div 2 \in Nat /\ conns \in Nat
  BY DEF ProcessInv, SettingsOK, ProcessTypeOK
<1>2. conns' \in Nat
  <2>1. CASE settings.pool \div 2 > 0
    <3>1. PICK n \in 1 .. settings.pool \div 2 :
                 conns' \in IF n = settings.pool \div 2 THEN {0, n} ELSE {0}
      BY <2>1 DEF InitDatabases
    <3>2. conns' = 0 \/ conns' = n
      BY <3>1
    <3> QED BY <1>1, <3>2
  <2>2. CASE ~(settings.pool \div 2 > 0)
    BY <1>1, <2>2 DEF InitDatabases
  <2> QED BY <2>1, <2>2
<1>3. main = "databases" /\ UNCHANGED <<hardware, settings, port, server, session, home, awaited, misuse>>
  BY DEF InitDatabases, sessionVars
<1>4. main' \in {"crashed", "port", "leaving"}
  <2>1. main' \in {"crashed"} \/ main' \in {"port", "leaving"}
    BY DEF InitDatabases
  <2> QED BY <2>1
<1> QED BY <1>2, <1>3, <1>4

\* Every step keeps the types of what is not the pool's.
LEMMA OtherTypes ==
  ASSUME ProcessInv, [Next]_vars
  PROVE  ProcessTypeOK'
<1>0. PoolTypes' /\ (started => size' = size) /\ ProcessTypeOK /\ PoolOK /\ MainOK /\ SettingsOK
  BY PoolKept DEF ProcessInv
<1>1. main' \in Places /\ server' \in {"none", "alive", "clearing", "destroyed"}
  <2>1. CASE InitDatabases
    BY <1>0, <2>1, DatabasesEffect DEF ProcessTypeOK, Places
  <2>2. CASE \/ LoadConfig \/ GetPortFromConfig \/ Serve \/ AcceptFails \/ Signal \/ Join \/ Leave
             \/ DestroyPool \/ DestroyExecutor \/ UNCHANGED vars
    BY <1>0, <2>2 DEF ProcessTypeOK, Places, LoadConfig, GetPortFromConfig, Serve, AcceptFails, Signal, Join,
                      Leave, DestroyPool, DestroyExecutor, vars
  <2>3. ASSUME NEW s \in Sessions, Accept(s) \/ CreateConnection(s) \/ SessionEnds(s)
        PROVE  main' \in Places /\ UNCHANGED server
    BY <1>0, <2>3 DEF ProcessTypeOK, Places, Accept, CreateConnection, SessionEnds
  <2>4. ASSUME NEW i \in live, IoThreadEnds(i) PROVE UNCHANGED <<main, server>>
    BY <2>4 DEF IoThreadEnds
  <2> QED BY <1>0, <2>1, <2>2, <2>3, <2>4 DEF Next, MainStep, ProcessTypeOK
<1>2. port' = 0 \/ Registered(port')
  <2>1. CASE GetPortFromConfig
    <3>1. settings.port \in Int
      BY <1>0 DEF SettingsOK
    <3>2. Uint16(settings.port) \in Nat /\ Uint16(settings.port) <= 65535
      BY <3>1, Uint16Type
    <3>3. port' = IF Uint16(settings.port) > 65535 \/ Uint16(settings.port) < 1024
                  THEN 19998 ELSE Uint16(settings.port)
      BY <2>1 DEF GetPortFromConfig
    <3>4. CASE Uint16(settings.port) > 65535 \/ Uint16(settings.port) < 1024
      BY <3>3, <3>4 DEF Registered
    <3>5. CASE ~(Uint16(settings.port) > 65535 \/ Uint16(settings.port) < 1024)
      BY <3>2, <3>3, <3>5 DEF Registered
    <3> QED BY <3>4, <3>5
  <2>2. CASE UNCHANGED port
    BY <1>0, <2>2 DEF ProcessTypeOK
  <2> QED BY <2>1, <2>2, DatabasesEffect
          DEF Next, MainStep, LoadConfig, Serve, Accept, AcceptFails, CreateConnection, SessionEnds,
              IoThreadEnds, Signal, Join, Leave, DestroyPool, DestroyExecutor, vars
<1>3. /\ session' \in [Sessions -> {"none", "open", "ended"}] /\ home' \in [Sessions -> Nat]
      /\ \A s \in Sessions : session'[s] # "none" => home'[s] < size'
  <2>1. ASSUME NEW s \in Sessions, Accept(s)
        PROVE  /\ session' \in [Sessions -> {"none", "open", "ended"}] /\ home' \in [Sessions -> Nat]
               /\ \A u \in Sessions : session'[u] # "none" => home'[u] < size'
    <3>1. size > 0 /\ started /\ awaited < size /\ awaited \in Nat /\ size' = size
      BY <1>0, <2>1 DEF Accept, MainOK, PoolOK, ProcessTypeOK
    <3> QED BY <1>0, <2>1, <3>1 DEF Accept, ProcessTypeOK
  <2>2. ASSUME NEW s \in Sessions, SessionEnds(s)
        PROVE  /\ session' \in [Sessions -> {"none", "open", "ended"}] /\ home' \in [Sessions -> Nat]
               /\ \A u \in Sessions : session'[u] # "none" => home'[u] < size'
    BY <1>0, <2>2 DEF SessionEnds, Running, poolVars, ProcessTypeOK
  <2>3. CASE UNCHANGED <<session, home>>
    <3>1. CASE started
      BY <1>0, <2>3, <3>1 DEF ProcessTypeOK
    <3>2. CASE ~started
      <4>1. \A s \in Sessions : session[s] = "none"
        BY <1>0, <3>2 DEF PoolOK, ProcessTypeOK
      <4> QED BY <1>0, <2>3, <4>1 DEF ProcessTypeOK
    <3> QED BY <3>1, <3>2
  <2> QED BY <2>1, <2>2, <2>3, DatabasesEffect
          DEF Next, MainStep, LoadConfig, GetPortFromConfig, Serve, AcceptFails, CreateConnection,
              IoThreadEnds, Signal, Join, Leave, DestroyPool, DestroyExecutor, vars, sessionVars
<1>4. conns' \in Nat
  <2>1. ASSUME NEW s \in Sessions, CreateConnection(s) PROVE conns' \in Nat
    BY <1>0, <2>1 DEF CreateConnection, ProcessTypeOK
  <2>2. CASE UNCHANGED conns
    BY <1>0, <2>2 DEF ProcessTypeOK
  <2> QED BY <2>1, <2>2, DatabasesEffect
          DEF Next, MainStep, LoadConfig, GetPortFromConfig, Serve, Accept, AcceptFails, SessionEnds,
              IoThreadEnds, Signal, Join, Leave, DestroyPool, DestroyExecutor, vars
<1>5. misuse' \subseteq {"server", "map", "context"}
  <2>1. ASSUME NEW s \in Sessions, SessionEnds(s) PROVE misuse' \subseteq {"server", "map", "context"}
    BY <1>0, <2>1 DEF SessionEnds, ProcessTypeOK
  <2>2. CASE DestroyExecutor
    BY <1>0, <2>2 DEF DestroyExecutor, ProcessTypeOK
  <2>3. CASE UNCHANGED misuse
    BY <1>0, <2>3 DEF ProcessTypeOK
  <2> QED BY <2>1, <2>2, <2>3, DatabasesEffect
          DEF Next, MainStep, LoadConfig, GetPortFromConfig, Serve, Accept, AcceptFails, CreateConnection,
              IoThreadEnds, Signal, Join, Leave, DestroyPool, vars
<1>6. PoolTypes'
  BY <1>0
<1> QED BY <1>1, <1>2, <1>3, <1>4, <1>5, <1>6 DEF ProcessTypeOK, PoolTypes

\* Starting the pool puts the guards in place.
LEMMA StartGuards ==
  ASSUME ProcessInv, UNCHANGED poolVars \/ StartPool
  PROVE  /\ (started => guarded) => (started' => guarded')
         /\ started => UNCHANGED <<started, size, live, joined, guarded>>
<1>1. CASE started
  BY <1>1 DEF StartPool, poolVars
<1>2. CASE ~started
  BY <1>2 DEF StartPool, poolVars
<1> QED BY <1>1, <1>2

\* The steps of main up to the server keep its course.
LEMMA StartingCourse ==
  ASSUME ProcessInv, LoadConfig \/ InitDatabases \/ GetPortFromConfig \/ Serve
  PROVE  MainOK' /\ (started' => guarded')
<1>0. MainOK /\ PoolOK /\ ProcessTypeOK
  BY DEF ProcessInv
<1>1. main \in {"loading", "databases", "port", "serving"}
  BY DatabasesEffect DEF LoadConfig, GetPortFromConfig, Serve
<1>2. /\ server = "none" /\ (started => guarded) /\ (\A s \in Sessions : session[s] = "none")
      /\ misuse = {}
  BY <1>0, <1>1 DEF MainOK, Late
<1>3. UNCHANGED poolVars \/ StartPool
  <2>1. CASE InitDatabases
    <3>1. CASE settings.pool \div 2 > 0
      BY <2>1, <3>1 DEF InitDatabases, GetIOServive
    <3>2. CASE ~(settings.pool \div 2 > 0)
      BY <2>1, <3>2 DEF InitDatabases
    <3> QED BY <3>1, <3>2
  <2>2. CASE LoadConfig \/ GetPortFromConfig \/ Serve
    BY <2>2 DEF LoadConfig, GetPortFromConfig, Serve, AwaitClient, GetIOServive
  <2> QED BY <2>1, <2>2
<1>4. started' => guarded'
  BY <1>2, <1>3, StartGuards
<1>5. UNCHANGED <<session, misuse>>
  BY DatabasesEffect DEF LoadConfig, GetPortFromConfig, Serve, sessionVars
<1>6. CASE LoadConfig
  BY <1>0, <1>2, <1>4, <1>5, <1>6 DEF LoadConfig, MainOK, poolVars, Late
<1>7. CASE main' \in {"crashed", "port", "serving", "leaving"} /\ server' = server
  BY <1>0, <1>2, <1>4, <1>5, <1>7 DEF MainOK, Late
<1>8. CASE Serve /\ main' = "accepting"
  <2>1. size > 0 /\ server' = "alive" /\ started
    BY <1>0, <1>8 DEF Serve, PoolOK
  <2>2. size' = size /\ guarded'
    BY <1>2, <1>3, <2>1, StartGuards
  <2> QED BY <1>2, <1>5, <1>8, <2>1, <2>2 DEF MainOK, Late
<1> QED BY <1>4, <1>6, <1>7, <1>8, DatabasesEffect DEF GetPortFromConfig, Serve

\* Sessions and io threads keep the main thread's course.
LEMMA ServingCourse ==
  ASSUME ProcessInv,
         \/ AcceptFails
         \/ \E s \in Sessions : Accept(s) \/ CreateConnection(s) \/ SessionEnds(s)
         \/ \E i \in live : IoThreadEnds(i)
  PROVE  MainOK'
<1>0. MainOK /\ PoolOK /\ ProcessTypeOK
  BY DEF ProcessInv
<1>1. CASE AcceptFails
  <2>1. started /\ main = "accepting"
    BY <1>0, <1>1 DEF AcceptFails, MainOK, PoolOK
  <2>2. UNCHANGED <<started, size, live, joined, guarded>>
    BY <1>1, <2>1, StartGuards DEF AcceptFails, AwaitClient, GetIOServive
  <2> QED BY <1>0, <1>1, <2>2 DEF AcceptFails, MainOK, Late
<1>2. ASSUME NEW s \in Sessions, Accept(s) PROVE MainOK'
  <2>1. /\ started /\ guarded /\ size > 0 /\ main = "accepting" /\ server = "alive" /\ misuse = {}
        /\ live = 0 .. size - 1
    BY <1>0, <1>2 DEF Accept, MainOK, PoolOK, Late
  <2>2. UNCHANGED <<started, size, live, joined, guarded>>
    BY <1>2, <2>1, StartGuards DEF Accept, AwaitClient, GetIOServive, poolVars
  <2>3. awaited \in live
    BY <1>0, <2>1 DEF ProcessTypeOK
  <2>4. \A u \in Sessions : session'[u] = "open" => home'[u] \in live'
    BY <1>0, <1>2, <2>2, <2>3 DEF Accept, MainOK, ProcessTypeOK
  <2>5. main' \in {"accepting", "leaving"} /\ UNCHANGED <<server, misuse>>
    BY <1>2, <2>1 DEF Accept
  <2> QED BY <2>1, <2>2, <2>4, <2>5 DEF MainOK, Late
<1>3. ASSUME NEW s \in Sessions, CreateConnection(s) PROVE MainOK'
  <2>1. started
    BY <1>0, <1>3 DEF CreateConnection, Running, PoolOK
  <2>2. UNCHANGED <<started, size, live, joined, guarded>>
    BY <1>3, <2>1, StartGuards DEF CreateConnection, GetIOServive
  <2> QED BY <1>0, <1>3, <2>2 DEF CreateConnection, sessionVars, MainOK, Late
<1>4. ASSUME NEW s \in Sessions, SessionEnds(s) PROVE MainOK'
  <2>1. UNCHANGED <<main, started, size, live, joined, guarded, server, home>>
    BY <1>4 DEF SessionEnds, poolVars
  <2>2. \A u \in Sessions : session'[u] = "open" => session[u] = "open"
    BY <1>0, <1>4 DEF SessionEnds, ProcessTypeOK
  <2>3. misuse' = misuse \/ server \in {"clearing", "destroyed"}
    BY <1>4 DEF SessionEnds
  <2>4. session[s] = "open"
    BY <1>4 DEF SessionEnds, Running
  <2>5. main \notin {"loading", "databases", "port", "serving"}
    BY <1>0, <2>4 DEF MainOK
  <2> QED BY <1>0, <2>1, <2>2, <2>3, <2>5 DEF MainOK
<1>5. ASSUME NEW i \in live, IoThreadEnds(i) PROVE MainOK'
  BY <1>0, <1>5 DEF IoThreadEnds, sessionVars, MainOK, Late
<1> QED BY <1>1, <1>2, <1>3, <1>4, <1>5

\* The steps of the shutdown keep the main thread's course.
LEMMA EndingCourse ==
  ASSUME ProcessInv, Signal \/ Join \/ Leave \/ DestroyPool \/ DestroyExecutor
  PROVE  MainOK'
<1>0. MainOK /\ PoolOK /\ ProcessTypeOK
  BY DEF ProcessInv
<1>1. CASE Signal
  BY <1>0, <1>1 DEF Signal, sessionVars, MainOK, PoolOK, Late
<1>2. CASE Join
  BY <1>0, <1>2 DEF Join, sessionVars, MainOK, Late
<1>3. CASE Leave
  BY <1>0, <1>3 DEF Leave, poolVars, sessionVars, MainOK, Late
<1>4. CASE DestroyPool
  BY <1>0, <1>4 DEF DestroyPool, poolVars, sessionVars, MainOK, Late
<1>5. CASE DestroyExecutor
  BY <1>0, <1>5 DEF DestroyExecutor, poolVars, sessionVars, MainOK, Late
<1> QED BY <1>1, <1>2, <1>3, <1>4, <1>5

-----------------------------------------------------------------------------
(* An orderly shutdown *)

\* Once the pool is joined no io thread is left, and no session runs.
LEMMA NobodyRuns ==
  ASSUME ProcessInv, started, ~guarded, main # "joining"
  PROVE  /\ joined = size /\ live = {} /\ \A s \in Sessions : session[s] # "open"
<1>1. joined = size
  BY DEF ProcessInv, MainOK
<1>2. live = {}
  BY <1>1 DEF ProcessInv, PoolOK, ProcessTypeOK, SettingsOK
<1> QED BY <1>1, <1>2 DEF ProcessInv, MainOK

\* Every step of a shutdown is orderly.
LEMMA CleanKept ==
  ASSUME ProcessInv, [Next]_vars
  PROVE  CleanOK'
<1>0. MainOK /\ CleanOK /\ PoolOK /\ ProcessTypeOK
  BY DEF ProcessInv
<1>1. CASE LoadConfig \/ InitDatabases \/ GetPortFromConfig \/ Serve
  BY <1>1, StartingCourse DEF CleanOK
<1>2. CASE AcceptFails \/ \E s \in Sessions : Accept(s)
  <2>1. started /\ guarded
    BY <1>0, <1>2 DEF AcceptFails, Accept, MainOK, PoolOK
  <2>2. guarded'
    BY <1>2, <2>1, StartGuards DEF AcceptFails, Accept, AwaitClient, GetIOServive, poolVars
  <2> QED BY <2>2 DEF CleanOK
<1>3. ASSUME NEW s \in Sessions, CreateConnection(s) PROVE CleanOK'
  <2>1. started
    BY <1>0, <1>3 DEF CreateConnection, Running, PoolOK
  <2>2. UNCHANGED <<started, guarded>>
    BY <1>3, <2>1, StartGuards DEF CreateConnection, GetIOServive
  <2>3. conns' > 0 /\ UNCHANGED <<main, misuse>>
    BY <1>0, <1>3 DEF CreateConnection, ProcessTypeOK
  <2> QED BY <1>0, <2>2, <2>3 DEF CleanOK
<1>4. ASSUME NEW s \in Sessions, SessionEnds(s) PROVE CleanOK'
  <2>1. UNCHANGED <<main, started, guarded, conns>>
    BY <1>4 DEF SessionEnds, poolVars
  <2>2. ASSUME started, ~guarded PROVE misuse' = misuse
    <3>1. main = "joining"
      BY <1>4, <2>2, NobodyRuns DEF SessionEnds, Running
    <3>2. server \notin {"clearing", "destroyed"}
      BY <1>0, <3>1 DEF MainOK, Late
    <3> QED BY <1>4, <3>2 DEF SessionEnds
  <2> QED BY <1>0, <2>1, <2>2 DEF CleanOK
<1>5. CASE Signal
  BY <1>0, <1>5 DEF Signal, MainOK, CleanOK, Late
<1>6. CASE DestroyPool
  <2>1. ASSUME started, ~guarded PROVE joined = size
    BY <1>6, <2>1, NobodyRuns DEF DestroyPool
  <2>2. main' = IF joined < size THEN "aborted" ELSE "executor"
    BY <1>6 DEF DestroyPool
  <2>3. UNCHANGED <<started, guarded, conns, misuse>>
    BY <1>6 DEF DestroyPool, poolVars
  <2>4. joined = size => main' # "aborted"
    BY <1>0, <2>2 DEF ProcessTypeOK
  <2> QED BY <1>0, <2>1, <2>3, <2>4 DEF CleanOK
<1>7. CASE DestroyExecutor
  BY <1>0, <1>7 DEF DestroyExecutor, poolVars, CleanOK
<1>8. CASE Join \/ Leave \/ UNCHANGED vars \/ \E i \in live : IoThreadEnds(i)
  BY <1>0, <1>8 DEF Join, Leave, IoThreadEnds, vars, poolVars, CleanOK
<1> QED BY <1>1, <1>2, <1>3, <1>4, <1>5, <1>6, <1>7, <1>8 DEF Next, MainStep

\* The invariant holds at the start and in every step.
LEMMA ProcessCorrect == Safety => []ProcessInv
<1>1. Init => ProcessInv
  <2> SUFFICES ASSUME Init PROVE ProcessInv
    OBVIOUS
  <2>1. SettingsOK
    BY SettingsAssumption DEF Init, SettingsOK
  <2>2. ProcessTypeOK
    <3>1. /\ hardware \in Nat /\ size = 0 /\ joined = 0 /\ live = {} /\ next = 0 /\ awaited = 0 /\ port = 0
          /\ conns = 0 /\ misuse = {} /\ main = "loading" /\ server = "none"
      BY <2>1 DEF Init, SettingsOK
    <3>2. started \in BOOLEAN /\ guarded \in BOOLEAN
      BY DEF Init
    <3>3. /\ session \in [Sessions -> {"none", "open", "ended"}] /\ home \in [Sessions -> Nat]
          /\ \A s \in Sessions : session[s] = "none"
      BY DEF Init
    <3> QED BY <3>1, <3>2, <3>3 DEF ProcessTypeOK, Places
  <2>3. PoolOK /\ MainOK /\ CleanOK
    BY DEF Init, PoolOK, MainOK, CleanOK, Late
  <2> QED BY <2>1, <2>2, <2>3 DEF ProcessInv
<1>2. ProcessInv /\ [Next]_vars => ProcessInv'
  <2> SUFFICES ASSUME ProcessInv, [Next]_vars PROVE ProcessInv'
    OBVIOUS
  <2>1. MainOK'
    <3>1. CASE UNCHANGED vars
      BY <3>1 DEF ProcessInv, MainOK, vars, poolVars, sessionVars
    <3> QED BY <3>1, StartingCourse, ServingCourse, EndingCourse DEF Next, MainStep
  <2> QED BY <2>1, PoolKept, OtherTypes, CleanKept DEF ProcessInv
<1> QED BY <1>1, <1>2, PTL DEF Safety

\* Whatever is configured, the types hold, with the port, the threads and the contexts in range.
THEOREM ProcessTypes == Safety => []ProcessTypeOK
<1>1. ProcessInv => ProcessTypeOK
  BY DEF ProcessInv
<1> QED BY <1>1, ProcessCorrect, PTL

\* A shutdown by signal joins the io threads before it destroys what they use.
THEOREM SignalEndsCleanlyAlways == Safety => []SignalEndsCleanly
<1>1. ProcessInv => SignalEndsCleanly
  BY NobodyRuns DEF ProcessInv, CleanOK, SignalEndsCleanly
<1> QED BY <1>1, ProcessCorrect, PTL
-----------------------------------------------------------------------------
(* When the program divides by zero *)

\* The pool's size follows from the machine and its configuration, which never change, and the
\* pool has been started where its size is divided by.
SizeFollows ==
  /\ started => size = PoolSize
  /\ main \in {"serving", "crashed"} => started
  /\ main = "crashed" => size = 0

\* The settings stay, and a pool that is started is not started again.
LEMMA PoolStays ==
  ASSUME SizeFollows, [Next]_vars
  PROVE  started' => size' = PoolSize'
<1>1. UNCHANGED <<hardware, settings>> /\ (StartPool \/ UNCHANGED <<started, size>>)
  BY DEF Next, MainStep, LoadConfig, InitDatabases, GetPortFromConfig, Serve, Join, Leave, DestroyPool,
         DestroyExecutor, Accept, AcceptFails, CreateConnection, SessionEnds, IoThreadEnds, Signal,
         AwaitClient, GetIOServive, vars, poolVars
<1>2. PoolSize' = PoolSize
  BY <1>1 DEF PoolSize
<1>3. CASE StartPool
  BY <1>2, <1>3 DEF StartPool, SizeFollows
<1>4. CASE UNCHANGED <<started, size>>
  BY <1>2, <1>4 DEF SizeFollows
<1> QED BY <1>1, <1>3, <1>4

\* Every step keeps this.
LEMMA SizeStep ==
  ASSUME SizeFollows, [Next]_vars
  PROVE  SizeFollows'
<1>0. started' => size' = PoolSize'
  BY PoolStays
<1>1. CASE InitDatabases
  <2>1. main' \in {"crashed", "port", "leaving"} /\ (main' = "crashed" => started' /\ size' = 0)
    BY <1>1 DEF InitDatabases
  <2> QED BY <1>0, <2>1 DEF SizeFollows
<1>2. CASE GetPortFromConfig
  BY <1>0, <1>2 DEF GetPortFromConfig, StartPool, SizeFollows
<1>3. CASE Serve
  <2>1. CASE main' = "leaving" \/ main' = "accepting"
    BY <1>0, <2>1 DEF SizeFollows
  <2>2. CASE size = 0 /\ main' = "crashed" /\ UNCHANGED poolVars
    BY <1>0, <1>3, <2>2 DEF Serve, poolVars, SizeFollows
  <2> QED BY <1>3, <2>1, <2>2 DEF Serve
<1>4. CASE main' \notin {"serving", "crashed"}
  BY <1>0, <1>4 DEF SizeFollows
<1>5. CASE UNCHANGED <<main, started, size>>
  BY <1>0, <1>5 DEF SizeFollows
<1>6. CASE \/ LoadConfig \/ Join \/ Leave \/ DestroyPool \/ DestroyExecutor \/ AcceptFails \/ Signal
           \/ \E s \in Sessions : Accept(s)
  BY <1>4, <1>6 DEF LoadConfig, Join, Leave, DestroyPool, DestroyExecutor, AcceptFails, Signal, Accept
<1>7. CASE \/ UNCHANGED vars \/ \E s \in Sessions : CreateConnection(s) \/ SessionEnds(s)
           \/ \E i \in live : IoThreadEnds(i)
  <2>1. (UNCHANGED main /\ main # "crashed") \/ UNCHANGED <<main, started, size>>
    BY <1>7 DEF CreateConnection, SessionEnds, IoThreadEnds, Running, vars, poolVars
  <2>2. StartPool \/ UNCHANGED <<started, size>>
    BY <1>7 DEF CreateConnection, SessionEnds, IoThreadEnds, GetIOServive, vars, poolVars
  <2>3. started => UNCHANGED <<started, size>>
    BY <2>2 DEF StartPool
  <2>4. CASE UNCHANGED main /\ main # "crashed"
    BY <1>0, <2>3, <2>4 DEF SizeFollows
  <2> QED BY <1>5, <2>1, <2>4
<1> QED BY <1>1, <1>2, <1>3, <1>6, <1>7 DEF Next, MainStep

\* The remainder by _maxSize is undefined only where hardware_concurrency reports no more than one
\* thread (0 when it cannot tell) and thread_pool_size, cut to 16 bits, asks for none or for more.
CrashCause == main = "crashed" => hardware < 2 /\ Uint16(settings.threads) \notin 1 .. hardware

\* No machine with two threads or more is brought down by its configuration, whatever that says, and
\* one with a single thread only by a thread_pool_size other than 1.
THEOREM CrashCauseAlways == Safety => []CrashCause
<1>1. Init => SizeFollows
  BY DEF Init, SizeFollows
<1>2. SizeFollows /\ [Next]_vars => SizeFollows'
  BY SizeStep
<1>3. ProcessInv /\ SizeFollows => CrashCause
  <2> SUFFICES ASSUME SettingsOK, PoolSize = 0 PROVE hardware < 2 /\ Uint16(settings.threads) \notin 1 .. hardware
    BY DEF ProcessInv, SizeFollows, CrashCause
  <2>1. hardware \in Nat
    BY DEF SettingsOK
  <2>2. Uint16(settings.threads) \notin 1 .. hardware
    BY DEF PoolSize
  <2>3. hardware \div 2 = 0
    BY <2>2 DEF PoolSize
  <2> QED BY <2>1, <2>2, <2>3
<1> QED BY <1>1, <1>2, <1>3, ProcessCorrect, PTL DEF Safety
=============================================================================
