-------------------------- MODULE LifecycleProofs --------------------------
(***************************************************************************)
(* Safety of Lifecycle for any number of workers, requests and signals.    *)
(* The inductive invariant says, for each place of main, which objects are *)
(* alive and which threads may still run.                                  *)
(***************************************************************************)
EXTENDS Lifecycle, Timer, TLAPS

\* The places of main, grouped by what has been started and joined there.
NoWorkers == {"log boot", "db", "http", "log failed", "failed"}
NoThreads == NoWorkers \cup {"routes", "hub", "threads"}
Up == {"sleep", "log up", "loop", "log stop", "hub stop io"}
DbClosed == {"statics", "log late", "late join"}
PoolGone == {"db end"} \cup DbClosed
AllJoined == {"log closed", "services", "members", "pool"} \cup PoolGone
HttpGone == {"join launcher"} \cup AllJoined
HubLeft == {"log hub", "http stop", "log http", "join http"} \cup HttpGone
IoStopped == {"hub join"} \cup HubLeft

\* An object lives as long as main is between its construction and its end.
ObjectsAlive ==
    /\ main \in {"http", "routes", "hub", "threads"} \cup Up \cup (IoStopped \ DbClosed)
        => "db" \in alive
    /\ main \in {"threads"} \cup Up \cup IoStopped => "hub" \in alive

\* The threads of the two servers run only between their creation and their
\* join.  Once main has passed stop() the hub is in a handler only if stop()
\* overlooked its thread, and then ~WebSocketServer still has to join it.
ThreadsMatch ==
    /\ main \in NoThreads =>
        http = "none" /\ launcher = "none" /\ hub = "none" /\ ~joinable /\ queue = <<>>
    /\ main \in HttpGone => http = "ended"
    /\ main \in AllJoined => launcher = "ended"
    /\ main \in IoStopped => io_stopped
    /\ launcher \in {"none", "new", "launch"} => hub = "none" /\ ~joinable
    /\ launcher = "assign" => hub # "none" /\ ~joinable
    /\ launcher = "ended" /\ ~joinable => hub = "returned"
    /\ main \in HubLeft /\ InHandler => overlooked

\* A worker leaves during the pool's destructor and not before the queue is
\* empty.
WorkersMatch ==
    /\ main \in NoWorkers => \A w \in Worker : worker[w] = "none"
    /\ \A w \in Worker : worker[w] = "exited" =>
        main \in {"pool", "exited"} \cup PoolGone /\ queue = <<>>
    /\ main \in PoolGone => \A w \in Worker : worker[w] = "exited"

IInv ==
    /\ TypeOK
    /\ ObjectsAlive
    /\ ThreadsMatch
    /\ WorkersMatch
    /\ DbAndHubOutliveUsers
    /\ NothingCutOff

-----------------------------------------------------------------------------

\* Nothing is constructed at first.
LEMMA InitIInv == Init => IInv
  <1> SUFFICES ASSUME Init
               PROVE  IInv
    OBVIOUS
  <1>1. TypeOK
    <2>1. queue \in Seq(Request) /\ handler \in [Thread -> Seq(Frame)]
      <3>1. <<>> \in Seq(Request) /\ <<>> \in Seq(Frame)
        OBVIOUS
      <3> QED
        BY <3>1 DEF Init
    <2>2. signals \in 0..MaxSignals
      <3>1. signals = 0
        BY DEF Init
      <3> QED
        BY <3>1, LifecycleAssumption
    <2> QED
      BY <2>1, <2>2 DEF Init, TypeOK, Place
  <1>2. /\ main = "log boot" /\ http = "none" /\ launcher = "none" /\ hub = "none"
        /\ ~joinable /\ queue = <<>> /\ misused = {}
    BY DEF Init
  <1>3. \A w \in Worker : worker[w] = "none"
    BY DEF Init
  <1>4. ObjectsAlive /\ ThreadsMatch /\ WorkersMatch
    BY <1>2, <1>3 DEF ObjectsAlive, ThreadsMatch, WorkersMatch, NoWorkers, NoThreads,
       Up, DbClosed, PoolGone, AllJoined, HttpGone, HubLeft, IoStopped
  <1>5. DbAndHubOutliveUsers /\ NothingCutOff
    BY <1>2 DEF DbAndHubOutliveUsers, NothingCutOff
  <1> QED
    BY <1>1, <1>4, <1>5 DEF IInv

\* A handler that is pushed, moves or returns leaves a stack of handlers.
LEMMA FramesStay ==
  ASSUME TypeOK, NEW t \in Thread,
         (\E s \in Sig : Deliver(t, s)) \/ HandlerLocks(t) \/ HandlerReturns(t)
  PROVE  handler' \in [Thread -> Seq(Frame)]
  <1>1. handler[t] \in Seq(Frame)
    BY DEF TypeOK
  <1>2. ASSUME NEW s \in Sig, Deliver(t, s)
        PROVE  handler' \in [Thread -> Seq(Frame)]
    <2>1. <<[sig |-> s, pc |-> "log"]>> \o handler[t] \in Seq(Frame)
      <3>1. [sig |-> s, pc |-> "log"] \in Frame
        BY DEF Frame
      <3> QED
        BY <1>1, <3>1
    <2> QED
      BY <1>2, <2>1 DEF TypeOK, Deliver
  <1>3. CASE HandlerLocks(t)
    <2>1. handler[t] # <<>>
      BY <1>3 DEF HandlerLocks, InSignal
    <2>2. Head(handler[t]) \in Frame /\ Tail(handler[t]) \in Seq(Frame)
      BY <1>1, <2>1
    <2>3. [Head(handler[t]) EXCEPT !.pc = "locked"] \in Frame
      BY <2>2 DEF Frame
    <2>4. <<[Head(handler[t]) EXCEPT !.pc = "locked"]>> \o Tail(handler[t]) \in Seq(Frame)
      BY <2>2, <2>3
    <2> QED
      BY <1>3, <2>4 DEF TypeOK, HandlerLocks
  <1>4. CASE HandlerReturns(t)
    <2>1. handler[t] # <<>>
      BY <1>4 DEF HandlerReturns, InSignal
    <2>2. Tail(handler[t]) \in Seq(Frame)
      BY <1>1, <2>1
    <2> QED
      BY <1>4, <2>2 DEF TypeOK, HandlerReturns
  <1> QED
    BY <1>2, <1>3, <1>4

\* Signals and the mutex concern nothing the invariant relates.
LEMMA SignalIInv ==
  ASSUME IInv, NEW t \in Thread, NEW s \in Sig,
         Signal(s) \/ Deliver(t, s) \/ HandlerLocks(t) \/ HandlerReturns(t) \/ Locks(t)
  PROVE  IInv'
  <1>1. UNCHANGED signalRest
    BY DEF Signal, Deliver, HandlerLocks, HandlerReturns, Locks
  <1>2. handler' \in [Thread -> Seq(Frame)]
    <2>1. TypeOK
      BY DEF IInv
    <2>2. CASE Signal(s) \/ Locks(t)
      BY <2>1, <2>2 DEF Signal, Locks, signalVars, TypeOK
    <2> QED
      BY <2>1, <2>2, FramesStay
  <1>3. signals' \in 0..MaxSignals
    BY LifecycleAssumption DEF IInv, TypeOK, Signal, Deliver, HandlerLocks, HandlerReturns, Locks, signalVars
  <1>4. /\ pending' \subseteq Sig /\ running' \in BOOLEAN
        /\ mutex' \in {"nobody"} \cup Thread
    BY DEF IInv, TypeOK, Signal, Deliver, HandlerLocks, HandlerReturns, Locks, signalVars
  <1>5. TypeOK'
    BY <1>1, <1>2, <1>3, <1>4 DEF IInv, TypeOK, signalRest, httpVars, poolVars, hubVars
  <1>6. ObjectsAlive' /\ ThreadsMatch' /\ WorkersMatch'
    BY <1>1 DEF IInv, ObjectsAlive, ThreadsMatch, WorkersMatch, InHandler, signalRest, httpVars,
       poolVars, hubVars
  <1>7. DbAndHubOutliveUsers' /\ NothingCutOff'
    BY <1>1 DEF IInv, DbAndHubOutliveUsers, NothingCutOff, Busy, signalRest, httpVars, poolVars, hubVars
  <1> QED
    BY <1>5, <1>6, <1>7 DEF IInv

\* Steps of main that start and end no thread: what its new place asks for
\* was so at the old one.
LEMMA MainIInv ==
  ASSUME IInv,
         \/ MainUnlocks \/ OpenDb \/ CreateServices \/ CreateHub
         \/ Sleep \/ LeaveLoop \/ DestroyServices \/ DestroyMembers \/ DestroyDb
         \/ StopLate \/ Fail
  PROVE  IInv'
  <1> USE DEF MainUnlocks, Unlocks, Writes, OpenDb, CreateServices, CreateHub, Sleep, LeaveLoop,
              DestroyServices, DestroyMembers, DestroyDb, StopLate, Fail, At
  <1>0. "main" \notin Worker
    BY LifecycleAssumption
  <1>1. /\ UNCHANGED <<signalVars, httpVars, poolVars, hubVars, misused>>
        /\ main # main'
    BY <1>0 DEF LogPlace, After
  <1>2. TypeOK'
    <2>1. mutex' \in {"nobody"} \cup Thread /\ alive' \subseteq Object
      BY DEF IInv, TypeOK, Object
    <2>2. main' \in Place
      BY <1>0 DEF Place, LogPlace, After
    <2> HIDE DEF MainUnlocks, Unlocks, Writes, OpenDb, CreateServices, CreateHub, Sleep, LeaveLoop,
                 DestroyServices, DestroyMembers, DestroyDb, StopLate, Fail
    <2> QED
      BY <1>1, <2>1, <2>2 DEF IInv, TypeOK, signalVars, httpVars, poolVars, hubVars
  <1>3. Busy' = Busy /\ queue' = queue
    BY <1>1 DEF Busy, poolVars
  <1>4. DbAndHubOutliveUsers'
    BY <1>1 DEF IInv, DbAndHubOutliveUsers, hubVars
  <1>5. ObjectsAlive'
    BY <1>0 DEF IInv, ObjectsAlive, LogPlace, After, NoWorkers, NoThreads,
           Up, DbClosed, PoolGone, AllJoined, HttpGone, HubLeft, IoStopped
  <1>6. ThreadsMatch' /\ WorkersMatch'
    BY <1>0, <1>1 DEF IInv, ThreadsMatch, WorkersMatch, InHandler, LogPlace, After, NoWorkers, NoThreads,
           Up, DbClosed, PoolGone, AllJoined, HttpGone, HubLeft, IoStopped, httpVars, poolVars, hubVars
  <1>7. NothingCutOff'
    <2>1. CASE main' \in {"db end", "statics", "log late", "late join"}
      BY <1>0, <1>1, <1>3, <2>1 DEF IInv, NothingCutOff, LogPlace, After, httpVars, hubVars
    <2>2. CASE main' = "exited"
      <3>1. main = "failed"
        BY <1>0, <2>2 DEF LogPlace, After
      <3>2. /\ http = "none" /\ launcher = "none" /\ hub = "none" /\ ~joinable /\ queue = <<>>
            /\ \A w \in Worker : worker[w] = "none"
        BY <3>1 DEF IInv, ThreadsMatch, WorkersMatch, NoWorkers, NoThreads
      <3>3. Busy = {}
        BY <3>2 DEF Busy
      <3> QED
        BY <1>1, <1>3, <2>2, <3>2, <3>3 DEF NothingCutOff, httpVars, poolVars, hubVars
    <2>3. CASE main' \notin {"db end", "statics", "log late", "late join", "exited"}
      BY <2>3 DEF NothingCutOff
    <2> QED
      BY <2>1, <2>2, <2>3
  <1> QED
    BY <1>2, <1>4, <1>5, <1>6, <1>7 DEF IInv

\* The steps that start threads: there were none before.
LEMMA StartIInv ==
  ASSUME IInv, CreateHttp \/ CreateThreads
  PROVE  IInv'
  <1>1. CASE CreateHttp
    <2> USE <1>1 DEF CreateHttp, At
    <2>1. /\ main = "http" /\ main' \in {"routes", "log failed"}
          /\ \A w \in Worker : worker[w] = "none"
      BY DEF IInv, WorkersMatch, NoWorkers
    <2>8. /\ UNCHANGED <<handler, pending, signals, running, mutex, http, http_running>>
          /\ UNCHANGED <<queue, accepted, launcher, hub, joinable, io_stopped, overlooked, misused>>
      BY DEF signalVars, httpVars, hubVars
    <2>2. worker' \in [Worker -> {"none", "idle"}]
      <3>1. worker \in [Worker -> {"none", "idle"}]
        BY <2>1 DEF IInv, TypeOK
      <3>2. worker' = worker \/ worker' = [w \in Worker |-> "idle"]
        OBVIOUS
      <3> QED
        BY <3>1, <3>2
    <2>3. TypeOK'
      <3>1. alive' \subseteq Object /\ main' \in Place
        BY DEF IInv, TypeOK, Object, Place
      <3>2. worker' \in [Worker -> {"none", "idle", "route", "service", "db", "log", "exited"}]
        BY <2>2
      <3> HIDE <1>1 DEF CreateHttp, At
      <3> QED
        BY <2>8, <3>1, <3>2 DEF IInv, TypeOK
    <2>4. \A w \in Worker : worker'[w] \in {"none", "idle"}
      BY <2>2
    <2>5. main' = "log failed" => worker' = worker
      OBVIOUS
    <2>9. main' = "routes" => "db" \in alive'
      BY DEF IInv, ObjectsAlive
    <2> HIDE <1>1 DEF CreateHttp, At
    <2>6. ObjectsAlive'
      BY <2>1, <2>9 DEF ObjectsAlive, Up, DbClosed, PoolGone, AllJoined, HttpGone, HubLeft, IoStopped
    <2>10. ThreadsMatch'
      BY <2>1, <2>8 DEF IInv, ThreadsMatch, InHandler, NoWorkers,
         NoThreads, DbClosed, PoolGone, AllJoined, HttpGone, HubLeft, IoStopped
    <2>11. WorkersMatch'
      BY <2>1, <2>4, <2>5 DEF WorkersMatch, NoWorkers, DbClosed, PoolGone
    <2>7. DbAndHubOutliveUsers' /\ NothingCutOff'
      BY <2>1, <2>8 DEF IInv, DbAndHubOutliveUsers, NothingCutOff
    <2> QED
      BY <2>3, <2>6, <2>7, <2>10, <2>11 DEF IInv
  <1>2. CASE CreateThreads
    <2> USE <1>2 DEF CreateThreads, At
    <2>1. TypeOK'
      BY DEF IInv, TypeOK, Place, signalVars, poolVars
    <2>2. ObjectsAlive' /\ ThreadsMatch' /\ WorkersMatch'
      BY DEF IInv, ObjectsAlive, ThreadsMatch, WorkersMatch, InHandler, NoWorkers, NoThreads,
         Up, DbClosed, PoolGone, AllJoined, HttpGone, HubLeft, IoStopped, poolVars
    <2>3. DbAndHubOutliveUsers' /\ NothingCutOff'
      BY DEF IInv, DbAndHubOutliveUsers, NothingCutOff
    <2> QED
      BY <2>1, <2>2, <2>3 DEF IInv
  <1> QED
    BY <1>1, <1>2

\* The steps that stop and join threads.
LEMMA JoinIInv ==
  ASSUME IInv,
         \/ HubStopIo \/ HubJoin \/ HttpStop \/ JoinHttp \/ JoinLauncher
         \/ DestroyPool \/ JoinLate \/ DestroyHub
  PROVE  IInv'
  <1> USE DEF HubStopIo, HubJoin, HttpStop, JoinHttp, JoinLauncher, DestroyPool, JoinLate,
              DestroyHub, At
  <1>1. /\ UNCHANGED <<signalVars, mutex, http, poolVars, launcher, hub, misused>>
        /\ main' \in Place
    BY DEF httpVars, hubVars, Place
  <1>2. alive' \subseteq alive
    OBVIOUS
  <1>3. /\ http_running' \in BOOLEAN /\ io_stopped' \in BOOLEAN
        /\ joinable' \in BOOLEAN /\ overlooked' \in BOOLEAN
    BY DEF IInv, TypeOK, LoopStopped, InHandler, httpVars, hubVars
  <1>4. Busy' = Busy /\ queue' = queue
    BY <1>1 DEF Busy, poolVars
  <1>5. ObjectsAlive'
    BY DEF IInv, ObjectsAlive, NoWorkers, NoThreads,
           Up, DbClosed, PoolGone, AllJoined, HttpGone, HubLeft, IoStopped
  <1>6. ThreadsMatch'
    <2>1. CASE HubJoin
      BY <1>1, <2>1 DEF IInv, ThreadsMatch, InHandler, NoWorkers, NoThreads, DbClosed, PoolGone,
         AllJoined, HttpGone, HubLeft, IoStopped, httpVars, poolVars, hubVars
    <2>2. CASE JoinLate \/ DestroyHub
      BY <1>1, <2>2 DEF IInv, ThreadsMatch, InHandler, NoWorkers, NoThreads, DbClosed, PoolGone,
         AllJoined, HttpGone, HubLeft, IoStopped, httpVars, poolVars, hubVars
    <2>3. CASE HubStopIo
      BY <1>1, <2>3 DEF IInv, ThreadsMatch, InHandler, NoWorkers, NoThreads, LoopStopped,
         DbClosed, PoolGone, AllJoined, HttpGone, HubLeft, IoStopped, httpVars, poolVars, hubVars
    <2>4. CASE HttpStop
      BY <1>1, <2>4 DEF IInv, ThreadsMatch, InHandler, NoWorkers, NoThreads,
         DbClosed, PoolGone, AllJoined, HttpGone, HubLeft, IoStopped, httpVars, poolVars, hubVars
    <2>5. CASE DestroyPool
      BY <1>1, <2>5 DEF IInv, ThreadsMatch, InHandler, NoWorkers, NoThreads,
         DbClosed, PoolGone, AllJoined, HttpGone, HubLeft, IoStopped, httpVars, poolVars, hubVars
    <2>6. CASE JoinHttp
      BY <1>1, <2>6 DEF IInv, ThreadsMatch, InHandler, NoWorkers, NoThreads, HttpEnded,
         DbClosed, PoolGone, AllJoined, HttpGone, HubLeft, IoStopped, httpVars, poolVars, hubVars
    <2>7. CASE JoinLauncher
      BY <1>1, <2>7 DEF IInv, ThreadsMatch, InHandler, NoWorkers, NoThreads,
         DbClosed, PoolGone, AllJoined, HttpGone, HubLeft, IoStopped, httpVars, poolVars, hubVars
    <2> QED
      BY <2>1, <2>2, <2>3, <2>4, <2>5, <2>6, <2>7
  <1>7. WorkersMatch'
    BY <1>1 DEF IInv, WorkersMatch, NoWorkers, PoolEnded, DbClosed, PoolGone, poolVars
  <1>8. ASSUME DestroyPool PROVE NothingCutOff'
    <2>1. main' = "db end" /\ \A w \in Worker : worker[w] = "exited"
      BY <1>8 DEF PoolEnded
    <2> HIDE DEF HubStopIo, HubJoin, HttpStop, JoinHttp, JoinLauncher, DestroyPool, JoinLate,
                 DestroyHub, At
    <2>2. queue = <<>>
      BY <2>1, LifecycleAssumption DEF IInv, WorkersMatch
    <2>3. Busy = {}
      BY <2>1 DEF Busy
    <2> QED
      BY <1>4, <2>1, <2>2, <2>3 DEF NothingCutOff
  <1>9. ASSUME DestroyHub PROVE NothingCutOff'
    <2>1. /\ main = "statics" /\ http = "ended" /\ launcher = "ended" /\ hub = "returned"
          /\ ~joinable /\ ~joinable'
      BY <1>9 DEF IInv, ThreadsMatch, HttpGone, AllJoined, PoolGone, DbClosed, hubVars
    <2>2. \A w \in Worker : worker[w] = "exited"
      BY <2>1 DEF IInv, WorkersMatch, PoolGone, DbClosed
    <2>3. main' = "exited"
      BY <1>9
    <2> HIDE DEF HubStopIo, HubJoin, HttpStop, JoinHttp, JoinLauncher, DestroyPool, JoinLate,
                 DestroyHub, At
    <2> QED
      BY <1>1, <1>4, <2>1, <2>2, <2>3 DEF IInv, NothingCutOff, poolVars
  <1>10. NothingCutOff'
    <2>1. CASE main' \notin {"db end", "statics", "log late", "late join", "exited"}
      BY <2>1 DEF NothingCutOff
    <2>2. CASE JoinLate
      BY <1>4, <2>2 DEF IInv, NothingCutOff
    <2>3. \/ DestroyPool \/ DestroyHub \/ JoinLate
          \/ main' \notin {"db end", "statics", "log late", "late join", "exited"}
      OBVIOUS
    <2> HIDE DEF HubStopIo, HubJoin, HttpStop, JoinHttp, JoinLauncher, DestroyPool, JoinLate,
                 DestroyHub, At
    <2> QED
      BY <1>8, <1>9, <2>1, <2>2, <2>3
  <1>11. TypeOK'
    <2> HIDE DEF HubStopIo, HubJoin, HttpStop, JoinHttp, JoinLauncher, DestroyPool, JoinLate, DestroyHub
    <2> QED
      BY <1>1, <1>2, <1>3 DEF IInv, TypeOK, signalVars, poolVars
  <1>12. DbAndHubOutliveUsers'
    <2>1. overlooked => overlooked'
      BY DEF hubVars
    <2> QED
      BY <1>1, <2>1 DEF IInv, DbAndHubOutliveUsers
  <1> QED
    BY <1>5, <1>6, <1>7, <1>10, <1>11, <1>12 DEF IInv

\* The thread of HttpServer::run, up to its join.
LEMMA HttpIInv ==
  ASSUME IInv, HttpUnlocks \/ RunHttp \/ LeaveHttp
  PROVE  IInv'
  <1>0. "http" \notin Worker
    BY LifecycleAssumption
  <1>1. /\ UNCHANGED <<main, handler, pending, signals, running, alive, queue, accepted, worker>>
        /\ UNCHANGED <<launcher, hub, joinable, io_stopped, overlooked, misused>>
        /\ http \in {"new", "run", "up", "serving", "leaving"}
        /\ http' \in {"run", "up", "serving", "leaving", "ended"}
        /\ http_running' \in BOOLEAN /\ mutex' \in {"nobody"} \cup Thread
    BY <1>0 DEF IInv, TypeOK, HttpUnlocks, RunHttp, LeaveHttp, Unlocks, Writes, httpRest,
       signalVars, poolVars, hubVars
  <1>2. TypeOK'
    BY <1>1 DEF IInv, TypeOK
  <1>3. ObjectsAlive' /\ WorkersMatch' /\ DbAndHubOutliveUsers'
    BY <1>1 DEF IInv, ObjectsAlive, WorkersMatch, DbAndHubOutliveUsers
  <1>4. ThreadsMatch'
    BY <1>1 DEF IInv, ThreadsMatch, InHandler
  <1>5. NothingCutOff'
    BY <1>1 DEF IInv, NothingCutOff, Busy
  <1> QED
    BY <1>2, <1>3, <1>4, <1>5 DEF IInv

\* It takes requests while it serves, which is over before main comes to the
\* pool.
LEMMA EnqueueIInv ==
  ASSUME IInv, NEW r \in Request, Enqueue(r)
  PROVE  IInv'
  <1>1. /\ UNCHANGED <<main, handler, pending, signals, running, mutex, alive, http, http_running>>
        /\ UNCHANGED <<worker, launcher, hub, joinable, io_stopped, overlooked, misused>>
        /\ http = "serving" /\ accepted' = accepted \cup {r} /\ queue' = Append(queue, r)
    BY DEF Enqueue, signalVars, httpVars, hubVars
  <1>2. queue' \in Seq(Request)
    BY <1>1 DEF IInv, TypeOK
  <1>3. main \notin NoThreads \cup HttpGone
    BY <1>1 DEF IInv, ThreadsMatch
  <1>4. main # "exited"
    BY <1>1 DEF IInv, NothingCutOff
  <1>5. TypeOK'
    BY <1>1, <1>2 DEF IInv, TypeOK
  <1>6. ObjectsAlive' /\ DbAndHubOutliveUsers'
    BY <1>1 DEF IInv, ObjectsAlive, DbAndHubOutliveUsers
  <1>7. ThreadsMatch'
    BY <1>1, <1>3 DEF IInv, ThreadsMatch, InHandler
  <1>8. WorkersMatch'
    BY <1>1, <1>3, <1>4 DEF IInv, WorkersMatch, HttpGone, AllJoined, PoolGone
  <1>9. NothingCutOff'
    BY <1>1, <1>3, <1>4 DEF NothingCutOff, HttpGone, AllJoined, PoolGone, DbClosed
  <1> QED
    BY <1>5, <1>6, <1>7, <1>8, <1>9 DEF IInv

\* What a worker does with its request: the database is still open.
LEMMA WorkIInv ==
  ASSUME IInv, main # "exited", NEW w \in Worker,
         \/ Take(w) \/ Route(w) \/ CallDb(w) \/ Query(w) \/ Respond(w) \/ Finish(w)
  PROVE  IInv'
  <1> USE DEF Take, Route, CallDb, Query, Respond, Finish, Uses, Unlocks, workerRest
  <1>1. /\ UNCHANGED <<main, handler, pending, signals, running, alive, http, http_running, accepted>>
        /\ UNCHANGED <<launcher, hub, joinable, io_stopped, overlooked>>
    BY DEF signalVars, httpVars, hubVars
  <1>2. /\ worker[w] \in {"idle", "route", "service", "db", "log"}
        /\ \E p \in {"idle", "route", "service", "db", "log"} : worker' = [worker EXCEPT ![w] = p]
        /\ queue' = queue \/ (queue # <<>> /\ queue' = Tail(queue))
    <2>1. CASE Take(w)
      BY <2>1 DEF Popped
    <2>2. CASE Route(w)
      BY <2>2
    <2>3. CASE CallDb(w)
      BY <2>3
    <2>4. CASE Query(w)
      BY <2>4
    <2>5. CASE Respond(w)
      BY <2>5
    <2>6. CASE Finish(w)
      BY <2>6, LifecycleAssumption DEF Writes
    <2> QED
      BY <2>1, <2>2, <2>3, <2>4, <2>5, <2>6
  <1>3. mutex' \in {"nobody"} \cup Thread
    BY DEF IInv, TypeOK
  <1>4. main \notin NoWorkers \cup PoolGone
    BY <1>2 DEF IInv, WorkersMatch
  <1>5. misused' \subseteq misused \cup ({w} \X {"server", "services"})
    <2>1. worker[w] = "db" => "db" \in alive
      BY <1>4 DEF IInv, TypeOK, ObjectsAlive, NoWorkers, PoolGone, DbClosed, Place, Up, IoStopped,
         HubLeft, HttpGone, AllJoined
    <2>2. CASE Query(w)
      BY <2>1, <2>2
    <2>3. CASE Take(w) \/ Finish(w)
      BY <2>3
    <2>4. CASE Route(w)
      BY <2>4
    <2>5. CASE CallDb(w) \/ Respond(w)
      BY <2>5
    <2> QED
      BY <2>2, <2>3, <2>4, <2>5
  <1> HIDE DEF Take, Route, CallDb, Query, Respond, Finish, Uses, Unlocks, workerRest
  <1>6. queue' \in Seq(Request) /\ (queue = <<>> => queue' = <<>>)
    <2>1. queue \in Seq(Request)
      BY DEF IInv, TypeOK
    <2> QED
      BY <1>2, <2>1
  <1>7. TypeOK'
    <2>1. worker' \in [Worker -> {"none", "idle", "route", "service", "db", "log", "exited"}]
      BY <1>2 DEF IInv, TypeOK
    <2>2. misused' \subseteq Thread \X Object
      BY <1>5 DEF IInv, TypeOK, Thread, Object
    <2> QED
      BY <1>1, <1>3, <1>6, <2>1, <2>2 DEF IInv, TypeOK
  <1>8. ObjectsAlive'
    BY <1>1 DEF IInv, ObjectsAlive
  <1>9. ThreadsMatch'
    BY <1>1, <1>6 DEF IInv, ThreadsMatch, InHandler
  <1>10. WorkersMatch'
    <2>1. \A v \in Worker : worker'[v] = "exited" => worker[v] = "exited"
      BY <1>2 DEF IInv, TypeOK
    <2> QED
      BY <1>1, <1>4, <1>6, <2>1 DEF IInv, WorkersMatch
  <1>11. DbAndHubOutliveUsers'
    BY <1>1, <1>5 DEF IInv, DbAndHubOutliveUsers
  <1>12. NothingCutOff'
    <2>1. main \notin PoolGone
      BY <1>4
    <2> QED
      BY <1>1, <2>1, main # "exited" DEF NothingCutOff, PoolGone, DbClosed
  <1> QED
    BY <1>7, <1>8, <1>9, <1>10, <1>11, <1>12 DEF IInv

\* A worker leaves only a stopped pool with an empty queue.
LEMMA LeaveIInv ==
  ASSUME IInv, NEW w \in Worker, Leave(w)
  PROVE  IInv'
  <1>1. /\ UNCHANGED <<main, handler, pending, signals, running, mutex, alive, http, http_running>>
        /\ UNCHANGED <<queue, accepted, launcher, hub, joinable, io_stopped, overlooked, misused>>
        /\ main = "pool" /\ queue = <<>> /\ worker' = [worker EXCEPT ![w] = "exited"]
    BY DEF Leave, MayLeave, workerRest, signalVars, httpVars, hubVars
  <1>2. TypeOK'
    BY <1>1 DEF IInv, TypeOK
  <1>3. ObjectsAlive' /\ ThreadsMatch' /\ DbAndHubOutliveUsers'
    BY <1>1 DEF IInv, ObjectsAlive, ThreadsMatch, InHandler, DbAndHubOutliveUsers
  <1>4. WorkersMatch'
    BY <1>1 DEF WorkersMatch, NoWorkers, PoolGone, DbClosed
  <1>5. NothingCutOff'
    BY <1>1 DEF NothingCutOff
  <1> QED
    BY <1>2, <1>3, <1>4, <1>5 DEF IInv

\* The thread that starts the hub's own thread finds the hub alive.
LEMMA LauncherIInv ==
  ASSUME IInv, main # "exited", LauncherStep
  PROVE  IInv'
  <1>1. /\ UNCHANGED <<main, handler, pending, signals, running, alive, http, http_running>>
        /\ UNCHANGED <<queue, accepted, worker, io_stopped, overlooked>>
        /\ \/ launcher = "new" /\ launcher' = "launch" /\ hub' = hub /\ joinable' = joinable
           \/ launcher = "launch" /\ launcher' = "assign" /\ hub' = "new" /\ joinable' = joinable
           \/ launcher = "assign" /\ launcher' = "ended" /\ hub' = hub /\ joinable' = TRUE
    BY LifecycleAssumption DEF LauncherStep, LauncherUnlocks, Launch, Assign, Unlocks, Writes, hubRest,
       signalVars, httpVars, poolVars
  <1>2. main \notin NoThreads \cup AllJoined
    BY <1>1 DEF IInv, ThreadsMatch
  <1>3. "hub" \in alive
    BY <1>2 DEF IInv, TypeOK, ObjectsAlive, Place, NoThreads, NoWorkers, Up, IoStopped,
       HubLeft, HttpGone, AllJoined, PoolGone, DbClosed
  <1>4. misused' = misused /\ mutex' \in {"nobody"} \cup Thread
    BY <1>3 DEF IInv, TypeOK, LauncherStep, LauncherUnlocks, Launch, Assign, Unlocks, Uses
  <1>5. TypeOK'
    <2>1. /\ launcher' \in {"none", "new", "launch", "assign", "ended"} /\ joinable' \in BOOLEAN
          /\ hub' \in {"none", "new", "listen", "serving", "handler", "log", "leaving", "returned"}
      BY <1>1 DEF IInv, TypeOK
    <2>2. UNCHANGED <<main, handler, pending, signals, running, alive, http, http_running, queue,
                      accepted, worker, io_stopped, overlooked>>
      BY <1>1
    <2> QED
      BY <1>4, <2>1, <2>2 DEF IInv, TypeOK
  <1>6. ObjectsAlive' /\ WorkersMatch' /\ DbAndHubOutliveUsers'
    BY <1>1, <1>4 DEF IInv, ObjectsAlive, WorkersMatch, DbAndHubOutliveUsers
  <1>7. ThreadsMatch'
    <2>1. /\ main \notin AllJoined /\ main \notin NoThreads
          /\ main' = main /\ http' = http /\ io_stopped' = io_stopped /\ overlooked' = overlooked
      BY <1>1, <1>2
    <2>2. main \in HubLeft /\ hub' \in {"handler", "log"} => overlooked
      BY <1>1 DEF IInv, ThreadsMatch, InHandler
    <2>3. /\ launcher' \in {"none", "new", "launch"} => hub' = "none" /\ ~joinable'
          /\ launcher' = "assign" => hub' # "none" /\ ~joinable'
          /\ launcher' = "ended" /\ ~joinable' => hub' = "returned"
      BY <1>1 DEF IInv, ThreadsMatch
    <2>4. (main \in HttpGone => http = "ended") /\ (main \in IoStopped => io_stopped)
      BY DEF IInv, ThreadsMatch
    <2> QED
      BY <2>1, <2>2, <2>3, <2>4 DEF ThreadsMatch, InHandler
  <1>8. NothingCutOff'
    BY <1>1, <1>2, main # "exited" DEF IInv, NothingCutOff, AllJoined, PoolGone, DbClosed
  <1> QED
    BY <1>5, <1>6, <1>7, <1>8 DEF IInv

\* The hub's thread finds the hub alive, and the database too unless stop()
\* overlooked it: it begins no handler once the event loop is stopped.
LEMMA HubIInv ==
  ASSUME IInv, main # "exited", HubStep \/ BeginHandler
  PROVE  IInv'
  <1> USE DEF HubStep, HubUnlocks, Listen, BeginHandler, HandlerWrites, EndHandler, EndLoop,
              Uses, Unlocks, hubRest
  <1>1. /\ UNCHANGED <<main, handler, pending, signals, running, alive, http, http_running>>
        /\ UNCHANGED <<queue, accepted, worker, launcher, joinable, io_stopped, overlooked>>
    BY DEF signalVars, httpVars, poolVars
  <1>2. /\ hub \in {"new", "listen", "serving", "handler", "log", "leaving"}
        /\ hub' \in {"listen", "serving", "handler", "log", "leaving", "returned"}
        /\ hub' \in {"handler", "log"} => hub \in {"handler", "log"} \/ ~io_stopped
        /\ mutex' \in {"nobody"} \cup Thread
    BY LifecycleAssumption DEF IInv, TypeOK, Writes
  <1>3. main \notin NoThreads
    BY <1>2 DEF IInv, ThreadsMatch
  <1>4. "hub" \in alive
    BY <1>3 DEF IInv, TypeOK, ObjectsAlive, Place, NoThreads, NoWorkers, Up, IoStopped,
       HubLeft, HttpGone, AllJoined, PoolGone, DbClosed
  <1>5. hub = "handler" => "db" \in alive \/ overlooked
    BY <1>3 DEF IInv, TypeOK, ObjectsAlive, ThreadsMatch, InHandler, Place, NoThreads, NoWorkers, Up,
       IoStopped, HubLeft, HttpGone, AllJoined, PoolGone, DbClosed
  <1>6. /\ misused' = misused \/ (overlooked /\ misused' \subseteq misused \cup {<<"hub", "db">>})
        /\ misused' \subseteq Thread \X Object
    <2>1. misused \subseteq Thread \X Object /\ "hub" \in Thread /\ "db" \in Object
      BY DEF IInv, TypeOK, Thread, Object
    <2>2. CASE HandlerWrites \/ EndHandler
      <3>1. misused' = misused \cup ({"hub"} \X ({"hub", "db"} \ alive)) /\ hub = "handler"
        BY <2>2
      <3>2. CASE "db" \in alive
        BY <1>4, <2>1, <3>1, <3>2
      <3>3. CASE "db" \notin alive
        <4>1. {"hub", "db"} \ alive = {"db"}
          BY <1>4, <3>3
        <4>2. misused' = misused \cup {<<"hub", "db">>}
          BY <3>1, <4>1
        <4> QED
          BY <1>5, <2>1, <3>1, <3>3, <4>2
      <3> QED
        BY <3>2, <3>3
    <2>3. CASE HubUnlocks \/ Listen \/ BeginHandler \/ EndLoop
      BY <2>1, <2>3
    <2> QED
      BY <2>2, <2>3
  <1> HIDE DEF HubStep, HubUnlocks, Listen, BeginHandler, HandlerWrites, EndHandler, EndLoop,
               Uses, Unlocks, hubRest
  <1>7. TypeOK'
    BY <1>1, <1>2, <1>6 DEF IInv, TypeOK
  <1>8. ObjectsAlive' /\ WorkersMatch'
    BY <1>1 DEF IInv, ObjectsAlive, WorkersMatch
  <1>9. DbAndHubOutliveUsers'
    BY <1>1, <1>6 DEF IInv, DbAndHubOutliveUsers
  <1>10. ThreadsMatch'
    <2>1. main \in HubLeft /\ hub' \in {"handler", "log"} => overlooked
      BY <1>2 DEF IInv, ThreadsMatch, InHandler, IoStopped
    <2>2. launcher \notin {"none", "new", "launch"} /\ ~(launcher = "ended" /\ ~joinable)
      BY <1>2 DEF IInv, ThreadsMatch
    <2>3. hub' # "none"
      BY <1>2
    <2> QED
      BY <1>1, <1>3, <2>1, <2>2, <2>3 DEF IInv, ThreadsMatch, InHandler
  <1>11. NothingCutOff'
    BY <1>1, main # "exited" DEF IInv, NothingCutOff, Busy
  <1> QED
    BY <1>7, <1>8, <1>9, <1>10, <1>11 DEF IInv

\* Nothing changes.
LEMMA StutterIInv ==
  ASSUME IInv, UNCHANGED vars
  PROVE  IInv'
  <1>1. /\ UNCHANGED <<main, handler, pending, signals, running, mutex, alive, http, http_running>>
        /\ UNCHANGED <<queue, accepted, worker, launcher, hub, joinable, io_stopped, overlooked>>
        /\ misused' = misused
    BY DEF vars, signalVars, httpVars, poolVars, hubVars
  <1>2. TypeOK'
    BY <1>1 DEF IInv, TypeOK
  <1>3. ObjectsAlive' /\ ThreadsMatch' /\ WorkersMatch'
    BY <1>1 DEF IInv, ObjectsAlive, ThreadsMatch, InHandler, WorkersMatch
  <1>4. DbAndHubOutliveUsers' /\ NothingCutOff'
    BY <1>1 DEF IInv, DbAndHubOutliveUsers, NothingCutOff, Busy
  <1> QED
    BY <1>2, <1>3, <1>4 DEF IInv

\* The invariant is inductive.
LEMMA NextIInv == IInv /\ [Next]_vars => IInv'
  <1> SUFFICES ASSUME IInv, [Next]_vars
               PROVE  IInv'
    OBVIOUS
  <1>1. CASE MainStep
    BY <1>1, MainIInv, StartIInv, JoinIInv DEF MainStep
  <1>2. ASSUME NEW s \in Sig, Signal(s)
        PROVE  IInv'
    <2>1. "main" \in Thread
      BY DEF Thread
    <2> QED
      BY <1>2, <2>1, SignalIInv
  <1>3. ASSUME NEW t \in Thread, NEW s \in Sig, Deliver(t, s)
        PROVE  IInv'
    BY <1>3, SignalIInv
  <1>4. ASSUME main # "exited", NEW t \in Thread, ThreadStep(t)
        PROVE  IInv'
    <2>1. "SIGINT" \in Sig
      BY DEF Sig
    <2>2. CASE HandlerLocks(t) \/ HandlerReturns(t) \/ Locks(t)
      BY <2>1, <2>2, SignalIInv
    <2>3. CASE HttpStep
      BY <2>3, HttpIInv DEF HttpStep
    <2>4. CASE LauncherStep
      BY <1>4, <2>4, LauncherIInv
    <2>5. CASE HubStep
      BY <1>4, <2>5, HubIInv
    <2>6. CASE t \in Worker /\ WorkerStep(t)
      BY <1>4, <2>6, WorkIInv, LeaveIInv DEF WorkerStep
    <2> QED
      BY <1>1, <1>4, <2>2, <2>3, <2>4, <2>5, <2>6 DEF ThreadStep, SignalStep, CodeStep
  <1>5. CASE main # "exited" /\ (BeginHandler \/ \E r \in Request : Enqueue(r))
    BY <1>5, HubIInv, EnqueueIInv
  <1>6. CASE UNCHANGED vars
    BY <1>6, StutterIInv
  <1> QED
    BY <1>2, <1>3, <1>4, <1>5, <1>6 DEF Next, Arrival, HandlerStuck, HttpWaits

-----------------------------------------------------------------------------
(* Theorems.                                                               *)

\* Types, and what is alive and running at each place of main.
THEOREM IInvAlways == Spec => []IInv
  BY InitIInv, NextIInv, PTL DEF Spec

\* The variables keep their types.
THEOREM TypeCorrect == Spec => []TypeOK
  <1>1. IInv => TypeOK
    BY DEF IInv
  <1> QED
    BY <1>1, IInvAlways, PTL

\* A worker or a handler of the hub finds the database and the hub alive,
\* however main's end, its joins, the signals and the threads interleave; the
\* one exception is the handler that stop() overlooked.
THEOREM OutliveUsers == Spec => []DbAndHubOutliveUsers
  <1>1. IInv => DbAndHubOutliveUsers
    BY DEF IInv
  <1> QED
    BY <1>1, IInvAlways, PTL

\* The end of the process cuts off no request, no message and no thread.
THEOREM CutsOffNothing == Spec => []NothingCutOff
  <1>1. IInv => NothingCutOff
    BY DEF IInv
  <1> QED
    BY <1>1, IInvAlways, PTL

-----------------------------------------------------------------------------
(* No deadlock before the end of the process.                              *)

\* The guards of SignalStep.
SignalCanGoOn(t) == InSignal(t, "locked") \/ (InSignal(t, "log") /\ mutex = "nobody")

\* The guards of MainStep but for the lines of the log.
MainCanGoOn ==
    \/ main \in {"db", "http", "routes", "hub", "threads", "sleep", "hub stop io",
                 "http stop", "services", "members", "db end", "statics", "failed"}
    \/ main = "loop" /\ ~running
    \/ main = "hub join" /\ (joinable => hub = "returned")
    \/ main = "late join" /\ hub = "returned"
    \/ main = "join http" /\ HttpEnded
    \/ main = "join launcher" /\ launcher = "ended"
    \/ main = "pool" /\ PoolEnded

\* The guards of the threads' steps.
CodeCanGoOn(t) ==
    \/ Writes(t) /\ mutex \in {"nobody", t}
    \/ t = "main" /\ MainCanGoOn
    \/ t = "http" /\ (http = "run" \/ (http = "serving" /\ ~http_running))
    \/ t = "launcher" /\ launcher \in {"launch", "assign"}
    \/ t = "hub" /\ (hub \in {"listen", "handler"} \/ (hub = "serving" /\ io_stopped))
    \/ /\ t \in Worker
       /\ \/ worker[t] \in {"route", "service", "db"}
          \/ worker[t] = "idle" /\ (queue # <<>> \/ MayLeave)

SomeThreadGoesOn ==
    \E t \in Thread : SignalCanGoOn(t) \/ (handler[t] = <<>> /\ CodeCanGoOn(t))

\* Before the process ends some thread can go on, save that main's loop waits for
\* the first signal, or for the delivery of one, and for the two ways in which
\* the end does not come.
ProgramGoesOn ==
    main # "exited" =>
        \/ SomeThreadGoesOn
        \/ main = "loop" /\ (signals = 0 \/ \E s \in pending : s \notin Blocked("main"))
        \/ WaitsForItself \/ StopForgotten

\* Who holds the mutex of the logger writes a line, or did when a signal came.
HolderWrites == \A t \in Thread : mutex = t => Writes(t) \/ handler[t] # <<>>

\* What main joins was started.
Started ==
    /\ main \in Up \cup {"hub join", "log hub", "http stop", "log http", "join http"}
        => http # "none"
    /\ main \in Up \cup IoStopped => launcher # "none"
    /\ main \notin NoWorkers \cup {"exited"} => \A w \in Worker : worker[w] # "none"
    /\ launcher = "ended" => hub # "none"

\* A signal that was sent has reset running, or will.
NoSignalLost ==
    signals > 0 /\ running => pending # {} \/ \E t \in Thread : handler[t] # <<>>

EndMatches == HolderWrites /\ Started /\ NoSignalLost

\* At the beginning nobody holds the mutex.
LEMMA EndMatchesInit == Init => EndMatches
  <1> SUFFICES ASSUME Init
               PROVE  EndMatches
    OBVIOUS
  <1>1. HolderWrites
    BY LifecycleAssumption DEF Init, HolderWrites, Thread
  <1>2. Started
    BY DEF Init, Started, Up, IoStopped, HubLeft, HttpGone, AllJoined, PoolGone, DbClosed, NoWorkers
  <1>3. NoSignalLost
    <2>1. signals = 0
      BY DEF Init
    <2> QED
      BY <2>1 DEF NoSignalLost
  <1> QED
    BY <1>1, <1>2, <1>3 DEF EndMatches

\* A signal is pending, then a handler is called for it, then running is reset.
LEMMA EndMatchesSignal ==
  ASSUME IInv, EndMatches, NEW t \in Thread, NEW s \in Sig,
         Signal(s) \/ Deliver(t, s) \/ HandlerLocks(t) \/ HandlerReturns(t) \/ Locks(t)
  PROVE  EndMatches'
  <1>1. /\ UNCHANGED <<main, http, worker, launcher, hub>>
        /\ "nobody" \notin Thread
        /\ handler \in [Thread -> Seq(Frame)]
        /\ handler[t] \in Seq(Frame)
    BY LifecycleAssumption DEF Signal, Deliver, HandlerLocks, HandlerReturns, Locks, signalRest,
       httpVars, poolVars, hubVars, Thread, IInv, TypeOK
  <1>2. \A u \in Thread : Writes(u)' <=> Writes(u)
    BY <1>1 DEF Writes
  <1>3. Started'
    BY <1>1 DEF EndMatches, Started
  <1>4. CASE Signal(s)
    BY <1>1, <1>2, <1>3, <1>4 DEF EndMatches, HolderWrites, NoSignalLost, Signal
  <1>5. CASE Deliver(t, s)
    <2>1. \A u \in Thread : handler[u] # <<>> => handler'[u] # <<>>
      BY <1>1, <1>5 DEF Deliver
    <2>2. handler'[t] # <<>> /\ UNCHANGED <<mutex, signals, running>>
      BY <1>1, <1>5 DEF Deliver
    <2> QED
      BY <1>2, <1>3, <2>1, <2>2 DEF EndMatches, HolderWrites, NoSignalLost
  <1>6. CASE HandlerLocks(t)
    <2>1. /\ handler[t] # <<>>
          /\ handler' = [handler EXCEPT ![t] =
                           <<[Head(handler[t]) EXCEPT !.pc = "locked"]>> \o Tail(handler[t])]
      BY <1>6 DEF HandlerLocks, InSignal
    <2>2. handler'[t] # <<>> /\ \A u \in Thread \ {t} : handler'[u] = handler[u]
      BY <1>1, <2>1
    <2>3. mutex' = t /\ UNCHANGED <<pending, signals, running>>
      BY <1>6 DEF HandlerLocks
    <2> QED
      BY <1>3, <2>2, <2>3 DEF EndMatches, HolderWrites, NoSignalLost
  <1>7. CASE HandlerReturns(t)
    BY <1>1, <1>3, <1>7 DEF EndMatches, HolderWrites, NoSignalLost, HandlerReturns
  <1>8. CASE Locks(t)
    BY <1>2, <1>3, <1>8 DEF EndMatches, HolderWrites, NoSignalLost, Locks, signalVars
  <1> QED
    BY <1>4, <1>5, <1>6, <1>7, <1>8

\* A step that releases the mutex, or leaves it and whoever writes a line alone.
LEMMA HolderStays ==
  ASSUME HolderWrites, handler' = handler,
         mutex' = "nobody" \/ (mutex' = mutex /\ \A t \in Thread : Writes(t) => Writes(t)')
  PROVE  HolderWrites'
  <1>1. "nobody" \notin Thread
    BY LifecycleAssumption DEF Thread
  <1> QED
    BY <1>1 DEF HolderWrites

\* main starts what it joins later.
LEMMA EndMatchesMain ==
  ASSUME IInv, EndMatches, MainStep
  PROVE  EndMatches'
  <1> USE DEF MainUnlocks, Unlocks, OpenDb, CreateHttp, CreateServices, CreateHub, CreateThreads,
              Sleep, LeaveLoop, HubStopIo, HubJoin, HttpStop, JoinHttp, JoinLauncher,
              DestroyServices, DestroyMembers, DestroyPool, DestroyDb, StopLate, JoinLate,
              DestroyHub, Fail, At
  <1>0. "main" \notin Worker
    BY LifecycleAssumption
  <1>1. UNCHANGED <<handler, pending, signals, running, hub>>
    BY DEF MainStep, signalVars, hubVars
  <1>2. NoSignalLost'
    BY <1>1 DEF EndMatches, NoSignalLost
  <1>3. CASE CreateHttp
    <2>1. /\ UNCHANGED <<mutex, http, launcher, hub>> /\ main = "http"
          /\ \A w \in Worker : worker[w] = "none"
          /\ \/ main' = "routes" /\ \A w \in Worker : worker'[w] = "idle"
             \/ main' = "log failed" /\ worker' = worker
      BY <1>3 DEF httpVars, hubVars, IInv, WorkersMatch, NoWorkers
    <2> HIDE DEF CreateHttp
    <2>2. Started'
      BY <2>1 DEF EndMatches, Started, Up, IoStopped, HubLeft, HttpGone, AllJoined, PoolGone,
         DbClosed, NoWorkers
    <2>3. \A t \in Thread : Writes(t) => Writes(t)'
      BY <1>0, <2>1 DEF Writes, LogPlace
    <2> QED
      BY <1>1, <1>2, <2>1, <2>2, <2>3, HolderStays DEF EndMatches
  <1>4. CASE CreateThreads
    <2>1. UNCHANGED <<mutex, worker, hub>> /\ main = "threads" /\ main' = "sleep"
      BY <1>4 DEF poolVars
    <2>2. http' = "new" /\ launcher' = "new"
      BY <1>4
    <2> HIDE DEF CreateThreads
    <2>3. Started'
      BY <2>1, <2>2 DEF EndMatches, Started, NoWorkers
    <2>4. \A t \in Thread : Writes(t) => Writes(t)'
      BY <1>0, <2>1, <2>2 DEF Writes, LogPlace
    <2> QED
      BY <1>1, <1>2, <2>1, <2>3, <2>4, HolderStays DEF EndMatches
  <1>5. CASE MainUnlocks
    <2>1. /\ UNCHANGED <<http, worker, launcher, hub>> /\ mutex' = "nobody"
          /\ main \in LogPlace /\ main' = After(main)
      BY <1>0, <1>5 DEF Writes, httpVars, poolVars, hubVars
    <2>2. Started'
      BY <2>1 DEF EndMatches, Started, LogPlace, After, Up, IoStopped, HubLeft, HttpGone, AllJoined,
         PoolGone, DbClosed, NoWorkers
    <2> QED
      BY <1>1, <1>2, <2>1, <2>2, HolderStays DEF EndMatches
  <1>6. CASE MainStep /\ ~CreateHttp /\ ~CreateThreads /\ ~MainUnlocks
    <2>1. UNCHANGED <<mutex, http, worker, launcher, hub>> /\ main \notin LogPlace
      BY <1>6 DEF MainStep, httpVars, poolVars, hubVars, LogPlace
    <2>2. Started'
      BY <1>6, <2>1 DEF MainStep, EndMatches, Started, Up, IoStopped, HubLeft, HttpGone, AllJoined,
         PoolGone, DbClosed, NoWorkers
    <2>3. \A t \in Thread : Writes(t) => Writes(t)'
      BY <1>0, <2>1 DEF Writes
    <2> QED
      BY <1>1, <1>2, <2>1, <2>2, <2>3, HolderStays DEF EndMatches
  <1> QED
    BY <1>3, <1>4, <1>5, <1>6

\* The other threads write a line while they hold the mutex.
LEMMA EndMatchesServers ==
  ASSUME IInv, EndMatches,
         HttpStep \/ LauncherStep \/ HubStep \/ BeginHandler \/ \E r \in Request : Enqueue(r)
  PROVE  EndMatches'
  <1> USE DEF HttpStep, HttpUnlocks, RunHttp, LeaveHttp, LauncherStep, LauncherUnlocks, Launch,
              Assign, HubStep, HubUnlocks, Listen, BeginHandler, HandlerWrites, EndHandler, EndLoop,
              Enqueue, Unlocks
  <1>0. {"http", "launcher", "hub"} \cap Worker = {}
    BY LifecycleAssumption
  <1>1. UNCHANGED <<main, handler, pending, signals, running, worker>>
    BY DEF httpRest, hubRest, signalVars, poolVars
  <1>2. NoSignalLost'
    BY <1>1 DEF EndMatches, NoSignalLost
  <1>3. Started'
    <2>1. http # "none" => http' # "none"
      BY <1>0 DEF httpVars, hubRest, Writes
    <2>2. launcher # "none" => launcher' # "none"
      BY DEF hubVars, httpRest
    <2>3. launcher' = "ended" => hub' # "none"
      BY <1>0 DEF hubVars, httpRest, Writes, EndMatches, Started, IInv, ThreadsMatch
    <2> HIDE DEF HttpStep, LauncherStep, HubStep, BeginHandler, Enqueue
    <2> QED
      BY <1>1, <2>1, <2>2, <2>3 DEF EndMatches, Started
  <1>4. mutex' = "nobody" \/ (mutex' = mutex /\ \A t \in Thread : Writes(t) => Writes(t)')
    <2>1. CASE HttpStep \/ \E r \in Request : Enqueue(r)
      BY <1>0, <1>1, <2>1 DEF Writes, httpVars, hubVars, httpRest
    <2>2. CASE LauncherStep
      BY <1>0, <1>1, <2>2 DEF Writes, httpVars, hubRest, IInv, ThreadsMatch
    <2>3. CASE HubStep \/ BeginHandler
      BY <1>0, <1>1, <2>3 DEF Writes, httpVars, hubRest
    <2> QED
      BY <2>1, <2>2, <2>3
  <1> QED
    BY <1>1, <1>2, <1>3, <1>4, HolderStays DEF EndMatches

\* So do the workers.
LEMMA EndMatchesWorker ==
  ASSUME IInv, EndMatches, NEW w \in Worker, WorkerStep(w)
  PROVE  EndMatches'
  <1>1. UNCHANGED <<main, handler, pending, signals, running, http, launcher, hub>>
    BY DEF WorkerStep, Take, Route, CallDb, Query, Respond, Finish, Leave, workerRest, signalVars,
       httpVars, hubVars
  <1>2. worker \in [Worker -> {"none", "idle", "route", "service", "db", "log", "exited"}]
    BY DEF IInv, TypeOK
  <1>3. \/ mutex' = "nobody"
        \/ mutex' = mutex /\ worker[w] # "log"
    BY DEF WorkerStep, Take, Route, CallDb, Query, Respond, Finish, Leave, Unlocks
  <1>4. \E p \in {"idle", "route", "service", "db", "log", "exited"} :
            worker' = [worker EXCEPT ![w] = p]
    BY DEF WorkerStep, Take, Route, CallDb, Query, Respond, Finish, Leave
  <1>5. Started' /\ NoSignalLost'
    BY <1>1, <1>2, <1>4 DEF EndMatches, Started, NoSignalLost
  <1>6. ASSUME worker[w] # "log", NEW t \in Thread, Writes(t)
        PROVE  Writes(t)'
    <2>1. t \in Worker => worker'[t] = worker[t] \/ worker[t] # "log"
      BY <1>2, <1>4, <1>6
    <2> QED
      BY <1>1, <1>6, <2>1 DEF Writes
  <1> QED
    BY <1>1, <1>3, <1>5, <1>6, HolderStays DEF EndMatches

\* No step of any thread changes that.
LEMMA EndMatchesNext == IInv /\ EndMatches /\ [Next]_vars => EndMatches'
  <1> SUFFICES ASSUME IInv, EndMatches, [Next]_vars
               PROVE  EndMatches'
    OBVIOUS
  <1>1. ASSUME NEW s \in Sig, Signal(s)
        PROVE  EndMatches'
    <2>1. "main" \in Thread
      BY DEF Thread
    <2> QED
      BY <1>1, <2>1, EndMatchesSignal
  <1>2. ASSUME NEW t \in Thread, NEW s \in Sig, Deliver(t, s)
        PROVE  EndMatches'
    BY <1>2, EndMatchesSignal
  <1>3. ASSUME NEW t \in Thread, ThreadStep(t)
        PROVE  EndMatches'
    <2>1. "SIGINT" \in Sig
      BY DEF Sig
    <2>2. CASE HandlerLocks(t) \/ HandlerReturns(t) \/ Locks(t)
      BY <2>1, <2>2, EndMatchesSignal
    <2>3. CASE MainStep
      BY <2>3, EndMatchesMain
    <2>4. CASE HttpStep \/ LauncherStep \/ HubStep
      BY <2>4, EndMatchesServers
    <2>5. CASE t \in Worker /\ WorkerStep(t)
      BY <2>5, EndMatchesWorker
    <2> QED
      BY <1>3, <2>2, <2>3, <2>4, <2>5 DEF ThreadStep, SignalStep, CodeStep
  <1>4. CASE BeginHandler \/ \E r \in Request : Enqueue(r)
    BY <1>4, EndMatchesServers
  <1>5. CASE UNCHANGED vars
    <2>1. UNCHANGED <<main, handler, pending, signals, running, mutex, http, worker, launcher, hub>>
      BY <1>5 DEF vars, signalVars, httpVars, poolVars, hubVars
    <2>2. Started' /\ NoSignalLost'
      BY <2>1 DEF EndMatches, Started, NoSignalLost
    <2>3. HolderWrites'
      BY <2>1 DEF EndMatches, HolderWrites, Writes
    <2> QED
      BY <2>2, <2>3 DEF EndMatches
  <1> QED
    BY <1>1, <1>2, <1>3, <1>4, <1>5 DEF Next, Arrival, HandlerStuck, HttpWaits

\* The mutex is released by its holder, or the holder waits for itself.
LEMMA HolderGoesOn ==
  ASSUME IInv, EndMatches, ~WaitsForItself, mutex # "nobody"
  PROVE  SomeThreadGoesOn
  <1>1. mutex \in Thread /\ handler[mutex] \in Seq(Frame)
    BY DEF IInv, TypeOK
  <1>2. CASE handler[mutex] = <<>>
    <2>1. Writes(mutex)
      BY <1>1, <1>2 DEF EndMatches, HolderWrites
    <2> QED
      BY <1>1, <1>2, <2>1 DEF SomeThreadGoesOn, CodeCanGoOn
  <1>3. CASE handler[mutex] # <<>>
    <2>1. Head(handler[mutex]) \in Frame
      BY <1>1, <1>3
    <2>2. InSignal(mutex, "log") \/ InSignal(mutex, "locked")
      BY <1>3, <2>1 DEF Frame, InSignal
    <2> QED
      BY <1>1, <2>2 DEF SomeThreadGoesOn, SignalCanGoOn, WaitsForItself
  <1> QED
    BY <1>2, <1>3

\* A thread with a handler on top, or with a line to write, needs only the mutex.
LEMMA MutexIsAll ==
  ASSUME IInv, EndMatches, ~WaitsForItself, NEW t \in Thread,
         handler[t] # <<>> \/ Writes(t) \/ CodeCanGoOn(t)
  PROVE  SomeThreadGoesOn
  <1>1. CASE mutex # "nobody"
    BY <1>1, HolderGoesOn
  <1>2. CASE mutex = "nobody" /\ handler[t] # <<>>
    <2>1. handler[t] \in Seq(Frame)
      BY DEF IInv, TypeOK
    <2>2. Head(handler[t]) \in Frame
      BY <1>2, <2>1
    <2>3. InSignal(t, "log") \/ InSignal(t, "locked")
      BY <1>2, <2>2 DEF Frame, InSignal
    <2> QED
      BY <1>2, <2>3 DEF SomeThreadGoesOn, SignalCanGoOn
  <1>3. CASE mutex = "nobody" /\ handler[t] = <<>>
    BY <1>3 DEF SomeThreadGoesOn, CodeCanGoOn
  <1> QED
    BY <1>1, <1>2, <1>3

\* Whom main waits for can go on, or waits in turn for the logger.
LEMMA SomebodyGoesOn == IInv /\ EndMatches => ProgramGoesOn
  <1> SUFFICES ASSUME IInv, EndMatches, main # "exited", ~WaitsForItself, ~StopForgotten,
                      ~SomeThreadGoesOn
               PROVE  main = "loop" /\ (signals = 0 \/ \E s \in pending : s \notin Blocked("main"))
    BY DEF ProgramGoesOn
  <1>1. \A t \in Thread : handler[t] = <<>> /\ ~Writes(t) /\ ~CodeCanGoOn(t)
    BY MutexIsAll
  <1>2. {"main", "http", "launcher", "hub"} \subseteq Thread /\ Worker \subseteq Thread
    BY DEF Thread
  <1>3. main \in Place \ LogPlace /\ ~MainCanGoOn
    BY <1>1, <1>2 DEF IInv, TypeOK, Writes, CodeCanGoOn
  <1>4. CASE main = "loop"
    <2>1. running /\ (signals = 0 \/ signals > 0)
      BY <1>3, <1>4 DEF MainCanGoOn, IInv, TypeOK
    <2>2. signals > 0 => pending # {}
      BY <1>1, <2>1 DEF EndMatches, NoSignalLost
    <2>3. Blocked("main") = {}
      <3>1. handler["main"] = <<>>
        BY <1>1, <1>2
      <3>2. DOMAIN handler["main"] = {}
        BY <3>1
      <3> QED
        BY <3>2 DEF Blocked
    <2> QED
      BY <1>4, <2>1, <2>2, <2>3
  <1>5. main \notin {"hub join", "late join"}
    <2> SUFFICES ASSUME main \in {"hub join", "late join"}
                 PROVE  FALSE
      OBVIOUS
    <2>1. io_stopped /\ (main = "late join" => launcher = "ended")
      BY DEF IInv, ThreadsMatch, IoStopped, HubLeft, HttpGone, AllJoined, PoolGone, DbClosed
    <2>2. hub # "returned" /\ (main = "hub join" => joinable)
      BY <1>3 DEF MainCanGoOn
    <2>3. launcher = "ended" => hub # "none"
      BY DEF EndMatches, Started
    <2>4. joinable => launcher = "ended"
      BY DEF IInv, ThreadsMatch, TypeOK
    <2>5. hub \in {"new", "listen", "serving", "handler", "log", "leaving"}
      BY <2>1, <2>2, <2>3, <2>4 DEF IInv, TypeOK
    <2>6. Writes("hub") \/ CodeCanGoOn("hub")
      BY <2>1, <2>5 DEF Writes, CodeCanGoOn
    <2> QED
      BY <1>1, <1>2, <2>6
  <1>6. main # "join http"
    <2> SUFFICES ASSUME main = "join http"
                 PROVE  FALSE
      OBVIOUS
    <2>1. http \notin {"none", "ended"} /\ ~http_running
      BY <1>3 DEF EndMatches, Started, MainCanGoOn, HttpEnded, StopForgotten
    <2>2. Writes("http") \/ CodeCanGoOn("http")
      BY <2>1 DEF IInv, TypeOK, Writes, CodeCanGoOn
    <2> QED
      BY <1>1, <1>2, <2>2
  <1>7. main # "join launcher"
    <2> SUFFICES ASSUME main = "join launcher"
                 PROVE  FALSE
      OBVIOUS
    <2>1. launcher \notin {"none", "ended"}
      BY <1>3 DEF EndMatches, Started, MainCanGoOn, IoStopped, HubLeft, HttpGone
    <2>2. Writes("launcher") \/ CodeCanGoOn("launcher")
      BY <2>1 DEF IInv, TypeOK, Writes, CodeCanGoOn
    <2> QED
      BY <1>1, <1>2, <2>2
  <1>8. main # "pool"
    <2> SUFFICES ASSUME main = "pool"
                 PROVE  FALSE
      OBVIOUS
    <2>1. PICK w \in Worker : worker[w] # "exited"
      BY <1>3 DEF MainCanGoOn, PoolEnded
    <2>2. worker[w] # "none"
      BY DEF EndMatches, Started, NoWorkers
    <2>3. worker[w] \in {"idle", "route", "service", "db", "log"}
      BY <2>1, <2>2 DEF IInv, TypeOK
    <2>4. Writes(w) \/ CodeCanGoOn(w)
      BY <2>3 DEF Writes, CodeCanGoOn, MayLeave
    <2> QED
      BY <1>1, <1>2, <2>4
  <1> QED
    BY <1>3, <1>4, <1>5, <1>6, <1>7, <1>8 DEF Place, LogPlace, MainCanGoOn

\* Whoever takes the signals, in whatever order they nest: until the process ends
\* some thread can go on, with no other exceptions than the loop that waits for a
\* signal, a handler that waits for the mutex under it, and a forgotten stop, for
\* any number of workers, requests and signals.
THEOREM EndNeverStuck == Spec => []ProgramGoesOn
  BY EndMatchesInit, EndMatchesNext, SomebodyGoesOn, IInvAlways, PTL DEF Spec

-----------------------------------------------------------------------------
(* Timer, the other thread of the program that is started and joined by    *)
(* hand, for every set of tasks and every bound.  The inductive invariant  *)
(* relates what the owner did last to the state of the thread.             *)

\* timer_thread_ is joinable from start() to the end of stop(); it runs as
\* long as running_ is set; and a started timer is not running only because
\* a callback stopped it, which the thread is then about to see.
OwnerMatches ==
    /\ owner \in {"new", "stopped"} => thread = "none" /\ ~timer_running
    /\ owner = "stopping" => ~timer_running
    /\ owner = "started" /\ ~timer_running => inside /\ thread \in {"top", "exited"}
    /\ owner = "started" /\ timer_running => thread \in {"top", "asleep", "timed", "call"}

\* A task the thread sleeps for is queued.
SleepsForQueued == thread = "timed" => current \in QueuedTasks

TimerInv ==
    /\ TimerTypeOK
    /\ OwnerMatches
    /\ SleepsForQueued
    /\ NothingSleptOver
    /\ RestartIsSafe

-----------------------------------------------------------------------------

\* No task is queued and no thread runs at first.
LEMMA InitTimerInv == TimerInit => TimerInv
  <1> SUFFICES ASSUME TimerInit
               PROVE  TimerInv
    OBVIOUS
  <1>1. period \in [Task -> 0..MaxDelay]
    BY TimerAssumption DEF TimerInit
  <1>2. TimerTypeOK
    BY <1>1 DEF TimerInit, TimerTypeOK
  <1> QED
    BY <1>2 DEF TimerInit, TimerInv, OwnerMatches, SleepsForQueued, NothingSleptOver, RestartIsSafe

\* Adding a task may give the waiting thread another task to wait for.
LEMMA AddTimerInv ==
  ASSUME TimerInv, NEW t \in Task, NEW delay \in 0..MaxDelay, NEW p \in 0..MaxDelay,
         Add(t, delay, p)
  PROVE  TimerInv'
  <1>1. TimerTypeOK'
    <2>1. delay \in Int
      BY TimerAssumption
    <2> QED
      BY <2>1 DEF TimerInv, TimerTypeOK, Add, Notified, Waits
  <1>2. OwnerMatches' /\ RestartIsSafe'
    BY DEF TimerInv, OwnerMatches, RestartIsSafe, Add
  <1>3. SleepsForQueued'
    BY TimerAssumption DEF TimerInv, TimerTypeOK, SleepsForQueued, QueuedTasks, Add
  <1>4. NothingSleptOver'
    BY DEF TimerInv, TimerTypeOK, NothingSleptOver, Notified, Waits, Add
  <1> QED
    BY <1>1, <1>2, <1>3, <1>4 DEF TimerInv

\* Time passes for all queued tasks alike.
LEMMA TickTimerInv ==
  ASSUME TimerInv, Tick
  PROVE  TimerInv'
  <1>1. /\ QueuedTasks' = QueuedTasks
        /\ \A t \in QueuedTasks : due[t] \in Int /\ due'[t] = due[t] - 1
    BY TimerAssumption DEF TimerInv, TimerTypeOK, Tick, QueuedTasks
  <1>2. TimerTypeOK'
    <2>1. due' \in [Task -> Int \cup {NoTime}]
      BY <1>1 DEF Tick
    <2> QED
      BY <2>1 DEF TimerInv, TimerTypeOK, Tick
  <1>3. Earliest' = Earliest
    BY <1>1 DEF Earliest
  <1>4. OwnerMatches' /\ RestartIsSafe'
    BY DEF TimerInv, OwnerMatches, RestartIsSafe, Tick
  <1>5. SleepsForQueued' /\ NothingSleptOver'
    BY <1>1, <1>3 DEF TimerInv, SleepsForQueued, NothingSleptOver, Tick
  <1> QED
    BY <1>2, <1>4, <1>5 DEF TimerInv

\* start() and stop() agree with what the thread does then.
LEMMA OwnerTimerInv ==
  ASSUME TimerInv, Start \/ Stop \/ StopReturns
  PROVE  TimerInv'
  <1>1. /\ UNCHANGED <<due, period, current>>
        /\ QueuedTasks' = QueuedTasks /\ Earliest' = Earliest
    BY DEF Start, Stop, StopReturns, taskQueue, QueuedTasks, Earliest
  <1>2. CASE Start
    <2>1. TimerTypeOK'
      BY <1>1, <1>2 DEF TimerInv, TimerTypeOK, Start
    <2>2. OwnerMatches' /\ RestartIsSafe'
      BY <1>2 DEF TimerInv, TimerTypeOK, OwnerMatches, RestartIsSafe, Start, AtRest
    <2>3. SleepsForQueued' /\ NothingSleptOver'
      <3>1. CASE timer_running
        BY <1>1, <1>2, <3>1 DEF TimerInv, SleepsForQueued, NothingSleptOver, Start
      <3>2. CASE ~timer_running /\ thread = "none"
        BY <1>2, <3>2 DEF SleepsForQueued, NothingSleptOver, Start
      <3>3. CASE ~timer_running /\ thread # "none"
        BY <1>1, <1>2, <3>3 DEF TimerInv, OwnerMatches, AtRest, SleepsForQueued, NothingSleptOver, Start
      <3> QED
        BY <3>1, <3>2, <3>3
    <2> QED
      BY <2>1, <2>2, <2>3 DEF TimerInv
  <1>3. CASE Stop
    BY <1>1, <1>3 DEF TimerInv, TimerTypeOK, OwnerMatches, RestartIsSafe, SleepsForQueued,
                      NothingSleptOver, Stop, AtRest, Notified, Waits
  <1>4. CASE StopReturns
    BY <1>1, <1>4 DEF TimerInv, TimerTypeOK, OwnerMatches, RestartIsSafe, SleepsForQueued,
                      NothingSleptOver, StopReturns, Ended, AfterJoin
  <1> QED
    BY <1>2, <1>3, <1>4

\* The thread executes one of the earliest tasks, or waits for it.
LEMMA ExecuteTimerInv ==
  ASSUME TimerInv, timer_running, NEW t \in Earliest,
         \/ Execute(t)
         \/ thread' = "timed" /\ current' = t /\ UNCHANGED due
         \/ thread' = "top" /\ current' = t /\ UNCHANGED due,
         thread \in {"top", "timed"},
         woken' = FALSE,
         UNCHANGED <<period, timer_running, owner, inside>>
  PROVE  TimerInv'
  <1>1. t \in Task /\ t \in QueuedTasks
    BY DEF Earliest, QueuedTasks
  <1>2. TimerTypeOK'
    <2>1. DueAgain(t) \in Int \cup {NoTime}
      BY <1>1 DEF TimerInv, TimerTypeOK, DueAgain
    <2> QED
      BY <1>1, <2>1 DEF TimerInv, TimerTypeOK, Execute
  <1>3. OwnerMatches' /\ RestartIsSafe'
    BY DEF TimerInv, OwnerMatches, RestartIsSafe, Execute
  <1>4. SleepsForQueued' /\ NothingSleptOver'
    BY <1>1 DEF SleepsForQueued, NothingSleptOver, Execute, QueuedTasks, Earliest
  <1> QED
    BY <1>2, <1>3, <1>4 DEF TimerInv

\* The loop executes an earliest task that is due, or sleeps for it.
LEMMA TopTimerInv ==
  ASSUME TimerInv, Top
  PROVE  TimerInv'
  <1>1. CASE ~timer_running
    BY <1>1 DEF TimerInv, TimerTypeOK, OwnerMatches, RestartIsSafe, SleepsForQueued,
                NothingSleptOver, Top
  <1>2. CASE timer_running /\ QueuedTasks = {}
    BY <1>2 DEF TimerInv, TimerTypeOK, OwnerMatches, RestartIsSafe, SleepsForQueued,
                NothingSleptOver, Top, QueuedTasks, Earliest
  <1>3. CASE timer_running /\ QueuedTasks # {}
    <2>1. PICK t \in Earliest :
             IF Present(t) THEN Execute(t)
             ELSE thread' = "timed" /\ current' = t /\ UNCHANGED due
      BY <1>3 DEF Top
    <2> QED
      BY <1>3, <2>1, ExecuteTimerInv DEF Top
  <1> QED
    BY <1>1, <1>2, <1>3

\* After its wait the loop looks at the queue anew.
LEMMA RecheckTimerInv ==
  ASSUME TimerInv, Recheck
  PROVE  TimerInv'
  <1>1. CASE ~timer_running
    BY <1>1 DEF TimerInv, TimerTypeOK, OwnerMatches, RestartIsSafe, SleepsForQueued,
                NothingSleptOver, Recheck
  <1>2. CASE timer_running /\ QueuedTasks = {}
    BY <1>2 DEF TimerInv, TimerTypeOK, OwnerMatches, RestartIsSafe, SleepsForQueued,
                NothingSleptOver, Recheck, FreshTop, QueuedTasks, Earliest
  <1>3. CASE timer_running /\ QueuedTasks # {}
    <2>1. PICK t \in Earliest :
             IF Present(t) THEN Execute(t)
             ELSE thread' = "top" /\ current' = t /\ UNCHANGED due
      BY <1>3 DEF Recheck, FreshTop
    <2> QED
      BY <1>3, <2>1, ExecuteTimerInv DEF Recheck
  <1> QED
    BY <1>1, <1>2, <1>3

\* Wakeups and the end of a callback change no task.
LEMMA CallTimerInv ==
  ASSUME TimerInv, Wake \/ Returned \/ StopInside
  PROVE  TimerInv'
  <1>1. UNCHANGED <<due, period, current>> /\ QueuedTasks' = QueuedTasks /\ Earliest' = Earliest
    BY DEF Wake, Returned, StopInside, taskQueue, QueuedTasks, Earliest
  <1>2. TimerTypeOK'
    BY <1>1 DEF TimerInv, TimerTypeOK, Wake, Returned, StopInside
  <1>3. OwnerMatches' /\ RestartIsSafe'
    BY DEF TimerInv, TimerTypeOK, OwnerMatches, RestartIsSafe, Wake, Returned, StopInside
  <1>4. SleepsForQueued' /\ NothingSleptOver'
    BY <1>1 DEF TimerInv, SleepsForQueued, NothingSleptOver, Wake, Returned, StopInside
  <1> QED
    BY <1>2, <1>3, <1>4 DEF TimerInv

\* Nothing changes.
LEMMA StutterTimerInv ==
  ASSUME TimerInv, UNCHANGED timerVars
  PROVE  TimerInv'
  BY DEF TimerInv, TimerTypeOK, OwnerMatches, RestartIsSafe, SleepsForQueued, NothingSleptOver,
         QueuedTasks, Earliest, timerVars, taskQueue

\* The invariant is inductive.
LEMMA NextTimerInv ==
  ASSUME TimerInv, [TimerNext]_timerVars
  PROVE  TimerInv'
  BY AddTimerInv, TickTimerInv, OwnerTimerInv, TopTimerInv, RecheckTimerInv, CallTimerInv, StutterTimerInv
  DEF TimerNext, Working, WakeTimed, Spurious

\* The inductive invariant holds in every reachable state.
THEOREM TimerInvariant == TimerSpec => []TimerInv
  BY InitTimerInv, NextTimerInv, PTL DEF TimerSpec

\* Type correctness of the timer.
THEOREM TimerTypeCorrect == TimerSpec => []TimerTypeOK
  BY TimerInvariant, PTL DEF TimerInv

\* After stop() has returned no callback runs: the destructor, which calls
\* stop(), leaves no thread behind that could use the timer.
THEOREM StopQuiets == TimerSpec => []StoppedIsQuiet
  <1>1. TimerInv => StoppedIsQuiet
    BY DEF TimerInv, OwnerMatches, StoppedIsQuiet
  <1> QED
    BY <1>1, TimerInvariant, PTL

\* A timer may be stopped and started again at any time; the program ends in
\* std::terminate only after a callback has stopped the timer that runs it.
THEOREM RestartsSafely == TimerSpec => []RestartIsSafe
  BY TimerInvariant, PTL DEF TimerInv

\* No wake-up is lost, in whatever order tasks are added while the thread
\* goes to sleep.
THEOREM NoLostWakeup == TimerSpec => []NothingSleptOver
  BY TimerInvariant, PTL DEF TimerInv

\* The callback that begins is due and none that was queued was due before.
THEOREM RunsEarliest == TimerSpec => EarliestFirst
  <1>1. ASSUME TimerNext, thread # "call", thread' = "call"
        PROVE  /\ current' \in QueuedTasks /\ Present(current')
               /\ \A u \in QueuedTasks : due[current'] <= due[u]
    <2>1. Top \/ Recheck
      BY <1>1 DEF TimerNext, Add, Tick, Start, Stop, StopReturns, AfterJoin, Working, Wake,
                  WakeTimed, Spurious, Returned, StopInside, timerVars
    <2>2. PICK t \in Earliest : Present(t) /\ current' = t
      BY <1>1, <2>1 DEF Top, Recheck, FreshTop, Execute
    <2> QED
      BY <2>2 DEF Earliest
  <1>2. [TimerNext]_timerVars =>
          [thread # "call" /\ thread' = "call" =>
              /\ current' \in QueuedTasks /\ Present(current')
              /\ \A u \in QueuedTasks : due[current'] <= due[u]]_timerVars
    BY <1>1
  <1> QED
    BY <1>2, PTL DEF TimerSpec, EarliestFirst

\* Nobody sleeps through stop(): the thread it joins has ended, is at work, or was
\* notified since it began to wait.
StopHeard == owner = "stopping" => Ended \/ thread \in {"top", "call"} \/ (Waits /\ woken)

\* A thread that goes to sleep after stop() began has seen running_ reset.
LEMMA StopHeardNext == TimerInv /\ StopHeard /\ [TimerNext]_timerVars => StopHeard'
  <1> SUFFICES ASSUME TimerInv, StopHeard, [TimerNext]_timerVars
               PROVE  StopHeard'
    OBVIOUS
  <1>1. owner = "stopping" => ~timer_running
    BY DEF TimerInv, OwnerMatches
  <1>2. thread \in {"none", "top", "asleep", "timed", "call", "exited"} /\ woken \in BOOLEAN
    BY DEF TimerInv, TimerTypeOK
  <1> USE DEF StopHeard, Ended, Waits
  <1>3. CASE \E t \in Task, delay \in 0..MaxDelay, p \in 0..MaxDelay : Add(t, delay, p)
    BY <1>2, <1>3 DEF Add, Notified
  <1>4. CASE Tick \/ Start \/ Stop \/ StopReturns
    BY <1>2, <1>4 DEF Tick, Start, Stop, Notified, StopReturns, AtRest, taskQueue
  <1>5. CASE Top \/ Recheck
    BY <1>1, <1>2, <1>5 DEF Top, Recheck, Execute
  <1>6. CASE Wake \/ Returned \/ StopInside
    BY <1>1, <1>2, <1>6 DEF Wake, Returned, StopInside, taskQueue
  <1>7. CASE UNCHANGED timerVars
    BY <1>7 DEF timerVars
  <1>8. QED
    BY <1>3, <1>4, <1>5, <1>6, <1>7 DEF TimerNext, Working, WakeTimed, Spurious

\* stop() never waits for a thread that waits itself, whatever was added, started or
\* called back meanwhile.
THEOREM StopAlwaysHeard == TimerSpec => []StopHeard
  <1>1. TimerInit => StopHeard
    BY DEF TimerInit, StopHeard
  <1>2. QED
    BY <1>1, StopHeardNext, TimerInvariant, PTL DEF TimerSpec
=============================================================================
