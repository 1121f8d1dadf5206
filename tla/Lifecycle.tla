----------------------------- MODULE Lifecycle -----------------------------
(***************************************************************************)
(* src/src/main.cpp: how the process starts its servers and closes them    *)
(* after a signal, with the logger every thread writes through.            *)
(*                                                                         *)
(* The parts are reduced to what concerns their lifetime: HttpServer and   *)
(* ThreadPool to the loop that hands requests to workers and the workers   *)
(* that use what main has built, WebSocketServer to the thread that runs   *)
(* handlers.  Their own modules have the rest.                             *)
(***************************************************************************)
EXTENDS Naturals, Sequences, FiniteSets

CONSTANTS
    Request,
    Worker,
    MaxSignals      \* bound: so many signals come

ASSUME LifecycleAssumption ==
    /\ MaxSignals \in Nat
    /\ Worker # {} /\ Worker \cap {"main", "http", "launcher", "hub", "nobody"} = {}

VARIABLES
    main,         \* the next thing the main thread does
    handler,      \* the calls of signalHandler under way in each thread, newest first
    pending,      \* signals sent and not yet taken by a thread
    signals,      \* number of signals sent
    running,
    mutex,        \* who holds Logger::output_mutex_
    alive,        \* objects that are constructed and not yet destroyed
    http,         \* the thread of HttpServer::run
    http_running, \* HttpServer::running_
    queue,        \* requests handed to the pool
    accepted,     \* the requests it was handed so far
    worker,       \* where each worker is with its request
    launcher,     \* websocket_thread, which only starts the hub's own thread
    hub,          \* the hub's own thread
    joinable,     \* server_thread_ of WebSocketServer holds that thread
    io_stopped,   \* its io_context was stopped
    overlooked,   \* history: stop() did not join the thread while a handler ran
    misused       \* history: who used which object after its destruction

signalVars == <<handler, pending, signals, running>>
httpVars == <<http, http_running>>
poolVars == <<queue, accepted, worker>>
hubVars == <<launcher, hub, joinable, io_stopped, overlooked>>
vars == <<main, signalVars, mutex, alive, httpVars, poolVars, hubVars, misused>>

Thread == {"main", "http", "launcher", "hub"} \cup Worker

Sig == {"SIGINT", "SIGTERM"}

\* A call of signalHandler: before its line, or with the mutex.
Frame == [sig : Sig, pc : {"log", "locked"}]

Object == {"db", "server", "services", "hub"}

\* main(), in program order; the steps "log..." are LOG_INFO statements, the last
\* one with closeFileLogger.  Lines with nothing between them that another thread
\* could see are one step, here and in the other threads.
Place == {"log boot", "db", "http", "routes", "hub", "threads", "sleep", "log up",
          "loop", "log stop", "hub stop io", "hub join", "log hub", "http stop",
          "log http", "join http", "join launcher", "log closed", "services", "members",
          "pool", "db end", "statics", "log late", "late join", "log failed", "failed",
          "exited"}

LogPlace == {"log boot", "log up", "log stop", "log hub", "log http", "log closed",
             "log late", "log failed"}

After(p) ==
    CASE p = "log boot" -> "db"
      [] p = "log up" -> "loop"
      [] p = "log stop" -> "hub stop io"
      [] p = "log hub" -> "http stop"
      [] p = "log http" -> "join http"
      [] p = "log closed" -> "services"
      [] p = "log late" -> "late join"
      [] p = "log failed" -> "failed"

TypeOK ==
    /\ main \in Place
    /\ handler \in [Thread -> Seq(Frame)]
    /\ pending \subseteq Sig /\ signals \in 0..MaxSignals
    /\ running \in BOOLEAN
    /\ mutex \in {"nobody"} \cup Thread
    /\ alive \subseteq Object
    /\ http \in {"none", "new", "run", "up", "serving", "leaving", "ended"}
    /\ http_running \in BOOLEAN
    /\ queue \in Seq(Request) /\ accepted \subseteq Request
    /\ worker \in [Worker -> {"none", "idle", "route", "service", "db", "log", "exited"}]
    /\ launcher \in {"none", "new", "launch", "assign", "ended"}
    /\ hub \in {"none", "new", "listen", "serving", "handler", "log", "leaving", "returned"}
    /\ joinable \in BOOLEAN /\ io_stopped \in BOOLEAN /\ overlooked \in BOOLEAN
    /\ misused \subseteq Thread \X Object

Init ==
    /\ main = "log boot"
    /\ handler = [t \in Thread |-> <<>>]
    /\ pending = {} /\ signals = 0 /\ running = TRUE
    /\ mutex = "nobody"
    /\ alive = {}
    /\ http = "none" /\ http_running = FALSE
    /\ queue = <<>> /\ accepted = {}
    /\ worker = [w \in Worker |-> "none"]
    /\ launcher = "none" /\ hub = "none" /\ joinable = FALSE
    /\ io_stopped = FALSE /\ overlooked = FALSE
    /\ misused = {}

\* What a thread needs to have alive; recorded when it is not.
Uses(t, objects) == misused' = misused \cup ({t} \X (objects \ alive))

Busy == {w \in Worker : worker[w] \notin {"none", "idle", "exited"}}

\* The hub's thread is in on_open, on_message or on_close.
InHandler == hub \in {"handler", "log"}

-----------------------------------------------------------------------------
(* Signals.  A signal that is sent while it is pending is merged with it.  *)
(* It is taken by any thread that does not block it; signal() blocks it    *)
(* while its handler runs, in the thread that runs the handler.            *)

Exists(t) ==
    \/ t = "main" /\ main # "exited"
    \/ t = "http" /\ http \notin {"none", "ended"}
    \/ t = "launcher" /\ launcher \notin {"none", "ended"}
    \/ t = "hub" /\ hub \notin {"none", "returned"}
    \/ t \in Worker /\ worker[t] \notin {"none", "exited"}

\* The handlers on the thread's stack were called for these.
Blocked(t) == {handler[t][i].sig : i \in DOMAIN handler[t]}

signalRest == <<main, alive, httpVars, poolVars, hubVars, misused>>

Signal(s) ==
    /\ signals < MaxSignals
    /\ signals' = signals + 1
    /\ pending' = pending \cup {s}
    /\ UNCHANGED <<handler, running, mutex, signalRest>>

Deliver(t, s) ==
    /\ s \in pending /\ Exists(t) /\ s \notin Blocked(t)
    /\ pending' = pending \ {s}
    /\ handler' = [handler EXCEPT ![t] = <<[sig |-> s, pc |-> "log"]>> \o @]
    /\ UNCHANGED <<signals, running, mutex, signalRest>>

\* The newest handler of the thread, which alone of the thread's code runs.
InSignal(t, pc) == handler[t] # <<>> /\ Head(handler[t]).pc = pc

\* LOG_INFO: the line is written when output_mutex_ can be taken.
HandlerLocks(t) ==
    /\ InSignal(t, "log") /\ mutex = "nobody"
    /\ mutex' = t
    /\ handler' = [handler EXCEPT ![t] = <<[Head(@) EXCEPT !.pc = "locked"]>> \o Tail(@)]
    /\ UNCHANGED <<pending, signals, running, signalRest>>

\* The mutex is released; the flag, which only main's loop reads, is reset.
HandlerReturns(t) ==
    /\ InSignal(t, "locked")
    /\ mutex' = "nobody"
    /\ running' = FALSE
    /\ handler' = [handler EXCEPT ![t] = Tail(@)]
    /\ UNCHANGED <<pending, signals, signalRest>>

SignalStep(t) == HandlerLocks(t) \/ HandlerReturns(t)

\* A handler waits for the mutex that the code it has interrupted holds, a line
\* of the thread or of another handler: for ever.
WaitsForItself == \E t \in Thread : InSignal(t, "log") /\ mutex = t

HandlerStuck == WaitsForItself /\ UNCHANGED vars

-----------------------------------------------------------------------------
(* The logger.                                                             *)

\* The next thing the thread does is a line.
Writes(t) ==
    \/ t = "main" /\ main \in LogPlace
    \/ t = "http" /\ http \in {"new", "up", "leaving"}
    \/ t = "launcher" /\ launcher = "new"
    \/ t = "hub" /\ hub \in {"new", "log", "leaving"}
    \/ t \in Worker /\ worker[t] = "log"

Locks(t) ==
    /\ Writes(t) /\ mutex = "nobody"
    /\ mutex' = t
    /\ UNCHANGED <<signalVars, signalRest>>

\* The line is written.
Unlocks(t) == Writes(t) /\ mutex = t /\ mutex' = "nobody"

-----------------------------------------------------------------------------
(* The main thread.                                                        *)

At(p) == main = p

\* A log line or closeFileLogger is over.
MainUnlocks ==
    /\ Unlocks("main")
    /\ main' = After(main)
    /\ UNCHANGED <<signalVars, alive, httpVars, poolVars, hubVars, misused>>

OpenDb ==
    /\ At("db")
    /\ alive' = alive \cup {"db"}
    /\ main' = "http"
    /\ UNCHANGED <<signalVars, mutex, httpVars, poolVars, hubVars, misused>>

\* The constructor starts the pool's workers; it throws when the port is
\* taken, after the pool was constructed, and the pool is joined again.
CreateHttp ==
    /\ At("http")
    /\ \/ /\ alive' = alive \cup {"server"}
          /\ worker' = [w \in Worker |-> "idle"]
          /\ main' = "routes"
       \/ /\ main' = "log failed"
          /\ UNCHANGED <<alive, worker>>
    /\ UNCHANGED <<signalVars, mutex, httpVars, queue, accepted, hubVars, misused>>

CreateServices ==
    /\ At("routes")
    /\ alive' = alive \cup {"services"}
    /\ main' = "hub"
    /\ UNCHANGED <<signalVars, mutex, httpVars, poolVars, hubVars, misused>>

CreateHub ==
    /\ At("hub")
    /\ alive' = alive \cup {"hub"}
    /\ main' = "threads"
    /\ UNCHANGED <<signalVars, mutex, httpVars, poolVars, hubVars, misused>>

CreateThreads ==
    /\ At("threads")
    /\ http' = "new" /\ launcher' = "new"
    /\ main' = "sleep"
    /\ UNCHANGED <<signalVars, mutex, alive, http_running, poolVars, hub, joinable,
                   io_stopped, overlooked, misused>>

\* The 100 milliseconds are over, whether the threads have started or not.
Sleep ==
    /\ At("sleep")
    /\ main' = "log up"
    /\ UNCHANGED <<signalVars, mutex, alive, httpVars, poolVars, hubVars, misused>>

LeaveLoop ==
    /\ At("loop") /\ ~running
    /\ main' = "log stop"
    /\ UNCHANGED <<signalVars, mutex, alive, httpVars, poolVars, hubVars, misused>>

\* Variant: the event loop is not stopped.
LoopKept == io_stopped

\* server_.stop()
LoopStopped == TRUE

\* WebSocketServer::stop: closing the connections is left to WebSocketServer.
HubStopIo ==
    /\ At("hub stop io")
    /\ io_stopped' = LoopStopped
    /\ main' = "hub join"
    /\ UNCHANGED <<signalVars, mutex, alive, httpVars, poolVars, launcher, hub, joinable,
                   overlooked, misused>>

\* joinable() and join(): the thread may run already and server_thread_ not be
\* assigned yet; stop() then waits for nobody.
HubJoin ==
    /\ At("hub join")
    /\ joinable => hub = "returned"
    /\ joinable' = FALSE
    /\ overlooked' = (overlooked \/ InHandler)
    /\ main' = "log hub"
    /\ UNCHANGED <<signalVars, mutex, alive, httpVars, poolVars, launcher, hub, io_stopped,
                   misused>>

HttpStop ==
    /\ At("http stop")
    /\ http_running' = FALSE
    /\ main' = "log http"
    /\ UNCHANGED <<signalVars, mutex, alive, http, poolVars, hubVars, misused>>

HttpEnded == http = "ended"

JoinHttp ==
    /\ At("join http") /\ HttpEnded
    /\ main' = "join launcher"
    /\ UNCHANGED <<signalVars, mutex, alive, httpVars, poolVars, hubVars, misused>>

JoinLauncher ==
    /\ At("join launcher") /\ launcher = "ended"
    /\ main' = "log closed"
    /\ UNCHANGED <<signalVars, mutex, alive, httpVars, poolVars, hubVars, misused>>

\* End of the try block: the services go first, being declared last.
DestroyServices ==
    /\ At("services")
    /\ alive' = alive \ {"services"}
    /\ main' = "members"
    /\ UNCHANGED <<signalVars, mutex, httpVars, poolVars, hubVars, misused>>

\* ~HttpServer: routes_, middleware_ and static_dir_ are declared after
\* thread_pool_ and are destroyed before it.
DestroyMembers ==
    /\ At("members")
    /\ alive' = alive \ {"server"}
    /\ main' = "pool"
    /\ UNCHANGED <<signalVars, mutex, httpVars, poolVars, hubVars, misused>>

\* Variant: the pool is not joined.
NotDrained == TRUE

\* ~ThreadPool joins the workers, who leave when the queue is empty.
PoolEnded == \A w \in Worker : worker[w] = "exited"

DestroyPool ==
    /\ At("pool") /\ PoolEnded
    /\ main' = "db end"
    /\ UNCHANGED <<signalVars, mutex, alive, httpVars, poolVars, hubVars, misused>>

DestroyDb ==
    /\ At("db end")
    /\ alive' = alive \ {"db"}
    /\ main' = "statics"
    /\ UNCHANGED <<signalVars, mutex, httpVars, poolVars, hubVars, misused>>

\* ws_server is global: ~WebSocketServer stops and joins a thread that stop()
\* did not know of yet.
StopLate ==
    /\ At("statics") /\ joinable
    /\ main' = "log late"
    /\ UNCHANGED <<signalVars, mutex, alive, httpVars, poolVars, hubVars, misused>>

JoinLate ==
    /\ At("late join") /\ hub = "returned"
    /\ joinable' = FALSE
    /\ main' = "statics"
    /\ UNCHANGED <<signalVars, mutex, alive, httpVars, poolVars, launcher, hub, io_stopped,
                   overlooked, misused>>

DestroyHub ==
    /\ At("statics") /\ ~joinable
    /\ alive' = alive \ {"hub"}
    /\ main' = "exited"
    /\ UNCHANGED <<signalVars, mutex, httpVars, poolVars, hubVars, misused>>

\* The catch block, after the stack was unwound: there was only the database.
Fail ==
    /\ At("failed")
    /\ alive' = alive \ {"db"}
    /\ main' = "exited"
    /\ UNCHANGED <<signalVars, mutex, httpVars, poolVars, hubVars, misused>>

MainStep ==
    \/ MainUnlocks
    \/ OpenDb \/ CreateHttp \/ CreateServices \/ CreateHub \/ CreateThreads
    \/ Sleep \/ LeaveLoop
    \/ HubStopIo \/ HubJoin \/ HttpStop \/ JoinHttp \/ JoinLauncher
    \/ DestroyServices \/ DestroyMembers \/ DestroyPool \/ DestroyDb
    \/ StopLate \/ JoinLate \/ DestroyHub \/ Fail

-----------------------------------------------------------------------------
(* The thread of HttpServer::run and the workers.                          *)

httpRest == <<main, signalVars, alive, poolVars, hubVars, misused>>

HttpUnlocks ==
    /\ Unlocks("http")
    /\ http' = CASE http = "new" -> "run" [] http = "up" -> "serving"
                 [] http = "leaving" -> "ended"
    /\ UNCHANGED <<httpRest, http_running>>

RunHttp ==
    /\ http = "run"
    /\ http' = "up" /\ http_running' = TRUE
    /\ UNCHANGED <<httpRest, mutex>>

\* Nothing happened for a second.
HttpWaits == http = "serving" /\ http_running /\ UNCHANGED vars

LeaveHttp ==
    /\ http = "serving" /\ ~http_running
    /\ http' = "leaving"
    /\ UNCHANGED <<httpRest, mutex, http_running>>

HttpStep == HttpUnlocks \/ RunHttp \/ LeaveHttp

\* A client's request is handed to the pool; also in the round of events
\* during which stop() came.
Enqueue(r) ==
    /\ http = "serving" /\ r \notin accepted
    /\ queue' = Append(queue, r)
    /\ accepted' = accepted \cup {r}
    /\ UNCHANGED <<main, signalVars, mutex, alive, httpVars, worker, hubVars, misused>>

workerRest == <<main, signalVars, alive, httpVars, accepted, hubVars>>

Popped(q) == Tail(q)

Take(w) ==
    /\ worker[w] = "idle" /\ queue # <<>>
    /\ worker' = [worker EXCEPT ![w] = "route"]
    /\ queue' = Popped(queue)
    /\ UNCHANGED <<workerRest, mutex, misused>>

\* routeRequest reads middleware_, routes_ and static_dir_; it answers
\* itself or calls the handler, a method of a service.
Route(w) ==
    /\ worker[w] = "route"
    /\ Uses(w, {"server"})
    /\ \E next \in {"service", "log"} : worker' = [worker EXCEPT ![w] = next]
    /\ UNCHANGED <<workerRest, mutex, queue>>

\* The handler, up to a call of the database and after it.
CallDb(w) ==
    /\ worker[w] = "service"
    /\ Uses(w, {"services"})
    /\ worker' = [worker EXCEPT ![w] = "db"]
    /\ UNCHANGED <<workerRest, mutex, queue>>

Query(w) ==
    /\ worker[w] = "db"
    /\ Uses(w, {"db"})
    /\ worker' = [worker EXCEPT ![w] = "service"]
    /\ UNCHANGED <<workerRest, mutex, queue>>

Respond(w) ==
    /\ worker[w] = "service"
    /\ Uses(w, {"services"})
    /\ worker' = [worker EXCEPT ![w] = "log"]
    /\ UNCHANGED <<workerRest, mutex, queue>>

Finish(w) ==
    /\ Unlocks(w)
    /\ worker' = [worker EXCEPT ![w] = "idle"]
    /\ UNCHANGED <<workerRest, queue, misused>>

\* Variant: a worker leaves as soon as the pool is stopped.
LeavesAtOnce == main = "pool"

\* stop_ is set by ~ThreadPool, and the queue is empty.
MayLeave == main = "pool" /\ queue = <<>>

Leave(w) ==
    /\ worker[w] = "idle" /\ MayLeave
    /\ worker' = [worker EXCEPT ![w] = "exited"]
    /\ UNCHANGED <<workerRest, mutex, queue, misused>>

WorkerStep(w) ==
    Take(w) \/ Route(w) \/ CallDb(w) \/ Query(w) \/ Respond(w) \/ Finish(w) \/ Leave(w)

-----------------------------------------------------------------------------
(* The hub.                                                                *)

hubRest == <<main, signalVars, alive, httpVars, poolVars, io_stopped, overlooked>>

LauncherUnlocks ==
    /\ Unlocks("launcher")
    /\ launcher' = "launch"
    /\ UNCHANGED <<hubRest, hub, joinable, misused>>

\* WebSocketServer::run constructs the thread, which runs from now on, ...
Launch ==
    /\ launcher = "launch"
    /\ hub' = "new" /\ launcher' = "assign"
    /\ Uses("launcher", {"hub"})
    /\ UNCHANGED <<hubRest, mutex, joinable>>

\* ... assigns it to server_thread_, and returns.
Assign ==
    /\ launcher = "assign"
    /\ joinable' = TRUE /\ launcher' = "ended"
    /\ Uses("launcher", {"hub"})
    /\ UNCHANGED <<hubRest, mutex, hub>>

LauncherStep == LauncherUnlocks \/ Launch \/ Assign

HubUnlocks ==
    /\ Unlocks("hub")
    /\ hub' = CASE hub = "new" -> "listen" [] hub = "log" -> "handler"
                [] hub = "leaving" -> "returned"
    /\ UNCHANGED <<hubRest, launcher, joinable, misused>>

\* listen fails when the port is taken, and the thread ends.
Listen ==
    /\ hub = "listen"
    /\ hub' \in {"serving", "leaving"}
    /\ UNCHANGED <<hubRest, mutex, launcher, joinable, misused>>

BeginHandler ==
    /\ hub = "serving" /\ ~io_stopped
    /\ hub' = "handler"
    /\ UNCHANGED <<hubRest, mutex, launcher, joinable, misused>>

\* on_open, on_message and on_close use the hub's tables and the database,
\* write lines in between, ...
HandlerWrites ==
    /\ hub = "handler"
    /\ Uses("hub", {"hub", "db"})
    /\ hub' = "log"
    /\ UNCHANGED <<hubRest, mutex, launcher, joinable>>

\* ... and return.
EndHandler ==
    /\ hub = "handler"
    /\ Uses("hub", {"hub", "db"})
    /\ hub' = "serving"
    /\ UNCHANGED <<hubRest, mutex, launcher, joinable>>

\* The event loop of a stopped io_context returns at once.
EndLoop ==
    /\ hub = "serving" /\ io_stopped
    /\ hub' = "leaving"
    /\ UNCHANGED <<hubRest, mutex, launcher, joinable, misused>>

HubStep == HubUnlocks \/ Listen \/ HandlerWrites \/ EndHandler \/ EndLoop

-----------------------------------------------------------------------------

\* What a thread does of itself when no signal handler is on top of it.
CodeStep(t) ==
    \/ Locks(t)
    \/ t = "main" /\ MainStep
    \/ t = "http" /\ HttpStep
    \/ t = "launcher" /\ LauncherStep
    \/ t = "hub" /\ HubStep
    \/ t \in Worker /\ WorkerStep(t)

ThreadStep(t) == SignalStep(t) \/ (handler[t] = <<>> /\ CodeStep(t))

\* What comes from outside: signals, messages and requests.
Arrival ==
    \/ \E s \in Sig : Signal(s)
    \/ handler["hub"] = <<>> /\ BeginHandler
    \/ handler["http"] = <<>> /\ \E r \in Request : Enqueue(r)

Next ==
    \/ /\ main # "exited"
       /\ \/ Arrival
          \/ \E t \in Thread, s \in Sig : Deliver(t, s)
          \/ \E t \in Thread : ThreadStep(t)
    \/ HandlerStuck \/ HttpWaits
    \/ main = "exited" /\ UNCHANGED vars

Spec == Init /\ [][Next]_vars

\* Threads are scheduled, signals are delivered and handlers return; main and the
\* signal handlers get in the end a mutex that is free again and again.  Nobody has
\* to send a signal, a request or a message.
Fairness ==
    /\ WF_vars(main # "exited" /\ \E t \in Thread, s \in Sig : Deliver(t, s))
    /\ SF_vars(main # "exited" /\ \E t \in Thread : SignalStep(t))
    /\ SF_vars(main # "exited" /\ handler["main"] = <<>> /\ CodeStep("main"))
    /\ WF_vars(main # "exited" /\ handler["hub"] = <<>> /\ CodeStep("hub"))
    /\ WF_vars(main # "exited" /\ \E t \in Thread \ {"main", "hub"} :
                                   handler[t] = <<>> /\ CodeStep(t))
    /\ SF_vars(\E w \in Worker : handler[w] = <<>> /\ Respond(w))
    /\ SF_vars(handler["hub"] = <<>> /\ EndHandler)

FairSpec == Spec /\ Fairness

-----------------------------------------------------------------------------
(* Properties.                                                             *)

\* Whoever is in a call of the database or of the hub finds it alive, however
\* the end of main and the threads interleave.  The exception is the handler
\* that stop() overlooks when server_thread_ is not assigned yet: the database
\* may be closed under it.
DbAndHubOutliveUsers ==
    \A m \in misused : m[2] \in {"db", "hub"} => m = <<"hub", "db">> /\ overlooked

\* websocket_server.cpp:124, stop(): "wait for the server thread to end".
StopWaitsForHandlers ==
    main \in {"log hub", "http stop", "log http", "join http", "join launcher",
              "log closed", "services", "members", "pool", "db end", "statics"} =>
        ~InHandler

\* Every request the pool was given is finished before the database is closed.
\* When the process ends no thread is left that the end would cut off in the
\* middle of a request or a message, or that would end it with an error.
NothingCutOff ==
    /\ main \in {"db end", "statics", "log late", "late join", "exited"} =>
        queue = <<>> /\ Busy = {}
    /\ main = "exited" =>
        /\ http \in {"none", "ended"} /\ launcher \in {"none", "ended"}
        /\ hub \in {"none", "returned"} /\ ~joinable
        /\ \A w \in Worker : worker[w] \in {"none", "exited"}

\* run() set running_ after stop() had reset it.
StopForgotten == main = "join http" /\ http_running

\* A signal ends the program, whichever thread takes it, wherever main is and
\* whatever the threads are doing, with two exceptions: a handler that waits for
\* the logger's mutex held by the code under it, and run() that sets running_
\* after stop() had reset it.  (signals never falls, so the formula means "leads
\* to".)
SignalEndsProgram ==
    []<>(signals = 0 \/ main = "exited" \/ WaitsForItself \/ StopForgotten)

\* main.cpp:303: "the server was closed safely".
ClosedSafely == misused = {}
=============================================================================
