# SwiftChat: a verification project in TLA+

SwiftChat is a chat server in C++: an HTTP API for accounts, rooms and message history, a WebSocket hub for
live chat, and one SQLite database behind both. The modules here model the parts of the server that keep state or take
decisions, TLC checks them on small instances, and TLAPS proves the most important properties for every value of the
constants. Paths below are relative to the root of the repository, which `PROJECT.json` calls `src/`.

## 1. Inventory

### Components, their state and their operations

| component | source | state | operations |
|---|---|---|---|
| Chat hub | `src/websocket/websocket_server.*` | four maps: user to connection and back, room to members, user to room; `connection_mutex_` | websocketpp's open, close and message handlers; messages `auth`, `join_room`, `leave_room`, `chat_message`, `ping`; `stop()` |
| Thread pool | `src/utils/thread_pool.hpp` | task queue, `stop`, a mutex, a condition variable, the workers | `enqueue`, the worker loop, the destructor |
| Room service | `src/service/room_service.*` | none of its own | create, join, leave, delete, update, two listings |
| Message service | `src/service/message_service.*` | none of its own | `getMessages` |
| Auth service | `src/service/auth_service.*` | none of its own | register, login, logout |
| User and server service | `src/service/user_service.*`, `server_service.*` | none | list of users, single reads, constant answers |
| Repositories, connection, schema | `src/db/*` | tables `users`, `rooms`, `room_members`, `messages`; one recursive mutex | one SQL statement or two per call |
| HTTP server and epoll loop | `src/http/http_server.*`, `epoller.*` | `server_fd_`, `running_`, the routes, the client descriptors | `run`, `stop`, accept, dispatch to a worker, `handleClient` |
| Requests and routing | `src/http/http_request.*`, `http_server.*`, `src/middleware`, `src/utils/jwt_utils.*` | the table of routes, in order | parse, match, verify a token, call a handler |
| Lifecycle | `src/main.cpp` | the flag the signal handler sets; who owns what | construction, two server threads, shutdown |
| Timer | `src/utils/timer.*` | `running_`, a thread, a condition variable, a priority queue | `start`, `stop`, two kinds of tasks, the loop; no code of the server uses it |
| Logger | `src/utils/logger.*` | the log file and its mutex | output |
| Model classes | `src/model` | plain records | none |

### How they interact

- The epoll loop of the **HTTP server** accepts connections and gives each readable one to the **thread pool**. A worker
  parses, routes and calls one handler of a **service**. A handler makes several calls of the **repositories**; each
  call holds the mutex of the connection, and nothing is held between two calls. Handlers of different workers
  therefore interleave at every call.
- The **hub** runs its handlers on one asio thread. It calls `getUserById` and `saveMessage` of the same database. Its
  idea of which rooms exist and who is in them is its own: joining a room in the hub does not look at the table, and
  deleting a room over HTTP does not tell the hub.
- **main** starts one thread for each server, sleeps until a signal, then stops the hub, then the HTTP server. `stop()`
  of either server runs on the main thread while the server's own thread still works. At the end of main's block objects
  are destroyed in an order in which the services go before the pool that still runs their handlers.
- Every thread writes through the one mutex of the **logger**, and so does the signal handler, on top of whichever
  thread takes the signal.

### What is hard, and what makes each component correct

- *Hub.* A user who signs in elsewhere replaces a connection whose close handler runs later, after the user has moved
  on; handlers release the mutex in the middle; sends raise; `stop()` walks the maps. Correct: the two maps of
  connections are inverse, the two maps of rooms agree, no ghost stays in a room, clients are told the truth, and
  `stop()` returns.
- *Thread pool.* Notifications after the unlock, spurious wakeups, a destructor at any time. Correct: first in first
  out, each task once, none lost, no worker asleep on work, the destructor returns.
- *HTTP server.* Edge-triggered events, numbers of descriptors that are closed and given again, batches of events that
  grow old, `run()` against `stop()`. Correct: each descriptor has exactly one keeper, nobody who waits is forgotten,
  nobody is closed in silence, the pool is not used after its end, and `stop()` makes `run()` return.
- *Requests.* One read that may be too early, encodings, a token that expires between two looks at it, an order of
  routes. Correct: a part of a request is refused and a whole one is understood as it was meant, and who works on behalf
  of a user does so for the owner of the token.
- *Services and tables.* Everything checked in one call may be false in the next; two statements without a
  transaction; a kill between two calls. Correct: every request appears to take effect at one instant, whatever is
  stored belongs to a stored room, only a creator changes a room.
- *Accounts.* The check for a taken name never finds one, and the user is looked up again by name. Correct: of several
  registrations of a name one succeeds, and tokens are for the user whose credentials were given.
- *Listing.* Pages are cut out of a fresh read each time. Correct: what a client misses or sees twice is explained by
  the deletions and creations that came between its pages.
- *Lifecycle.* Signals at any time and in any thread, threads that start late and are known late, destruction while
  requests are under way. Correct: what is used is alive, accepted requests are finished, the process ends.
- *Timer.* A task added while the thread sleeps, a late thread, a callback that stops its own timer. Correct: tasks run
  when due and in order, none is slept over, nothing runs after `stop()`.

`PROJECT.json` lists every hazard with its line and the properties that would catch it going wrong.

## 2. Modules

| module | models | kind |
|---|---|---|
| `ChatPresence` | what the hub promises: who is online and where | abstract specification |
| `WebSocketServer` | the hub, websocketpp's events, `stop()` on the main thread | detailed, implements `ChatPresence` |
| `Executor` | what a pool promises, and what its user must not do | abstract specification |
| `ThreadPool` | the pool with its condition variable | detailed, implements `Executor` |
| `HttpServer` | the event loop, `handleClient`, `stop()` and the destructor | detailed, uses the pool as an `Executor` |
| `HttpMessages` | `HttpRequest::parse` and the bytes a browser sends | library of `HttpRouting` |
| `HttpRouting` | from the bytes of a request to the handler and its user | detailed, extends `HttpMessages` |
| `RoomDirectory` | rooms and members with requests that take effect at one instant | abstract specification |
| `Database` | tables `rooms`, `room_members`, `messages`; one operator per repository call | library of `HttpServices` |
| `HttpServices` | the handlers of the room and message services, call by call | detailed, implements `RoomDirectory` |
| `Accounts` | names registered once, logins by password | abstract specification |
| `AuthService` | the users table and the handlers of the auth service, call by call | detailed, implements `Accounts` |
| `Listing` | the paged lists of rooms and users and a client that collects the pages | detailed |
| `Lifecycle` | `main`: construction, signals, shutdown, with the mutex of the logger | detailed |
| `Timer` | the timer thread, its owner, its callbacks | detailed |
| `MC*` | constants, bounds and symmetry for TLC | |
| `*Proofs` | theorems about `WebSocketServer`, `ThreadPool`, `HttpServer`, `HttpRouting`, `HttpServices`, `AuthService`, `Listing`, `Lifecycle` (with `Timer` in its last part) | |

Names of actions and variables follow the source. The operators commented "Variant" beside a definition are
plausible bugs in it (a dropped guard, a forgotten reset, a swapped binding); each property is known to fail under
at least one of them. No specification uses a variant.

### WebSocketServer

`user_connections`, `connection_users`, `room_members` and `user_current_room` are the four maps, total functions here
with `NoConn`, `NoUser`, `{}` and `NoRoom` for "no entry". `task` is the handler the asio thread is in, with its locals
(connection, user, room). A handler that keeps the mutex is one action. A handler that
gives it up in between is several: `on_message` looks up the user, releases, and dispatches (`OnMessageKnown` then
`JoinRoom`, `LeaveRoom`, `ChatReadRoom`, ...), authentication verifies a token first and replies afterwards
(`Authenticate`, `AuthReply`), and a chat message is read, saved and broadcast (`ChatReadRoom`, `ChatSave`,
`ChatCast`). `main` is where the main thread is in `stop()`: it takes the mutex, closes the connections of
`connection_users_` one by one (`StopCloseOne`), releases it, stops the io context and joins. Handlers and the close
calls of `stop()` meet through the mutex (`MutexFree`) and the loop (`LoopFree`).

`client` is history: what the client of each open connection has been told, if it believes every message it gets. It
is what `ClientViewTrue` speaks of. The result of `saveMessage` is dropped, so a message goes the same way whether it
was stored or not, and the hub's model needs no database. A send to a connection that is no longer open raises, and the
handlers' `catch` blocks then try to send again; the paths that leave the event loop this way are modelled (`LoopExit`).

websocketpp is external: it opens a connection, delivers messages while it is open, and calls the close handler once
after either side has closed it, at any later time.

### ThreadPool

`tasks`, `stop` and each worker's position (`check`, `waiting`, `busy`, `exited`) with its `current` task. The mutex is
not a variable: each critical section is one action. `Enqueue` and `NotifyOne` are separate because `notify_one` is
called after the unlock; `Wait` puts a worker to sleep, `WakeOne` wakes any one sleeper or nobody, and
`SpuriousWakeup` wakes without a reason. `SetStop`, `NotifyAll` and `Join` are the destructor. `accepted`, `started` and
`done` are history. The callers finish their calls before the object is gone (`Join`): an obligation of the owner,
and `HttpServer` shows that the server meets it.

### HttpServer

Three kinds of threads: the loop (`loop`, `batch`), the workers (`worker`, `wfd`) and main in `stop()`, the join and
the destructor (`main`). `fds` says what each number of a descriptor refers to, `interest` and `ready` are epoll's two
sets under `EPOLLET`: a number becomes ready with an edge (`Edge`), `WaitEvents` takes all that is reported at once and
empties the list, and `Pending` is what `EPOLL_CTL_ADD` finds there already. `NextEvent` processes the round in any
order, with the three branches of `run()`: `EventListener`, `EventHangUp`, `EventReadable`. `fd == server_fd_` is asked
for each event, so that the race with `StopClose` and `StopClear` is in the model: the number of the listening socket
can be closed a second time by the loop or by a worker (`again` remembers who). `Closed` gives a number back, and
`AcceptOne` may get any free one. A worker has a number from `Take` to `CloseClient`; `Recv` reads once what there is,
`Answer` is 400 for a part of a request. `running_` and `server_fd_` are plain variables used by two threads; the build
loads and stores them whole, and each access is a step.

Clients connect, send their request in up to `Whole` pieces, hang up, or do nothing. `link` says how far the server has
come with each: waiting for accept, accepted ("open"), answered ("served") or closed without an answer ("dropped"). Who
waits when `stop()` shuts the listening socket down is "refused" and was never the server's. `Taken` are numbers other
parts of the process may use, so that accept meets the limit of descriptors.

### HttpMessages and HttpRouting

`Serialize` writes a request as a browser does, byte by byte where a rule of the parser looks at bytes (separators,
codes, line ends) and with one symbol for a word that no rule takes apart. `Parse` is `HttpRequest::parse` with the
query, the cookies, the headers and the body. `Arrive` and `Read` cut a request anywhere. `Routes` is the table in the
order in which `main` has the services register their routes; `RouteRequest` takes the first that matches and asks the
middleware, `Handle` is the handler as far as it asks again for the user of the token, and `Expire` can come between
the two.

### Database and HttpServices

`rooms`, `room_members` and `messages` are the tables. A repository call is one operator, atomic under the mutex of the
connection, with primary keys, `UNIQUE(name)`, foreign keys and `ON DELETE CASCADE`. Messages are numbered and a
table holds how many a room has. `drawn` remembers the ids that were given to a room: an id that is drawn again may be
that of a stored room, and the insertion fails; that 32 random bits repeat the id of a *deleted* room while a request
still holds it is left out. With such a repetition a request could delete another user's room.

`req[w]` is the request worker `w` has in hand: its operation, user, room, locals, and `pc`, the next repository call or
the answer. One action is one call and the decision that follows it, up to the next call: `JoinExists`, `JoinRecheck`,
`JoinAdd`, `DeleteExists`, `DeleteCreator`, `DeleteRow` and so on. `Receive` begins a handler with a valid token's user,
`Reply` sends the answer, `Restart` kills the process and starts it on the same file. `HubSaves` is the hub's
`saveMessage` among the calls of the workers.

`RoomDirectory` gives each request an instant at which it takes effect, between its arrival and its answer. A
creation has two (the room appears, its creator enters) because the code makes two statements of it without a
transaction, and a history request two (admitted, read), because the membership is checked before the messages are
read. All other requests have one.

### AuthService

`users` maps ids to a name and a password or to `NoUser`. `Name` and `Id` may share members, because `userExists` is
asked with a name and looks for an id. `Accounts` sees the password of each name, and a call that is pending, decided
or answered; the decision of a registration is the insertion, that of a login the comparison of the password. Hashing
is injective in the code (a suffix) and left out. `logoutUser` keeps no state: it answers 401 unless a header
`X-Username` is there (`HttpRouting`).

### Listing

`list` says whether it is the list of rooms or of users. `order` is the result of `getAllRooms`, newest first, or of
`getAllUsers`, in the order of insertion; `created_at` is in nanoseconds and taken to grow from one insertion to the
next. `pager` is a client that begins at offset 0 and goes on by the limit of the answer until it has passed the total.
Each request may ask for a different limit, a wrong one included.

### Lifecycle

`main` is the next thing the main thread does, in program order, with the `LOG_INFO` statements that take the mutex of
the logger. `alive` are the objects that are constructed and not destroyed ("server" stands for the members of
`HttpServer` that handlers read); `Uses` records in `misused` what a thread used without it. The threads may start after
main's pause of 100 ms, the constructor of `HttpServer` and the hub's `listen` may fail.

A signal is `pending` until some thread takes it (`Deliver`): any thread that exists, between any two of its steps.
`handler[t]` is the stack of `signalHandler` calls on top of thread `t`. A thread does not take a signal whose handler
is on its stack, but it takes the other one, and another thread takes the same one again. Only the newest handler of a
thread runs, and nothing of the code below it. Its `LOG_INFO` is two steps, `HandlerLocks` and `HandlerReturns`, so a
further signal can come while it holds `output_mutex_`; a handler on top of the holder waits for ever
(`WaitsForItself`). Every line of every thread takes the mutex in one step and gives it back in another
(`Locks`, `Unlocks`). That the same handler would also wait for itself in `malloc` or `localtime`, if it interrupted
these, is left out: it is one more lock of the same kind.

`Launch` and `Assign` are the two halves of `server_thread_ = std::thread(...)` in the hub's `run()`: the thread runs
from the first on, and is `joinable` from the second. `HubJoin` joins it only if it is joinable, and `overlooked`
remembers that it was not while a handler ran. `~WebSocketServer` stops and joins a thread that `stop()` did not know
of (`StopLate`, `JoinLate`).

The three parts `HttpServer`, `ThreadPool` and `WebSocketServer` appear here as what concerns their lifetime only.

### Timer

`due[t]` counts down relative to the present, `NoTime` if `t` is not queued, and `Tick` lets time pass. `Top` and
`Recheck` are the two places where the loop looks at the queue, before and after its wait with a time limit; `Wake` is
the wait with a predicate. The owner starts and stops in any order; `StopInside` is a callback that stops the timer,
whose attempt to join itself raises. Assigning a thread that is still joinable ends the program (`crashed`). The
specification is called `TimerSpec`, because `LifecycleProofs` extends this module and `Lifecycle`.

## 3. Runs

| run | instance | states | what it checks |
|---|---|---|---|
| `ws_safety` | 3 users, 3 connections, 2 rooms, symmetric | 14,818 | all safety properties of the hub, implements `ChatPresence` |
| `ws_liveness` | 2 users, 2 connections, 1 room | 5,562 | `DeadSessionEnds`, `StopReturns` |
| `pool` | 3 workers, 2 callers, 3 tasks | 23,939 | order, once, no lost wakeup, drained, implements `Executor`; every accepted task runs, the destructor returns |
| `http` | 2 connections, 2 workers, 1 or 2 free descriptors, requests in up to 2 pieces | 954,851 | one keeper, nobody overlooked or closed in silence, uses `Executor`; everyone accepted is served, `stop()` ends `run()` |
| `requests` | every request of `MCHttpRouting`, cut at any byte | 2,212,804 | understood as meant, works for the token's subject, most specific route |
| `rooms` | 2 workers, 2 users, 2 rooms, 2 names, 1 text, 1 message per room, symmetric | 614,155 | no orphans, only the creator changes a room, name and creator are kept, implements `RoomDirectory` |
| `accounts` | 3 workers, 2 names, 3 ids, 2 passwords, symmetric | 146,551 | own tokens, implements `Accounts` |
| `listing` | 6 items, limits 1 and 2, symmetric | 95,383 | skips and repetitions are accounted for |
| `main` | 1 worker, 1 request, 2 signals, five threads that take them | 254,668 | what is used is alive, nothing is cut off, a signal ends the program |
| `timer` | 3 tasks, delays and periods up to 2, at most 2 late | 323,682 | order, quiet after stop, restart, nothing slept over, every task runs |
| `main_closed`, `main_joined` | 2 workers and 2 requests, or 1 and 1; 1 signal | | disagreements of code and documents, section 6 |

Why the bounds are enough for the case to happen:

- *Hub.* Three connections let one user be replaced twice, so that two late close handlers are in flight; three users
  let one watch while another is replaced in the room by a third; two rooms allow a switch. A connection
  is back at "none" after its close handler and stands for a new one from then on; no map remembers it.
- *Pool.* With three workers one can be busy, one asleep and one between waking up and the mutex; three tasks make the
  queue longer than one while a worker is busy; the destructor may come at any time.
- *HTTP server.* Two connections with one free descriptor: the second gets the number of the first while an event or a
  task of the first may be about, and accept meets its limit. With two descriptors both are served at the same time by
  two workers. Two pieces are the least that can be cut.
- *Requests.* Every value of up to two characters out of those that are encoded, bodies of up to four bytes of line
  ends (as many as end a head), no, one and two cookies, each cut at every byte; and every path of up to three segments
  over the words the routes have at each place and one other word, with every method and every state of a token.
- *Rooms.* Two workers run any pair of handlers, which is what every check-then-act needs; two rooms of one name make
  creations collide on the name and on the id, and a second name lets an update write back a name another room could
  take; and an id that is drawn again may be that of the other request's room. A third request is covered by `Receive`
  after `Reply`. `MaxMessages` bounds the number of messages of a room.
- *Accounts.* Two registrations and one login of the same name at the same time need three workers. Three ids for two
  names: an id is never the reason that no user can be added.
- *Listing.* Six items are six pages with creations and deletions between any two.
- *Main.* A second signal comes during the shutdown the first one began, while another thread, or the same one, is in
  the handler of the first: two are the least with which handlers overlap. One worker and one request are enough for
  the pool to be destroyed with the request queued, begun or in a service; `main_closed` has two of each.
- *Timer.* Three tasks allow one that runs, one the thread waits for and one that is added before it; with `MaxLate` 2
  two periods of a periodic task are missed.

Symmetry is used for safety runs only. `CHECK_DEADLOCK FALSE` is said only for `listing`, where the client ends with its
last page and the finite set of ids is used up; every other system that comes to its end stutters explicitly.
The type invariants are not run as properties: TLAPS proves them, that of every specification that describes the code.

## 4. Fairness

Liveness is checked under fairness that the program's scheduling gives:

- *Hub.* `WF(HandlerStep)`: a handler that was entered is run on by the asio thread. `WF(MainStep /\ ~StopListening)`:
  once main is in `stop()` it goes on; nothing obliges anyone to send the signal. `WF(LoopExit)`: `io_context::run`
  returns after `server_.stop()`. `SF(OnClose(c))`: strong, because the action is disabled while another handler is in
  progress; asio takes completions from a queue, so the close handler gets its turn. Clients are not fair at all.
- *Pool.* Weak fairness for each worker, for a call of `enqueue` that has not notified yet, and for the destructor
  once it began. Nobody has to call, and spurious wakeups are not fair: a proof of progress that needed one would be
  worthless. The tasks are assumed to return.
- *HTTP server.* Weak fairness for the loop, which has a time limit of a second in `epoll_wait`; for each worker, whose
  calls do not block; and for `stop()` once it began. No client has to do anything, also not to finish its request or to
  hang up: `EveryoneIsServed` is about those who sent something.
- *Main.* A pending signal is delivered (weak). Strong fairness for signal handlers and for main's code, because the
  mutex of the logger is taken away from them again and again and a thread that waits for a mutex that is released again
  and again gets it in the end. Weak fairness for the hub and for the other threads, while no signal handler is on top
  of them. Strong fairness for `Respond` and `EndHandler`, because a handler makes finitely many calls of the
  database and writes finitely many lines. No signal, request or message has to come.
- *Timer.* Time passes, the timer thread is scheduled (weakly: no other thread takes away what it needs for ever),
  callbacks return, `stop()` goes on once it began. Nobody has to add a task or to stop.

`HttpServices`, `AuthService`, `Listing` and `HttpRouting` state no liveness: a handler has no wait and no loop.

## 5. Proofs

All theorems hold for any sets of users, connections, descriptors, rooms, workers, tasks, requests and so on. The
assumptions are named and stand in the module that declares the constants (`NullAssumption`, `PoolAssumption`,
`HttpAssumption`, `NoRowAssumption`, `ServicesAssumption`, `AccountsAssumption`, `LimitAssumption`,
`LifecycleAssumption`, `TimerAssumption`, `RequestAssumption`): null values are not members, the two pools have a
worker (`main.cpp:208` gives the server four), bounds are natural numbers, a word of a request has no byte that
separates words, and a client has no two cookies of one name. Finiteness is not assumed.

- **Hub.** `Consistent` is inductive (`ConsistentAlways`). Besides the types it holds `SessionsMatch`, `RoomsMatch`,
  `NoGhosts`, `LocalsFresh` and one more conjunct, `SigningIn`: a connection whose token was verified is not signed in
  yet, and its close handler has not run, when `Authenticate` registers it. Without it that step could leave the
  connection with two users in `user_connections_`, or bring a ghost back. `LocalsFresh` rests on there being one asio
  thread: nothing but a handler changes the maps, and the task is the handler. From `Consistent` follow the invariants,
  `MapsStableInStop`, and `HubImplementsPresence`: every action is mapped to a step of `ChatPresence` or to a stutter.
  For what the clients know a second invariant is added (`Views`): an open connection speaks for the user its client
  signed in as, what that client was told is true, a closed one is told nothing, and the connection a sign-in is under
  way on is open. The last one needs that `stop()` only visits connections that are signed in, while it has the mutex.
  `ClientViewAlwaysTrue` and `ChatAlwaysReachesItsRoom` follow: a client that hears of a departure is the registered one
  of a user in that room (`LeftIsHeard`), so that nobody keeps believing in a user who has left.
- **Pool.** `Typed` (types, and that a busy worker holds a task) is kept by every step and supports the others. For
  `NeverLosesWakeup` the argument is that a worker only sleeps after it saw an empty queue, and that whoever fills the
  queue notifies afterwards. `Accounted` says that what was started is done or in the hands of a worker; with
  `FifoOnce` it gives `AlwaysDrained`, because workers leave only on an empty queue of a stopped pool. That an accepted
  task is queued once or with one worker (`InOnePlace`) gives `PoolImplementsExecutor`.
- **HTTP server.** `IInv` is inductive. `OneKeeper` alone is not: that a number in the hands of a worker is still the
  connection's needs `OneNumber` (a connection has one number and is open as long as it has it), `ListenerKept` (the
  number of the listening socket is never given to a connection, because nothing is accepted after it was closed) and
  `EventsOnce` (a round has one event per number, and none for a number that was handed over). `NoSilentClose` needs
  `Causes`: an event of a connection is there because it sent something or hung up. It has no exception for `stop()`:
  the loop finishes its round and the workers what they were given. `NobodyOverlooked` is its own
  invariant and says that edge-triggered events lose nobody. For those who wait to be accepted (`WaitingAnnounced`) an
  edge is consumed by an event, an event by the accept loop, and that ends with nobody waiting or at the limit. A number
  that is registered and whose client has sent something or hung up (`DataAnnounced`) is ready or in the round, because
  `EPOLL_CTL_ADD` reports what came before it, and an event is used up only together with its registration.
  `AlwaysUsesPool` maps `EventReadable`, `Take`, `CloseClient` and `DestroyPool` to the steps of `Executor` and
  all others to stutters; that nothing is submitted to a closed pool comes from main's join of the loop (`PoolMatches`).
- **Main.** `IInv` says for each place of main which objects are alive (`ObjectsAlive`), which threads may still run
  (`ThreadsMatch`) and that workers leave during the pool's destructor with the queue empty (`WorkersMatch`). The hub's
  thread may run while nobody can join it: `ThreadsMatch` says that then the launcher has still to assign it, and that a
  handler after `stop()` is one that `stop()` overlooked. Because main joins the launcher before the end of its block,
  the thread is joinable by then and `~WebSocketServer` joins it, so the hub outlives it in any case; the database does
  not (section 6). `OutliveUsers` and `CutsOffNothing` follow. The same invariant shows why the
  services and the routes do not outlive their users: nothing is joined between `DestroyServices` and `DestroyPool`.
- **Timer.** `TimerInv` relates what the owner did last to the state of the thread (`OwnerMatches`) and says that the
  task the thread sleeps for is queued. `StopQuiets`, `RestartsSafely` and `NoLostWakeup` follow; `RunsEarliest`
  follows from the types, because the loop reads the queue anew after each wait. `TimerInv` and its theorems are the
  last part of `LifecycleProofs`.
- **Services.** `Consistent` is `TypeOK` (a handler has set the locals its next call uses), `NoOrphans`, `NamesUnique`,
  that a stored room's id was drawn, and `CreatorSeen`: in the last step of an update or deletion, *if* the room is
  still there, its creator is the requester and its name the one the update read. That is what makes a check of
  some calls ago still good: ids are not drawn again while a request knows them, and names never change.
  `NamesUnique` is there for the proof only, since the two statements that write names
  check it. `OnlyCreatorEverChanges`, `NameAndCreatorAlwaysKept` and `ServicesImplementDirectory` follow.
- **Accounts.** `Consistent` adds to the types `NamesUnique` and `RowSeen`: a handler about to look the user up again
  by name has the row with its own name and password in the table. Rows never change (`RowsKept`), so the row found
  by name is that one: `TokenAlwaysOwn`. `ServiceImplementsAccounts` maps the insertion to the registration.
- **Lists.** `IInv` follows a client from page to page by what stands before the place it has come to and what behind.
  Of the rooms that are there all the time, those that stand before its place and were not listed (`Skipped`) are at
  most as many as were deleted: a deletion moves everything behind it one place to the front, so it takes at most one
  room over the client's place, and reading a page moves the place behind what was listed. Those that were listed and
  stand behind it again (`Repeatable`), with those already listed twice, are at most as many as were created, because a
  creation pushes at most one room over that place. Users are appended, so a client has exactly the first ones
  (`UsersInPlace`) and ends with as many as the last answer counts. The proof needs the cardinalities of these sets
  before and after an insertion in front, a removal and a page, for any order and any limit; `PagesCollected` is the
  case of the last page.
- **Requests.** `UnderstoodAsMeant` holds for all requests, of any words and any length, wherever they are cut. What is
  parsed is what `Parse` makes of what has arrived (`ParsedInv`), so the rest is `RequestUnderstood`, a statement about
  `Parse` and `Serialize` alone. These are built from recursive functions and folds, which are defined by `CHOOSE`: for
  each it is first shown that a function with its equation exists, built one position further each time (`FoldExists`,
  `Recursion`, `GrowthExists`, `UrlIterExists`, `DecimalIterExists`), so that the chosen one satisfies the equation.
  Induction itself is stated about a *set* of numbers or sequences (`SetInduction`, `SeqInduction`), whose complement
  would have a least element; a theorem with a set as its parameter can be cited where one with an operator cannot. On
  this rest the parts: what is joined by separators is split into the same pieces; what a browser encoded is decoded to
  itself (`DecodedAsEncoded`), also when a code ends the text; the number of Content-Length is read as it was written
  (`ReadAsWritten`); the tables of headers and cookies hold what was written (`HeadersRead`, `CookiesRead`); path and
  query are cut at the first `?` (`PathRead`, `QueryRead`). `HeadEnd` is the argument about cutting: no line of a head
  is empty, so the first empty line is the end of the head even if the body has one, and a piece that is cut off before
  it has none. A piece that is cut off in the body has fewer bytes than its Content-Length says.
- **Routing.** `Routed` is inductive: the chosen route is the first that matches, it stays so because nothing changes
  the request after it was parsed, and what waits in front of a handler, or has been done by it, is for the subject of
  the token if the route asks for one. That every route does, or is open to everybody, is a fact about the table
  (`AllGuarded`), and so is that of two routes with the same method and as many segments the first has no parameter
  (`NoneMoreSpecificLater`): the only pair of which both match one path is `users/me` and `users/{userId}`, in this
  order. Nothing is assumed of the bytes: these theorems hold for whatever `Parse` makes of any set of requests.
- **Nobody waits for everybody.** `PoolGoesOn`, `HubGoesOn`, `ServerGoesOn`, `ProgramGoesOn` and `StopHeard` say that
  while something is left to do, some thread that the code obliges to go on can take a step. They read the guards of
  the actions, since `ENABLED` is out of the prover's reach. In the pool, with a task queued or the destructor begun, a
  worker, a caller that has still to notify, or the destructor goes on. In the hub, with a handler entered, `stop()`
  begun or a connection dead, the asio thread, a close handler or main goes on, whoever has the mutex. In the HTTP
  server the loop and every worker with a connection always can, a queued task finds a worker, and what `stop()` and
  the destructor wait for goes on. In `main` some thread goes on until the process has ended, whichever threads took
  the signals, unless main's loop waits for a signal, a signal handler waits for the mutex held under it, or `stop()`
  came before `run()` and was forgotten (section 6). A timer's thread that `stop()` joins is not asleep without having
  been woken. Each follows from an invariant that says where one thread is while another waits for it (`StopMatches`,
  `LoopToldToStop`, `EndMatches`; `IInv` and `TimerInv` suffice for the others). This is the part of the liveness
  properties that is safety, the absence of deadlock; that a step which stays possible is taken is left to fairness.

Only model-checked is what needs fairness: `DeadSessionEnds`, `StopReturns`, `EveryTaskRuns`, `DestructorReturns`,
`EveryoneIsServed`, `StopEndsRun`, `SignalEndsProgram` and `QueuedTaskRuns`. Fairness is defined by `ENABLED`, which the
prover does not have. All other properties of the runs, invariants, action properties and refinements, are theorems.

## 6. Where code and documents disagree

Found while modelling, as runs:

| what the code does | what is written | run |
|---|---|---|
| Requests the pool finishes after main's block use services, routes and the middleware that were destroyed | `src/main.cpp:303`: "the server was closed safely" | `main_closed` |
| The hub's thread runs before `server_thread_` is assigned; a `stop()` in between joins nobody and returns during a handler, under which main may close the database | `websocket_server.cpp:124`: "wait for the server thread to end" | `main_joined` |

Also seen, and visible from the code without a run:

- a hub connection that never authenticates stays open (`docs/API.md:745` says 30 s), and so does an HTTP connection on
  which nothing arrives (`docs/http_server.md:47`);
- the result of `saveMessage` is dropped (`websocket_server.cpp:477`), so a message that was not stored, in a room that
  was deleted or never existed, is broadcast, as `docs/API.md:748` says it should be, but without the error reply that
  the same line promises;
- the limit of a history is applied to messages in ascending order, so a long history shows its oldest part
  (`message_repository.cpp:52`; `docs/database.md:322`: the newest messages);
- a taken user name is not found by `userExists` and answered with 500 (`auth_service.cpp:64`; `docs/API.md:47`: 409);
- accept stops at the limit of descriptors with connections waiting (`http_server.cpp:172`, against its comment at 158):
  the model has it (`limited`), and so have the properties as the exception they name;
- a `stop()` that comes before `run()` is forgotten (`http_server.cpp:129`), again as a named exception;
- a connection is closed after one answer, against the keep-alive of `docs/http_server.md:75`;
- a signal that arrives at a thread that holds the mutex of the logger makes it wait for itself (`main.cpp:163`,
  `logger.cpp:46`), a named exception as well: main in one of its lines, another thread that takes a second signal while
  main is in the handler of the first, or a SIGTERM on top of the handler of a SIGINT;
- the hub's failure to listen is reported after `main.cpp:266` has said that it was started;
- the list of methods in the preflight answer lacks PATCH (`docs/API.md:916`);
- `logout` cannot succeed without a header `X-Username` that nothing sets (`auth_service.cpp:274`);
- `GET /users/{id}/` with one more slash matches the route and is answered with 400 by the handler;
- the default limit of the list of users is 50 and not 10 (`docs/API.md:130`);
- one non-blocking send may cut a long answer; a Content-Length with a sign is taken as a number;
- the listening socket's number can be used once more after `stop()` has closed it; no connection can have got it by
  then (`OneKeeper`), another part of the process could;
- a timer stopped by its own callback keeps a thread that was not joined, and starting it again ends the program;
- what workers log after `closeFileLogger` reaches only the console;
- the creator of a room need not be a member (two statements, the result of the second dropped); deleting or updating a
  room that has just gone is answered with success.

## 7. Not modelled

- *HttpResponse*: `toString` writes out a record and no decision depends on it.
- *How much one send takes* depends on a buffer of the kernel and the length of the answer, which the model has not.
- *Logger* beyond its mutex: the texts, the level, the file, moves of a `LogStream`, and `localtime`'s shared buffer,
  which two threads can only garble in a line of text.
- *Static files*: a path is there or not; reading a file and choosing its type change no state.
- *Command line and configuration*: read once, before any thread exists.
- *A failing `prepare` or a closed database* answers an error before any state changes.
- *A Content-Length that is negative or no number* is not what a browser sends.
- *Repository calls that no handler makes* (`getRoomIdByName`, `getMessageById`) and single reads
  (`handleGetUserJoinedRooms`, the member counts of a page): they read one table once.
- *The expiry of a token in the hub*: it checks a token once, and a later expiry would be a step nobody reacts to.
- *Model classes, browser client, scripts and tests*: records without behaviour, and code outside the server. What a
  client knows is kept in `WebSocketServer`.
- *One module for the whole process.* The hub and the services meet in the database only, at single calls
  (`HubSaves`), the HTTP server and the pool meet through `Executor`, and `Lifecycle` has the order of all of
  them. Their product would check nothing that these interfaces do not.

## 8. Running it

    tlc -workers 2 -config MCWebSocketServer_safety.cfg MCWebSocketServer
    tlapm WebSocketServerProofs.tla

Every row of `runs` in `PROJECT.json` names a module and its configuration; `mutants` names for each property a variant
that breaks it, and `map` the source lines behind each definition.
