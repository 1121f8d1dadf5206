----------------------------- MODULE HttpServer -----------------------------
(***************************************************************************)
(* src/src/http/http_server.cpp: the event loop of run(), the workers that *)
(* execute handleClient, and stop() on the thread of main.                 *)
(*                                                                         *)
(* A connection is registered with epoll (edge-triggered) when it is       *)
(* accepted.  The first event takes it off epoll again: the loop closes it *)
(* when the client hung up, or hands its number to the thread pool, and    *)
(* the worker closes it.  Numbers are given again after they were closed.  *)
(* The kernel (the table of descriptors, the queue of connections that     *)
(* wait for accept, the list of ready descriptors) and the clients are     *)
(* external.  running_ and server_fd_ are read and written without a lock; *)
(* the build loads and stores them whole, so a read gives the old value or *)
(* the new one, and every access is a step of its own.                     *)
(***************************************************************************)
EXTENDS Naturals, Sequences, FiniteSets

CONSTANTS
    Conn,          \* connections clients may open
    Fd,            \* the descriptor numbers the process may use for sockets
    ListenFd,      \* the one socket() gave the listening socket
    Worker,
    NoFd,          \* server_fd_ = -1, and a worker without a descriptor
    Free,          \* content of a number that is not in use
    Listener,      \* content of the listening socket's number
    Other,         \* content of a number the rest of the process uses
    Taken,         \* numbers the rest of the process may use
    Whole          \* number of pieces a request can be cut into

ASSUME HttpAssumption ==
    /\ ListenFd \in Fd /\ NoFd \notin Fd
    /\ Conn \cap {Free, Listener, Other} = {}
    /\ Free # Listener /\ Free # Other /\ Listener # Other
    /\ Taken \subseteq Fd \ {ListenFd}
    /\ Whole \in Nat \ {0}
    /\ Worker # {}      \* main() constructs the server with four threads

VARIABLES
    fds,        \* what each number refers to
    interest,   \* numbers registered with epoll
    ready,      \* registered numbers with an edge that was not reported yet
    listening,  \* the listening socket was not shut down
    server_fd, running,
    loop,       \* where the thread of run() is
    batch,      \* events of this round still to be processed
    limited,    \* accept stopped at the limit of numbers, no connection came since
    tasks,      \* numbers handed to the pool, oldest first
    pool_open,
    worker,     \* where each worker is in handleClient
    wfd,        \* the number it was given
    main,       \* where the main thread is
    link,       \* each connection, seen from the server
    peer,       \* the client's end of it
    sent, got,  \* pieces of its request it has sent, the worker has read
    answer,     \* what the worker sent back
    again       \* history: who closed the listening socket's number a second time

sockets == <<fds, interest, ready, listening, server_fd>>
runVars == <<loop, batch, limited>>
pool == <<tasks, pool_open, worker, wfd>>
clients == <<peer, sent>>
vars == <<sockets, running, runVars, pool, main, link, clients, got, answer,
          again>>

Event == [fd : Fd, kind : {"in", "hup"}]

TypeOK ==
    /\ fds \in [Fd -> Conn \cup {Free, Listener, Other}]
    /\ interest \subseteq Fd /\ ready \subseteq interest
    /\ listening \in BOOLEAN
    /\ server_fd \in {ListenFd, NoFd}
    /\ running \in BOOLEAN
    /\ loop \in {"new", "check", "wait", "batch", "accept", "returned"}
    /\ batch \subseteq Event
    /\ limited \in BOOLEAN
    /\ tasks \in Seq(Fd)
    /\ pool_open \in BOOLEAN
    /\ worker \in [Worker -> {"idle", "recv", "send", "close"}]
    /\ wfd \in [Worker -> Fd \cup {NoFd}]
    /\ main \in {"up", "flag", "shut", "closed", "stopped", "joined", "draining",
                 "destroyed"}
    /\ link \in [Conn -> {"none", "waiting", "refused", "open", "served", "dropped"}]
    /\ peer \in [Conn -> {"open", "gone"}]
    /\ sent \in [Conn -> 0..Whole]
    /\ got \in [Conn -> 0..Whole]
    /\ answer \in [Conn -> {"none", "ok", "400"}]
    /\ again \in {"nobody", "loop", "worker"}

\* The constructor: the socket listens and is registered; the pool runs.
Init ==
    /\ server_fd = ListenFd
    /\ \E used \in SUBSET Taken :
        fds = [f \in Fd |-> IF f = ListenFd THEN Listener
                           ELSE IF f \in used THEN Other ELSE Free]
    /\ interest = {ListenFd}
    /\ ready = {}
    /\ listening = TRUE
    /\ running = FALSE
    /\ loop = "new" /\ batch = {} /\ limited = FALSE
    /\ tasks = <<>> /\ pool_open = TRUE
    /\ worker = [w \in Worker |-> "idle"]
    /\ wfd = [w \in Worker |-> NoFd]
    /\ main = "up"
    /\ link = [c \in Conn |-> "none"]
    /\ peer = [c \in Conn |-> "open"]
    /\ sent = [c \in Conn |-> 0]
    /\ got = [c \in Conn |-> 0]
    /\ answer = [c \in Conn |-> "none"]
    /\ again = "nobody"

Waiting == {c \in Conn : link[c] = "waiting"}

\* What epoll_wait reports of a number: a hang-up hides the data before it,
\* because run() tests the hang-up first.
Readable(f) ==
    \/ fds[f] = Listener /\ listening /\ Waiting # {}
    \/ /\ fds[f] \in Conn
       /\ peer[fds[f]] = "open" /\ sent[fds[f]] > got[fds[f]]

HungUp(f) ==
    \/ fds[f] = Listener /\ ~listening
    \/ fds[f] \in Conn /\ peer[fds[f]] # "open"

Reported == {[fd |-> f, kind |-> "in"] : f \in {g \in ready : Readable(g)}} \cup
            {[fd |-> f, kind |-> "hup"] : f \in {g \in ready : HungUp(g)}}

\* Registered numbers of connection c: those an event of c makes ready.
Edge(c) == {f \in interest : fds[f] = c}

-----------------------------------------------------------------------------
(* Clients, through the kernel.                                            *)

Connect(c) ==
    /\ link[c] = "none" /\ listening
    /\ link' = [link EXCEPT ![c] = "waiting"]
    /\ ready' = ready \cup Edge(Listener)
    /\ limited' = FALSE
    /\ UNCHANGED <<fds, interest, listening, server_fd, running, loop, batch, pool,
                   main, clients, got, answer, again>>

\* The peer can act as long as the server has not closed the connection.
Alive(c) == link[c] \in {"waiting", "open"}

\* What is left of the request, or a part of it.
Send(c) ==
    /\ Alive(c) /\ peer[c] = "open"
    /\ \E n \in sent[c] + 1 .. Whole : sent' = [sent EXCEPT ![c] = n]
    /\ ready' = ready \cup Edge(c)
    /\ UNCHANGED <<fds, interest, listening, server_fd, running, runVars, pool, main,
                   link, peer, got, answer, again>>

\* The client closes its writing side, or resets the connection.
HangUp(c) ==
    /\ Alive(c) /\ peer[c] = "open"
    /\ peer' = [peer EXCEPT ![c] = "gone"]
    /\ ready' = ready \cup Edge(c)
    /\ UNCHANGED <<fds, interest, listening, server_fd, running, runVars, pool, main,
                   link, sent, got, answer, again>>

-----------------------------------------------------------------------------
(* run()                                                                   *)

Run ==
    /\ loop = "new"
    /\ running' = TRUE
    /\ loop' = "check"
    /\ UNCHANGED <<sockets, batch, limited, pool, main, link, clients, got, answer, again>>

\* while (running_)
Check ==
    /\ loop = "check"
    /\ loop' = IF running THEN "wait" ELSE "returned"
    /\ UNCHANGED <<sockets, running, batch, limited, pool, main, link, clients, got,
                   answer, again>>

\* Variant: epoll_wait is called without a timeout.
NeverTimesOut == FALSE

TimesOut == Reported = {}

\* Nothing for a second, or a signal: the loop looks at running_ again.
WaitTimeout ==
    /\ loop = "wait" /\ TimesOut
    /\ loop' = "check"
    /\ UNCHANGED <<sockets, running, batch, limited, pool, main, link, clients, got,
                   answer, again>>

\* Edge-triggered: what is reported, or no longer true, leaves the ready list.
WaitEvents ==
    /\ loop = "wait" /\ Reported # {}
    /\ batch' = Reported
    /\ ready' = {}
    /\ loop' = "batch"
    /\ UNCHANGED <<fds, interest, listening, server_fd, running, limited, pool, main,
                   link, clients, got, answer, again>>

\* The branch of the listening socket: fd == server_fd_ is asked anew for
\* each event.
EventListener(e) ==
    /\ e.fd = server_fd
    /\ loop' = "accept"
    /\ UNCHANGED <<fds, interest, ready, link, tasks, again>>

\* Variant: the socket is closed and stays in the event loop's hands.
KeptInInterest(f) == interest

\* epoll_ctl(DEL)
Removed(f) == interest \ {f}

\* close(fd): the kernel forgets the registration with the last reference.
Closed(f) ==
    /\ fds' = [fds EXCEPT ![f] = Free]
    /\ interest' = interest \ {f}
    /\ ready' = ready \ {f}

\* removeFd and close.  The number is a client's, or that of the listening
\* socket when stop() has closed it and set server_fd_ to -1 since the event
\* was reported; then it is closed a second time.
EventHangUp(e) ==
    /\ e.fd # server_fd /\ e.kind = "hup"
    /\ Closed(e.fd)
    /\ link' = [c \in Conn |-> IF c = fds[e.fd] THEN "dropped" ELSE link[c]]
    /\ again' = IF fds[e.fd] = Free THEN "loop" ELSE again
    /\ loop' = "batch"
    /\ UNCHANGED tasks

\* removeFd and enqueue; the number may be the listening socket's as well.
EventReadable(e) ==
    /\ e.fd # server_fd /\ e.kind = "in"
    /\ interest' = Removed(e.fd)
    /\ ready' = ready \cap interest'
    /\ tasks' = Append(tasks, e.fd)
    /\ loop' = "batch"
    /\ UNCHANGED <<fds, link, again>>

NextEvent ==
    /\ loop = "batch"
    /\ \E e \in batch :
        /\ batch' = batch \ {e}
        /\ EventListener(e) \/ EventHangUp(e) \/ EventReadable(e)
    /\ UNCHANGED <<listening, server_fd, running, limited, pool_open, worker, wfd,
                   main, clients, got, answer>>

BatchDone ==
    /\ loop = "batch" /\ batch = {}
    /\ loop' = "check"
    /\ UNCHANGED <<sockets, running, batch, limited, pool, main, link, clients, got,
                   answer, again>>

FreeFds == {f \in Fd : fds[f] = Free}

\* accept(server_fd_) gives a connection: server_fd_ is a listening socket.
CanAccept ==
    /\ server_fd # NoFd /\ fds[server_fd] = Listener /\ listening
    /\ Waiting # {} /\ FreeFds # {}

\* Variant: data that came before the registration makes no edge.
NothingPending(c) == FALSE

\* EPOLL_CTL_ADD reports what is there already.
Pending(c) == sent[c] > got[c] \/ peer[c] # "open"

AcceptOne ==
    /\ loop = "accept" /\ CanAccept
    /\ \E c \in Waiting, f \in FreeFds :
        /\ fds' = [fds EXCEPT ![f] = c]
        /\ interest' = interest \cup {f}
        /\ ready' = IF Pending(c) THEN ready \cup {f} ELSE ready
        /\ link' = [link EXCEPT ![c] = "open"]
    /\ UNCHANGED <<listening, server_fd, running, runVars, pool, main, clients, got,
                   answer, again>>

\* Variant: one connection is accepted for each event of the socket.
AcceptMayEndEarly == TRUE

\* accept fails: nobody waits, the socket is gone, or no number is free.
AcceptMayEnd == ~CanAccept

AcceptEnds ==
    /\ loop = "accept" /\ AcceptMayEnd
    /\ loop' = "batch"
    /\ limited' = (limited \/ FreeFds = {})
    /\ UNCHANGED <<sockets, running, batch, pool, main, link, clients, got, answer, again>>

-----------------------------------------------------------------------------
(* handleClient, in a worker.                                              *)

\* The pool gives the oldest task to a worker.
Take(w) ==
    /\ worker[w] = "idle" /\ tasks # <<>>
    /\ wfd' = [wfd EXCEPT ![w] = Head(tasks)]
    /\ tasks' = Tail(tasks)
    /\ worker' = [worker EXCEPT ![w] = "recv"]
    /\ UNCHANGED <<sockets, running, runVars, pool_open, main, link, clients, got,
                   answer, again>>

\* The connection a worker's number refers to, or Free if the number is that
\* of the listening socket, closed by stop().
Served(w) == fds[wfd[w]]

\* Variant: a request that is not complete is dropped.
GivesUpOnPieces(c) == peer[c] # "open" \/ sent[c] < Whole

\* A client that closed its side, or sent nothing, is left without an answer,
\* whatever was read.
GivesUp(c) == peer[c] # "open" \/ sent[c] = 0

\* recv until it has no more: what arrived before the last call is read.
Recv(w) ==
    /\ worker[w] = "recv" /\ Served(w) \in Conn
    /\ LET c == Served(w)
       IN  /\ got' = [got EXCEPT ![c] = sent[c]]
           /\ worker' = [worker EXCEPT ![w] = IF GivesUp(c) THEN "close" ELSE "send"]
    /\ UNCHANGED <<sockets, running, runVars, tasks, pool_open, wfd, main, link,
                   clients, answer, again>>

\* recv fails on a number that is not open.
RecvStale(w) ==
    /\ worker[w] = "recv" /\ Served(w) = Free
    /\ worker' = [worker EXCEPT ![w] = "close"]
    /\ UNCHANGED <<sockets, running, runVars, tasks, pool_open, wfd, main, link,
                   clients, got, answer, again>>

\* HttpRequest::parse refuses a request that is not complete.  "ok" is any
\* other answer, the 500 for a handler that raised included.
Answer(c) == IF got[c] < Whole THEN "400" ELSE "ok"

\* One send; how much of a long answer it takes is left out.
Reply(w) ==
    /\ worker[w] = "send"
    /\ LET c == Served(w)
       IN  answer' = [answer EXCEPT ![c] = Answer(c)]
    /\ worker' = [worker EXCEPT ![w] = "close"]
    /\ UNCHANGED <<sockets, running, runVars, tasks, pool_open, wfd, main, link,
                   clients, got, again>>

CloseClient(w) ==
    /\ worker[w] = "close"
    /\ Closed(wfd[w])
    /\ link' = [c \in Conn |-> IF c = Served(w) THEN "served" ELSE link[c]]
    /\ again' = IF Served(w) = Free THEN "worker" ELSE again
    /\ worker' = [worker EXCEPT ![w] = "idle"]
    /\ wfd' = [wfd EXCEPT ![w] = NoFd]
    /\ UNCHANGED <<listening, server_fd, running, runVars, tasks, pool_open, main,
                   clients, got, answer>>

-----------------------------------------------------------------------------
(* stop(), the join of the thread and the destructor, on the main thread.  *)

StopFlag ==
    /\ main = "up"
    /\ running' = FALSE
    /\ main' = "flag"
    /\ UNCHANGED <<sockets, runVars, pool, link, clients, got, answer, again>>

\* shutdown(): who waits is reset, and a thread in epoll_wait is told.
StopShutdown ==
    /\ main = "flag"
    /\ listening' = FALSE
    /\ link' = [c \in Conn |-> IF c \in Waiting THEN "refused" ELSE link[c]]
    /\ ready' = ready \cup Edge(Listener)
    /\ main' = "shut"
    /\ UNCHANGED <<fds, interest, server_fd, running, runVars, pool, clients, got,
                   answer, again>>

StopClose ==
    /\ main = "shut"
    /\ Closed(server_fd)
    /\ main' = "closed"
    /\ UNCHANGED <<listening, server_fd, running, runVars, pool, link, clients, got,
                   answer, again>>

StopClear ==
    /\ main = "closed"
    /\ server_fd' = NoFd
    /\ main' = "stopped"
    /\ UNCHANGED <<fds, interest, ready, listening, running, runVars, pool, link,
                   clients, got, answer, again>>

\* Variant: main does not wait for the thread of run().
JoinsNobody == TRUE

\* server_thread.join()
LoopJoined == loop = "returned"

Join ==
    /\ main = "stopped" /\ LoopJoined
    /\ main' = "joined"
    /\ UNCHANGED <<sockets, running, runVars, pool, link, clients, got, answer, again>>

\* ~HttpServer: stop() finds server_fd_ = -1, and ~ThreadPool begins.
DestroyPool ==
    /\ main = "joined"
    /\ running' = FALSE
    /\ pool_open' = FALSE
    /\ main' = "draining"
    /\ UNCHANGED <<sockets, runVars, tasks, worker, wfd, link, clients, got, answer, again>>

Drained ==
    /\ main = "draining"
    /\ tasks = <<>> /\ \A w \in Worker : worker[w] = "idle"
    /\ main' = "destroyed"
    /\ UNCHANGED <<sockets, running, runVars, pool, link, clients, got, answer, again>>

Over == main = "destroyed" /\ UNCHANGED vars

-----------------------------------------------------------------------------

ClientStep(c) ==
    Connect(c) \/ Send(c) \/ HangUp(c)

LoopStep ==
    \/ Run \/ Check \/ WaitTimeout \/ WaitEvents
    \/ NextEvent \/ BatchDone
    \/ AcceptOne \/ AcceptEnds

WorkerStep(w) == Take(w) \/ Recv(w) \/ RecvStale(w) \/ Reply(w) \/ CloseClient(w)

StopStep ==
    \/ StopShutdown \/ StopClose \/ StopClear
    \/ Join \/ DestroyPool \/ Drained

Next ==
    \/ \E c \in Conn : ClientStep(c)
    \/ LoopStep
    \/ \E w \in Worker : WorkerStep(w)
    \/ StopFlag \/ StopStep
    \/ Over

Spec == Init /\ [][Next]_vars

\* Threads are scheduled, epoll_wait returns within a second, handlers
\* return, and stop() goes on once it began.  Clients owe nothing.
Fairness ==
    /\ WF_vars(LoopStep)
    /\ \A w \in Worker : WF_vars(WorkerStep(w))
    /\ WF_vars(StopStep)

FairSpec == Spec /\ Fairness

-----------------------------------------------------------------------------
(* Properties.                                                             *)

Queued == {tasks[i] : i \in DOMAIN tasks}

Held == {wfd[w] : w \in {v \in Worker : worker[v] # "idle"}}

\* The listening socket's number, after stop() has closed it.
Stale(f) == f = ListenFd /\ fds[f] = Free

\* A client's descriptor is in one place: registered with epoll, queued once,
\* or in the hands of one worker; and never in none, which would leak it.
\* This is why it is closed once, and why a number that was given again is
\* not read or closed on behalf of the connection that had it before.  The
\* one number used after it was closed is the listening socket's, in the race
\* of stop() with the loop, and by then no connection can have got it.  An
\* event that waits in the batch is about the socket that still has the number,
\* although numbers are closed and given again while the batch is processed.
OneKeeper ==
    /\ \A f \in interest : fds[f] # Free
    /\ \A f \in Queued \cup Held : fds[f] \in Conn \/ Stale(f)
    /\ \A i, j \in DOMAIN tasks : tasks[i] = tasks[j] => i = j
    /\ \A w, v \in Worker : worker[w] # "idle" /\ wfd[w] = wfd[v] => w = v
    /\ interest \cap Queued = {} /\ interest \cap Held = {} /\ Queued \cap Held = {}
    /\ \A f \in Fd : fds[f] \in Conn => f \in interest \cup Queued \cup Held
    /\ \A e \in batch : e.fd \in interest \/ Stale(e.fd)

\* A client that waits is announced to the loop: by an edge to come, by an
\* event at hand, or by the accept loop being at work.  Otherwise accept gave
\* up for want of descriptors and nobody has connected since.
WaitingAnnounced ==
    Waiting # {} =>
        \/ Edge(Listener) \cap ready # {}
        \/ \E e \in batch : e.fd = server_fd
        \/ loop = "accept"
        \/ limited

\* What a registered client has sent, or its hang-up, is announced too.
DataAnnounced ==
    \A f \in interest :
        fds[f] \in Conn /\ Pending(fds[f]) => f \in ready \/ \E e \in batch : e.fd = f

\* An edge is reported once; whoever misses it leaves the client alone for ever.
\* So no client is overlooked, in whatever order the loop, the workers and the
\* clients act and numbers are given again: not between connect and accept, nor
\* between accept and the registration, nor while a round of events is processed.
NobodyOverlooked == WaitingAnnounced /\ DataAnnounced

\* A connection that was accepted is closed without an answer only when its
\* client has hung up, also by a loop and workers that stop() has overtaken.
NoSilentClose ==
    \A c \in Conn :
        link[c] \in {"served", "dropped"} /\ answer[c] = "none" => peer[c] # "open"

\* The loop and the workers use the pool as an Executor: a connection is
\* submitted once, started in order, finished once, and nothing is submitted
\* after the pool was closed, which would throw out of run().  Free stands
\* for the task with the listening socket's number, of which there is one.
Pool == INSTANCE Executor WITH
    Task <- Conn \cup {Free},
    open <- pool_open,
    backlog <- [i \in DOMAIN tasks |-> fds[tasks[i]]],
    active <- {fds[f] : f \in Held},
    finished <- {c \in Conn : link[c] = "served"} \cup
                {c \in {Free} : again = "worker"}

UsesPool == Pool!ExecutorSpec

\* Every client that did anything is looked at and its connection closed,
\* after an answer unless it hung up (NoSilentClose), as long as the server
\* runs.  The exception is a client that still waits after accept met the limit
\* of descriptors; who was accepted is served then too.  A client acts finitely
\* often, so that all of them have been served again and again says the same as
\* that each one is served.
EveryoneIsServed ==
    []<>(\A c \in Conn :
            link[c] \in {"waiting", "open"} /\ (sent[c] > 0 \/ peer[c] # "open") =>
                main # "up" \/ (link[c] = "waiting" /\ limited))

\* stop() makes run() return and the destructor come to its end, unless
\* run() began after it and has set running_ again.  (stop() is called once,
\* so the formula means "leads to".)
StopEndsRun == []<>(main \in {"up", "destroyed"} \/ running)
=============================================================================
