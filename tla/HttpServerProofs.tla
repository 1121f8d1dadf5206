-------------------------- MODULE HttpServerProofs --------------------------
(***************************************************************************)
(* Safety of HttpServer for any number of connections, descriptor numbers  *)
(* and workers: who owns a descriptor, why nobody waits unnoticed and why  *)
(* nobody is closed in silence, and that the pool is used as an Executor.  *)
(***************************************************************************)
EXTENDS HttpServer, TLAPS

Claimed == Queued \cup Held

\* The listening socket exists until stop() closes it, under one number,
\* which then is never given again.
ListenerKept ==
    /\ IF main \in {"up", "flag", "shut"}
       THEN fds[ListenFd] = Listener /\ ListenFd \in interest
       ELSE fds[ListenFd] = Free
    /\ \A f \in Fd : fds[f] = Listener => f = ListenFd
    /\ server_fd = IF main \in {"up", "flag", "shut", "closed"} THEN ListenFd ELSE NoFd
    /\ listening <=> main \in {"up", "flag"}
    /\ Waiting # {} => listening

\* A number of a connection means that the connection is open, and it has no
\* other number; nothing of the rest of the process is registered.
OneNumber ==
    /\ \A f \in Fd : fds[f] \in Conn => link[fds[f]] = "open"
    /\ \A f, g \in Fd : fds[f] \in Conn /\ fds[f] = fds[g] => f = g
    /\ \A f \in interest : fds[f] # Other

\* A worker has a number from Take to CloseClient.
Hands ==
    \A w \in Worker :
        /\ worker[w] = "idle" <=> wfd[w] = NoFd
        /\ worker[w] = "send" => fds[wfd[w]] \in Conn

\* A round of events has one event for a number, and none for a number that
\* was handed to the pool.
EventsOnce ==
    /\ \A e, d \in batch : e.fd = d.fd => e = d
    /\ \A e \in batch : e.fd \notin Claimed
    /\ loop \in {"new", "check", "wait", "returned"} => batch = {}

\* Why a connection is where it is: it hung up, or it sent something, or it
\* was answered.
Causes ==
    /\ \A e \in batch : fds[e.fd] \in Conn =>
        IF e.kind = "hup" THEN peer[fds[e.fd]] # "open" ELSE sent[fds[e.fd]] > 0
    /\ \A f \in Queued : fds[f] \in Conn => sent[fds[f]] > 0
    /\ \A w \in Worker : worker[w] # "idle" /\ fds[wfd[w]] \in Conn =>
        /\ worker[w] = "recv" => sent[fds[wfd[w]]] > 0
        /\ worker[w] = "close" => answer[fds[wfd[w]]] # "none" \/ peer[fds[wfd[w]]] # "open"

\* The pool is closed after run() has returned, and the listening socket's
\* number is never handed to it again.
PoolMatches ==
    /\ main \in {"joined", "draining", "destroyed"} => loop = "returned"
    /\ pool_open <=> main \notin {"draining", "destroyed"}
    /\ again = "worker" =>
        /\ main \notin {"up", "flag", "shut"} /\ ListenFd \notin Claimed
        /\ \A e \in batch : e.fd # ListenFd

IInv ==
    /\ TypeOK
    /\ ListenerKept
    /\ OneNumber
    /\ Hands
    /\ OneKeeper
    /\ EventsOnce
    /\ Causes
    /\ WaitingAnnounced
    /\ NoSilentClose
    /\ PoolMatches

-----------------------------------------------------------------------------

\* Before run() nobody is connected and the pool is empty.
LEMMA InitIInv == Init => IInv
  <1> SUFFICES ASSUME Init
               PROVE  IInv
    OBVIOUS
  <1>1. TypeOK
    <2>1. <<>> \in Seq(Fd)
      OBVIOUS
    <2>2. 0 \in 0..Whole
      BY HttpAssumption
    <2>3. fds \in [Fd -> Conn \cup {Free, Listener, Other}]
      BY DEF Init
    <2>4. ListenFd \in Fd
      BY HttpAssumption
    <2> QED
      BY <2>1, <2>2, <2>3, <2>4 DEF Init, TypeOK
  <1>2. Queued = {}
    <2>1. tasks = <<>>
      BY DEF Init
    <2>2. DOMAIN tasks = {}
      BY <2>1
    <2> QED
      BY <2>2 DEF Queued
  <1>3. Held = {} /\ Waiting = {}
    BY DEF Init, Held, Waiting
  <1>4. \A f \in Fd : fds[f] \in {Listener, Other, Free} /\ (fds[f] = Listener <=> f = ListenFd)
    BY HttpAssumption DEF Init
  <1>5. ListenerKept
    BY <1>3, <1>4, HttpAssumption DEF Init, ListenerKept
  <1>6. OneNumber
    BY <1>4, HttpAssumption DEF Init, OneNumber
  <1>7. Hands /\ EventsOnce /\ Causes /\ PoolMatches
    BY <1>2, <1>3 DEF Init, Hands, EventsOnce, Causes, PoolMatches
  <1>8. OneKeeper
    <2>1. \A i, j \in DOMAIN tasks : tasks[i] = tasks[j] => i = j
      BY DEF Init
    <2> QED
      BY <1>2, <1>3, <1>4, <2>1, HttpAssumption DEF Init, OneKeeper
  <1>9. WaitingAnnounced /\ NoSilentClose
    BY <1>3 DEF Init, WaitingAnnounced, NoSilentClose
  <1> QED
    BY <1>1, <1>5, <1>6, <1>7, <1>8, <1>9 DEF IInv

\* What the pool's threads have is changed by the workers only.
LEMMA ClaimsKept ==
  ASSUME UNCHANGED <<tasks, worker, wfd>>
  PROVE  Queued' = Queued /\ Held' = Held /\ Claimed' = Claimed
  BY DEF Queued, Held, Claimed

\* The edge of the listening socket, as long as it listens.
LEMMA ListenerEdge ==
  ASSUME IInv, listening
  PROVE  /\ Edge(Listener) = {ListenFd} /\ ListenFd \in interest /\ server_fd = ListenFd
         /\ fds[ListenFd] = Listener /\ ListenFd \in Fd
  <1>1. interest \subseteq Fd
    BY DEF IInv, TypeOK
  <1> QED
    BY <1>1, HttpAssumption DEF IInv, ListenerKept, Edge

-----------------------------------------------------------------------------
(* Clients.                                                                *)

\* A connection that waits has no number yet.
LEMMA ConnectIInv ==
  ASSUME IInv, NEW c \in Conn, Connect(c)
  PROVE  IInv'
  <1>1. /\ link[c] = "none" /\ listening
        /\ link' = [link EXCEPT ![c] = "waiting"]
        /\ ready' = ready \cup Edge(Listener)
        /\ UNCHANGED <<fds, interest, listening, server_fd, running, loop, batch, pool, main,
                       clients, got, answer, again>>
        /\ limited' = FALSE
    BY DEF Connect
  <1>2. Claimed' = Claimed /\ Queued' = Queued /\ Held' = Held
    BY <1>1, ClaimsKept DEF pool
  <1>3. Edge(Listener) = {ListenFd} /\ ListenFd \in interest
    BY <1>1, ListenerEdge
  <1>4. TypeOK'
    BY <1>1, <1>3 DEF IInv, TypeOK, pool, clients
  <1>5. ListenerKept'
    BY <1>1 DEF IInv, ListenerKept
  <1>6. OneNumber'
    BY <1>1 DEF IInv, TypeOK, OneNumber
  <1>7. Hands' /\ EventsOnce' /\ PoolMatches'
    BY <1>1, <1>2 DEF IInv, Hands, EventsOnce, PoolMatches, pool
  <1>8. OneKeeper'
    BY <1>1, <1>2 DEF IInv, OneKeeper, Stale, pool
  <1>9. Causes'
    BY <1>1, <1>2 DEF IInv, Causes, pool, clients
  <1>10. WaitingAnnounced'
    BY <1>1, <1>3 DEF WaitingAnnounced, Edge
  <1>11. NoSilentClose'
    BY <1>1 DEF IInv, TypeOK, NoSilentClose, clients
  <1> QED
    BY <1>4, <1>5, <1>6, <1>7, <1>8, <1>9, <1>10, <1>11 DEF IInv

\* What a client sends, and that it hangs up, raises an edge of its own number only.
LEMMA ClientActsIInv ==
  ASSUME IInv, NEW c \in Conn, Send(c) \/ HangUp(c)
  PROVE  IInv'
  <1>1. /\ ready' = ready \cup Edge(c)
        /\ UNCHANGED <<fds, interest, listening, server_fd, running, runVars, pool, main, link,
                       got, answer, again>>
        /\ \A d \in Conn : peer'[d] \in {peer[d], "gone"} /\ sent'[d] >= sent[d]
        /\ peer' \in [Conn -> {"open", "gone"}] /\ sent' \in [Conn -> 0..Whole]
    <2>1. CASE Send(c)
      <3>1. PICK n \in sent[c] + 1 .. Whole : sent' = [sent EXCEPT ![c] = n]
        BY <2>1 DEF Send
      <3>2. sent[c] \in Nat /\ Whole \in Nat /\ \A d \in Conn : sent[d] \in Nat
        BY HttpAssumption DEF IInv, TypeOK
      <3>3. n \in 0..Whole /\ n >= sent[c]
        BY <3>1, <3>2
      <3>4. sent' \in [Conn -> 0..Whole] /\ \A d \in Conn : sent'[d] >= sent[d]
        BY <3>1, <3>2, <3>3 DEF IInv, TypeOK
      <3> QED
        BY <2>1, <3>4 DEF Send, IInv, TypeOK
    <2>2. CASE HangUp(c)
      <3>1. \A d \in Conn : sent[d] \in Nat
        BY HttpAssumption DEF IInv, TypeOK
      <3> QED
        BY <2>2, <3>1 DEF HangUp, IInv, TypeOK
    <2> QED
      BY <2>1, <2>2
  <1>2. Claimed' = Claimed /\ Queued' = Queued /\ Held' = Held
    BY <1>1, ClaimsKept DEF pool
  <1>3. Edge(c) \subseteq interest
    BY DEF Edge
  <1>4. TypeOK'
    BY <1>1, <1>3 DEF IInv, TypeOK, pool, runVars
  <1>5. ListenerKept' /\ OneNumber' /\ Hands' /\ EventsOnce' /\ PoolMatches'
    BY <1>1, <1>2 DEF IInv, ListenerKept, OneNumber, Hands, EventsOnce, PoolMatches, pool, runVars,
       Waiting
  <1>6. OneKeeper'
    BY <1>1, <1>2 DEF IInv, OneKeeper, Stale, pool, runVars
  <1>7. Causes'
    <2>1. \A d \in Conn : /\ peer[d] # "open" => peer'[d] # "open"
                          /\ sent[d] > 0 => sent'[d] > 0
      <3>1. \A d \in Conn : sent[d] \in Nat /\ sent'[d] \in Nat
        BY <1>1, HttpAssumption DEF IInv, TypeOK
      <3> QED
        BY <1>1, <3>1
    <2> QED
      BY <1>1, <1>2, <2>1 DEF IInv, Causes, pool, runVars
  <1>8. WaitingAnnounced'
    BY <1>1 DEF IInv, WaitingAnnounced, Edge, Waiting, runVars
  <1>9. NoSilentClose'
    BY <1>1 DEF IInv, NoSilentClose
  <1> QED
    BY <1>4, <1>5, <1>6, <1>7, <1>8, <1>9 DEF IInv

-----------------------------------------------------------------------------
(* The event loop.                                                         *)

\* The steps that only say where the loop is.
LEMMA LoopControlIInv ==
  ASSUME IInv, Run \/ Check \/ WaitTimeout \/ BatchDone \/ AcceptEnds
  PROVE  IInv'
  <1> USE DEF Run, Check, WaitTimeout, BatchDone, AcceptEnds
  <1>1. /\ UNCHANGED <<sockets, batch, pool, main, link, clients, got, answer, again>>
        /\ loop' \in {"check", "wait", "returned", "batch"}
        /\ loop # "returned" /\ (loop' = "batch" <=> loop = "accept")
        /\ limited' \in BOOLEAN /\ running' \in BOOLEAN
    BY DEF IInv, TypeOK
  <1>2. loop # "accept" => batch' = {} /\ limited' = limited
    BY DEF IInv, EventsOnce
  <1>3. loop = "accept" => AcceptMayEnd /\ limited' = (limited \/ FreeFds = {})
    OBVIOUS
  <1> HIDE DEF Run, Check, WaitTimeout, BatchDone, AcceptEnds
  <1>4. Claimed' = Claimed /\ Queued' = Queued /\ Held' = Held
    BY <1>1, ClaimsKept DEF pool
  <1>5. TypeOK'
    BY <1>1 DEF IInv, TypeOK, sockets, pool, clients
  <1>6. ListenerKept' /\ OneNumber' /\ Hands'
    BY <1>1, <1>4 DEF IInv, ListenerKept, OneNumber, Hands, sockets, pool, Waiting
  <1>7. OneKeeper'
    BY <1>1, <1>4 DEF IInv, OneKeeper, Stale, sockets, pool
  <1>8. EventsOnce' /\ PoolMatches'
    BY <1>1, <1>2, <1>4 DEF IInv, EventsOnce, PoolMatches, pool
  <1>9. Causes' /\ NoSilentClose'
    BY <1>1, <1>4 DEF IInv, Causes, NoSilentClose, sockets, pool, clients
  <1>10. WaitingAnnounced'
    <2> SUFFICES ASSUME Waiting # {}
                 PROVE  WaitingAnnounced'
      BY <1>1 DEF WaitingAnnounced, Waiting
    <2>1. CASE loop = "accept"
      <3>1. listening /\ server_fd # NoFd /\ fds[server_fd] = Listener
        BY ListenerEdge, HttpAssumption DEF IInv, ListenerKept
      <3>2. limited'
        BY <1>3, <2>1, <3>1 DEF AcceptMayEnd, CanAccept
      <3> QED
        BY <3>2 DEF WaitingAnnounced
    <2>2. CASE loop # "accept"
      BY <1>1, <1>2, <2>2 DEF IInv, WaitingAnnounced, Edge, sockets
    <2> QED
      BY <2>1, <2>2
  <1> QED
    BY <1>5, <1>6, <1>7, <1>8, <1>9, <1>10 DEF IInv

\* What is reported is true when it is reported, and of registered numbers.
LEMMA WaitEventsIInv ==
  ASSUME IInv, WaitEvents
  PROVE  IInv'
  <1>1. /\ loop = "wait" /\ batch' = Reported /\ ready' = {} /\ loop' = "batch"
        /\ UNCHANGED <<fds, interest, listening, server_fd, running, limited, pool, main, link,
                       clients, got, answer, again>>
    BY DEF WaitEvents
  <1>2. Claimed' = Claimed /\ Queued' = Queued /\ Held' = Held
    BY <1>1, ClaimsKept DEF pool
  <1>3. \A e \in batch' : /\ e \in Event /\ e.fd \in ready /\ e.fd \in interest /\ e.fd \in Fd
                          /\ e.kind = "in" => Readable(e.fd)
                          /\ e.kind = "hup" => HungUp(e.fd)
                          /\ e = [fd |-> e.fd, kind |-> e.kind]
    BY <1>1 DEF IInv, TypeOK, Reported, Event
  <1>4. \A f \in Fd : ~(Readable(f) /\ HungUp(f))
    BY HttpAssumption DEF Readable, HungUp
  <1>5. TypeOK'
    BY <1>1, <1>3 DEF IInv, TypeOK, pool, clients
  <1>6. ListenerKept' /\ OneNumber' /\ Hands'
    BY <1>1 DEF IInv, ListenerKept, OneNumber, Hands, pool, Waiting
  <1>7. EventsOnce'
    <2>1. \A e, d \in batch' : e.fd = d.fd => e = d
      BY <1>3, <1>4 DEF Event
    <2>2. \A e \in batch' : e.fd \notin Claimed
      BY <1>3 DEF IInv, OneKeeper, Claimed
    <2> QED
      BY <1>1, <1>2, <2>1, <2>2 DEF EventsOnce
  <1>8. OneKeeper'
    BY <1>1, <1>2, <1>3 DEF IInv, OneKeeper, Stale, pool
  <1>9. Causes'
    <2>1. ASSUME NEW e \in batch', fds[e.fd] \in Conn
          PROVE  IF e.kind = "hup" THEN peer[fds[e.fd]] # "open" ELSE sent[fds[e.fd]] > 0
      <3>1. e.kind \in {"in", "hup"} /\ fds[e.fd] # Listener
        BY <1>3, <2>1, HttpAssumption DEF Event
      <3>2. CASE e.kind = "hup"
        BY <1>3, <2>1, <3>1, <3>2 DEF HungUp
      <3>3. CASE e.kind = "in"
        <4>1. sent[fds[e.fd]] > got[fds[e.fd]]
          BY <1>3, <3>1, <3>3 DEF Readable
        <4>2. sent[fds[e.fd]] \in Nat /\ got[fds[e.fd]] \in Nat
          BY <2>1, HttpAssumption DEF IInv, TypeOK
        <4> QED
          BY <3>3, <4>1, <4>2
      <3> QED
        BY <3>1, <3>2, <3>3
    <2> QED
      BY <1>1, <1>2, <2>1 DEF IInv, Causes, pool, clients
  <1>10. WaitingAnnounced'
    <2> SUFFICES ASSUME Waiting # {}
                 PROVE  WaitingAnnounced'
      BY <1>1 DEF WaitingAnnounced, Waiting
    <2>1. listening /\ Edge(Listener) = {ListenFd} /\ server_fd = ListenFd
          /\ fds[ListenFd] = Listener /\ ListenFd \in Fd
      BY ListenerEdge DEF IInv, ListenerKept
    <2>2. CASE ListenFd \in ready
      <3>1. [fd |-> ListenFd, kind |-> "in"] \in batch'
        BY <1>1, <2>1, <2>2 DEF Reported, Readable
      <3> QED
        BY <1>1, <2>1, <3>1 DEF WaitingAnnounced
    <2>3. CASE ListenFd \notin ready
      <3>1. limited
        BY <1>1, <2>1, <2>3 DEF IInv, WaitingAnnounced, EventsOnce
      <3> QED
        BY <1>1, <3>1 DEF WaitingAnnounced
    <2> QED
      BY <2>2, <2>3
  <1>11. NoSilentClose' /\ PoolMatches'
    <2>1. again = "worker" => \A e \in batch' : e.fd # ListenFd
      BY <1>3, HttpAssumption DEF IInv, PoolMatches, ListenerKept, OneKeeper
    <2> QED
      BY <1>1, <1>2, <2>1 DEF IInv, NoSilentClose, PoolMatches, pool, clients
  <1> QED
    BY <1>5, <1>6, <1>7, <1>8, <1>9, <1>10, <1>11 DEF IInv

\* The listening socket's event begins the accept loop.
LEMMA EventListenerIInv ==
  ASSUME IInv, NEW e \in batch, loop = "batch", batch' = batch \ {e}, EventListener(e),
         UNCHANGED <<listening, server_fd, running, limited, pool_open, worker, wfd, main,
                     clients, got, answer>>
  PROVE  IInv'
  <1>1. /\ UNCHANGED <<fds, interest, ready, link, tasks, again>>
        /\ loop' = "accept"
    BY DEF EventListener
  <1>2. Claimed' = Claimed /\ Queued' = Queued /\ Held' = Held
    BY <1>1, ClaimsKept
  <1>3. TypeOK'
    BY <1>1 DEF IInv, TypeOK, clients
  <1>4. ListenerKept' /\ OneNumber' /\ Hands'
    BY <1>1 DEF IInv, ListenerKept, OneNumber, Hands, Waiting
  <1>5. OneKeeper'
    BY <1>1, <1>2 DEF IInv, OneKeeper, Stale
  <1>6. EventsOnce' /\ Causes' /\ PoolMatches'
    BY <1>1, <1>2 DEF IInv, EventsOnce, Causes, PoolMatches, clients
  <1>7. WaitingAnnounced' /\ NoSilentClose'
    BY <1>1 DEF IInv, WaitingAnnounced, NoSilentClose, clients
  <1> QED
    BY <1>3, <1>4, <1>5, <1>6, <1>7 DEF IInv

\* An event that is not the listening socket's is about a connection, or
\* about the number the listening socket had.
LEMMA EventIsOfConn ==
  ASSUME IInv, NEW e \in batch, e.fd # server_fd
  PROVE  /\ e \in Event /\ e.fd \in Fd /\ e.fd \notin Claimed
         /\ e.fd = ListenFd => main \notin {"up", "flag", "shut"}
         /\ \/ e.fd \in interest /\ fds[e.fd] \in Conn /\ e.fd # ListenFd
            \/ e.fd = ListenFd /\ fds[e.fd] = Free
  <1>1. e \in Event /\ e.fd \in Fd /\ fds[e.fd] \in Conn \cup {Free, Listener, Other}
    BY DEF IInv, TypeOK, Event
  <1>2. e.fd \notin Claimed
    BY DEF IInv, EventsOnce
  <1>3. e.fd = ListenFd => main \notin {"up", "flag", "shut"} /\ fds[e.fd] = Free
    BY DEF IInv, ListenerKept
  <1>4. e.fd # ListenFd => e.fd \in interest /\ fds[e.fd] \in Conn
    BY <1>1 DEF IInv, OneKeeper, Stale, ListenerKept, OneNumber
  <1> QED
    BY <1>1, <1>2, <1>3, <1>4

\* The events that remain are about other numbers.
LEMMA OtherEvents ==
  ASSUME IInv, NEW e \in batch, batch' = batch \ {e}
  PROVE  \A d \in batch' : d \in batch /\ d.fd # e.fd
  BY DEF IInv, EventsOnce

\* A hang-up closes a number that no worker has.
LEMMA EventHangUpIInv ==
  ASSUME IInv, NEW e \in batch, loop = "batch", batch' = batch \ {e}, EventHangUp(e),
         UNCHANGED <<listening, server_fd, running, limited, pool_open, worker, wfd, main,
                     clients, got, answer>>
  PROVE  IInv'
  <1>1. /\ e.fd # server_fd /\ e.kind = "hup"
        /\ fds' = [fds EXCEPT ![e.fd] = Free]
        /\ interest' = interest \ {e.fd} /\ ready' = ready \ {e.fd}
        /\ link' = [c \in Conn |-> IF c = fds[e.fd] THEN "dropped" ELSE link[c]]
        /\ again' = IF fds[e.fd] = Free THEN "loop" ELSE again
        /\ loop' = "batch" /\ UNCHANGED tasks
    BY DEF EventHangUp, Closed
  <1>2. Claimed' = Claimed /\ Queued' = Queued /\ Held' = Held
    BY <1>1, ClaimsKept
  <1>3. /\ e \in Event /\ e.fd \in Fd /\ e.fd \notin Claimed
        /\ e.fd = ListenFd => main \notin {"up", "flag", "shut"}
        /\ \/ e.fd \in interest /\ fds[e.fd] \in Conn /\ e.fd # ListenFd
           \/ e.fd = ListenFd /\ fds[e.fd] = Free
    BY <1>1, EventIsOfConn
  <1>4. \A d \in batch' : d \in batch /\ d.fd # e.fd /\ d.fd \in Fd
    BY OtherEvents DEF IInv, TypeOK, Event
  <1>5. /\ fds \in [Fd -> Conn \cup {Free, Listener, Other}] /\ fds'[e.fd] = Free
        /\ \A f \in Fd : f # e.fd => fds'[f] = fds[f]
        /\ Claimed \subseteq Fd
    <2>1. Queued \subseteq Fd
      BY DEF IInv, TypeOK, Queued
    <2>2. Held \subseteq Fd
      BY DEF IInv, TypeOK, Hands, Held
    <2> QED
      BY <1>1, <1>3, <2>1, <2>2 DEF IInv, TypeOK, Claimed
  <1>6. TypeOK'
    <2>1. link' \in [Conn -> {"none", "waiting", "refused", "open", "served", "dropped"}]
      BY <1>1 DEF IInv, TypeOK
    <2>2. fds' \in [Fd -> Conn \cup {Free, Listener, Other}]
      BY <1>1, <1>5
    <2> QED
      BY <1>1, <2>1, <2>2 DEF IInv, TypeOK, clients
  <1>7. ListenerKept'
    <2>1. Waiting' \subseteq Waiting
      BY <1>1 DEF Waiting
    <2> QED
      BY <1>1, <1>3, <1>5, <2>1, HttpAssumption DEF IInv, ListenerKept
  <1>8. OneNumber'
    BY <1>1, <1>3, <1>5, HttpAssumption DEF IInv, TypeOK, OneNumber
  <1>9. Hands'
    <2>1. \A w \in Worker : worker[w] = "send" => wfd[w] \in Claimed
      BY DEF Claimed, Held
    <2> QED
      BY <1>3, <1>5, <2>1 DEF IInv, Hands
  <1>10. OneKeeper'
    <2>1. Queued \subseteq Claimed /\ Held \subseteq Claimed
      BY DEF Claimed
    <2>2. \A f \in Claimed : fds'[f] = fds[f]
      BY <1>3, <1>5
    <2>3. \A f \in interest' : fds'[f] # Free
      BY <1>1, <1>5 DEF IInv, TypeOK, OneKeeper
    <2>4. \A f \in Fd : fds'[f] \in Conn => f \in interest' \cup Claimed
      BY <1>1, <1>5, HttpAssumption DEF IInv, OneKeeper, Claimed
    <2>5. \A d \in batch' : d.fd \in interest' \/ (d.fd = ListenFd /\ fds'[d.fd] = Free)
      BY <1>1, <1>4, <1>5 DEF IInv, OneKeeper, Stale
    <2> QED
      BY <1>1, <1>2, <2>1, <2>2, <2>3, <2>4, <2>5 DEF IInv, OneKeeper, Stale, Claimed
  <1>11. EventsOnce'
    BY <1>1, <1>2, <1>4 DEF IInv, EventsOnce
  <1>12. Causes'
    <2>1. \A w \in Worker : worker[w] # "idle" => wfd[w] \in Claimed
      BY DEF Claimed, Held
    <2>2. \A f \in Claimed : fds'[f] = fds[f]
      BY <1>3, <1>5
    <2>3. Queued \subseteq Claimed
      BY DEF Claimed
    <2> QED
      BY <1>1, <1>2, <1>4, <1>5, <2>1, <2>2, <2>3 DEF IInv, Causes, clients
  <1>13. WaitingAnnounced'
    <2> SUFFICES ASSUME Waiting' # {}
                 PROVE  WaitingAnnounced'
      BY DEF WaitingAnnounced
    <2>1. Waiting # {} /\ listening
      BY <1>1 DEF Waiting, IInv, ListenerKept
    <2>2. e.fd # ListenFd /\ Edge(Listener) = {ListenFd} /\ server_fd = ListenFd
          /\ fds[ListenFd] = Listener /\ ListenFd \in interest /\ ListenFd \in Fd
      BY <1>1, <2>1, ListenerEdge
    <2>3. Edge(Listener)' = {ListenFd}
      BY <1>1, <1>5, <2>2, HttpAssumption DEF Edge, IInv, ListenerKept, TypeOK
    <2>4. \A d \in batch : d.fd = server_fd => d \in batch'
      BY <1>1
    <2> QED
      BY <1>1, <2>1, <2>2, <2>3, <2>4 DEF IInv, WaitingAnnounced
  <1>14. NoSilentClose'
    <2>1. fds[e.fd] \in Conn => peer[fds[e.fd]] # "open"
      BY <1>1 DEF IInv, Causes
    <2> QED
      BY <1>1, <2>1 DEF IInv, NoSilentClose, clients
  <1>15. PoolMatches'
    BY <1>1, <1>2, <1>3, <1>4 DEF IInv, PoolMatches
  <1> QED
    BY <1>6, <1>7, <1>8, <1>9, <1>10, <1>11, <1>12, <1>13, <1>14, <1>15 DEF IInv

\* A task is added behind the others.
LEMMA Appended ==
  ASSUME NEW S, NEW q \in Seq(S), NEW x \in S
  PROVE  /\ Append(q, x) \in Seq(S)
         /\ DOMAIN Append(q, x) = DOMAIN q \cup {Len(q) + 1} /\ Len(q) + 1 \notin DOMAIN q
         /\ Append(q, x)[Len(q) + 1] = x
         /\ \A i \in DOMAIN q : Append(q, x)[i] = q[i]
  OBVIOUS

\* The loop takes the number out of epoll and gives it to the pool.
LEMMA EventReadableIInv ==
  ASSUME IInv, NEW e \in batch, loop = "batch", batch' = batch \ {e}, EventReadable(e),
         UNCHANGED <<listening, server_fd, running, limited, pool_open, worker, wfd, main,
                     clients, got, answer>>
  PROVE  IInv'
  <1>1. /\ e.fd # server_fd /\ e.kind = "in"
        /\ interest' = interest \ {e.fd} /\ ready' = ready \cap interest'
        /\ tasks' = Append(tasks, e.fd)
        /\ loop' = "batch" /\ UNCHANGED <<fds, link, again>>
    BY DEF EventReadable, Removed
  <1>2. /\ e \in Event /\ e.fd \in Fd /\ e.fd \notin Claimed
        /\ e.fd = ListenFd => main \notin {"up", "flag", "shut"}
        /\ \/ e.fd \in interest /\ fds[e.fd] \in Conn /\ e.fd # ListenFd
           \/ e.fd = ListenFd /\ fds[e.fd] = Free
    BY <1>1, EventIsOfConn
  <1>3. \A d \in batch' : d \in batch /\ d.fd # e.fd /\ d.fd \in Fd
    BY OtherEvents DEF IInv, TypeOK, Event
  <1>4. /\ tasks' \in Seq(Fd)
        /\ DOMAIN tasks' = DOMAIN tasks \cup {Len(tasks) + 1}
        /\ tasks'[Len(tasks) + 1] = e.fd
        /\ \A i \in DOMAIN tasks : tasks'[i] = tasks[i]
    BY <1>1, <1>2, Appended DEF IInv, TypeOK
  <1>5. Queued' = Queued \cup {e.fd} /\ Held' = Held /\ Claimed' = Claimed \cup {e.fd}
    <2>1. Queued' = Queued \cup {e.fd}
      BY <1>4 DEF Queued
    <2>2. Held' = Held
      BY DEF Held
    <2> QED
      BY <2>1, <2>2 DEF Claimed
  <1>6. TypeOK'
    BY <1>1, <1>4 DEF IInv, TypeOK, clients
  <1>7. ListenerKept'
    BY <1>1, <1>2, HttpAssumption DEF IInv, ListenerKept, Waiting
  <1>8. OneNumber' /\ Hands'
    BY <1>1 DEF IInv, OneNumber, Hands
  <1>9. OneKeeper'
    <2>1. \A f \in interest' : fds[f] # Free
      BY <1>1 DEF IInv, OneKeeper
    <2>2. \A f \in Queued' \cup Held : fds[f] \in Conn \/ Stale(f)
      BY <1>2, <1>5 DEF IInv, OneKeeper, Stale
    <2>3. \A i, j \in DOMAIN tasks' : tasks'[i] = tasks'[j] => i = j
      <3>1. \A i \in DOMAIN tasks : tasks[i] # e.fd
        BY <1>2 DEF Claimed, Queued
      <3> QED
        BY <1>4, <3>1 DEF IInv, OneKeeper
    <2>4. interest' \cap Queued' = {} /\ interest' \cap Held = {} /\ Queued' \cap Held = {}
      BY <1>1, <1>2, <1>5 DEF IInv, OneKeeper, Claimed
    <2>5. \A f \in Fd : fds[f] \in Conn => f \in interest' \cup Queued' \cup Held
      BY <1>1, <1>5 DEF IInv, OneKeeper
    <2>6. \A d \in batch' : d.fd \in interest' \/ Stale(d.fd)
      BY <1>1, <1>3 DEF IInv, OneKeeper
    <2> QED
      BY <1>1, <1>5, <2>1, <2>2, <2>3, <2>4, <2>5, <2>6 DEF IInv, OneKeeper, Stale
  <1>10. EventsOnce' /\ PoolMatches'
    BY <1>1, <1>2, <1>3, <1>5 DEF IInv, EventsOnce, PoolMatches
  <1>11. Causes'
    <2>1. fds[e.fd] \in Conn => sent[fds[e.fd]] > 0
      BY <1>1 DEF IInv, Causes
    <2> QED
      BY <1>1, <1>3, <1>5, <2>1 DEF IInv, Causes, clients
  <1>12. WaitingAnnounced'
    <2> SUFFICES ASSUME Waiting' # {}
                 PROVE  WaitingAnnounced'
      BY DEF WaitingAnnounced
    <2>1. Waiting # {} /\ listening
      BY <1>1 DEF Waiting, IInv, ListenerKept
    <2>2. e.fd # ListenFd /\ Edge(Listener) = {ListenFd} /\ server_fd = ListenFd
          /\ fds[ListenFd] = Listener /\ ListenFd \in interest /\ ListenFd \in Fd
      BY <1>1, <2>1, ListenerEdge
    <2>3. Edge(Listener)' = {ListenFd}
      BY <1>1, <2>2 DEF Edge
    <2>4. \A d \in batch : d.fd = server_fd => d \in batch'
      BY <1>1
    <2> QED
      BY <1>1, <2>1, <2>2, <2>3, <2>4 DEF IInv, WaitingAnnounced
  <1>13. NoSilentClose'
    BY <1>1 DEF IInv, NoSilentClose, clients
  <1> QED
    BY <1>6, <1>7, <1>8, <1>9, <1>10, <1>11, <1>12, <1>13 DEF IInv

\* Whichever event is taken next, each number still has one keeper.
LEMMA NextEventIInv == IInv /\ NextEvent => IInv'
  BY EventListenerIInv, EventHangUpIInv, EventReadableIInv DEF NextEvent

\* A number that is free is nobody's, unless it is the one the listening
\* socket had, which is not free while accept succeeds.
LEMMA AcceptOneIInv ==
  ASSUME IInv, AcceptOne
  PROVE  IInv'
  <1>1. PICK c \in Waiting, f \in FreeFds :
          /\ fds' = [fds EXCEPT ![f] = c]
          /\ interest' = interest \cup {f}
          /\ ready' = IF Pending(c) THEN ready \cup {f} ELSE ready
          /\ link' = [link EXCEPT ![c] = "open"]
    BY DEF AcceptOne
  <1>2. /\ loop = "accept" /\ CanAccept
        /\ UNCHANGED <<listening, server_fd, running, loop, batch, limited, pool, main, peer, sent,
                       got, answer, again>>
    BY DEF AcceptOne, runVars, clients
  <1>3. listening /\ fds[ListenFd] = Listener /\ ListenFd \in interest /\ server_fd = ListenFd
        /\ Edge(Listener) = {ListenFd} /\ main \in {"up", "flag"}
    BY <1>2, ListenerEdge DEF CanAccept, IInv, ListenerKept
  <1>4. /\ c \in Conn /\ link[c] = "waiting"
        /\ f \in Fd /\ fds[f] = Free /\ f # ListenFd /\ c # Free /\ c # Listener /\ c # Other
    BY <1>1, <1>3, HttpAssumption DEF Waiting, FreeFds
  <1>5. /\ fds \in [Fd -> Conn \cup {Free, Listener, Other}] /\ fds'[f] = c
        /\ \A g \in Fd : g # f => fds'[g] = fds[g]
        /\ \A g \in Fd : fds[g] # c
    BY <1>1, <1>4 DEF IInv, TypeOK, OneNumber
  <1>6. Claimed' = Claimed /\ Queued' = Queued /\ Held' = Held
    BY <1>2, ClaimsKept DEF pool
  <1>7. f \notin interest /\ f \notin Claimed /\ \A e \in batch : e.fd # f
    BY <1>4, HttpAssumption DEF IInv, OneKeeper, Stale, Claimed
  <1>8. TypeOK'
    BY <1>1, <1>2, <1>4, <1>5 DEF IInv, TypeOK, pool
  <1>9. ListenerKept'
    BY <1>1, <1>2, <1>3, <1>4, <1>5 DEF IInv, ListenerKept
  <1>10. OneNumber'
    <2>1. \A d \in Conn : link'[d] = IF d = c THEN "open" ELSE link[d]
      BY <1>1 DEF IInv, TypeOK
    <2>2. interest \subseteq Fd
      BY DEF IInv, TypeOK
    <2> QED
      BY <1>1, <1>4, <1>5, <2>1, <2>2 DEF IInv, OneNumber
  <1>11. \A w \in Worker : worker[w] # "idle" => wfd[w] \in Claimed /\ wfd[w] \in Fd /\ wfd[w] # f
    BY <1>7 DEF IInv, TypeOK, Hands, Claimed, Held
  <1>12. Hands'
    BY <1>2, <1>5, <1>11 DEF IInv, Hands, pool
  <1>13. \A g \in Queued \cup Held : g # f /\ g \in Fd
    <2>1. Queued \subseteq Fd
      BY DEF IInv, TypeOK, Queued
    <2>2. Held \subseteq Fd
      BY <1>11 DEF Held
    <2> QED
      BY <1>7, <2>1, <2>2 DEF Claimed
  <1>14. OneKeeper'
    <2>1. \A g \in interest' : fds'[g] # Free
      BY <1>1, <1>4, <1>5 DEF IInv, TypeOK, OneKeeper
    <2>2. \A g \in Queued \cup Held : fds'[g] = fds[g]
      BY <1>5, <1>13
    <2>3. \A g \in Fd : fds'[g] \in Conn => g \in interest' \cup Queued \cup Held
      BY <1>1, <1>5 DEF IInv, OneKeeper
    <2>4. interest' \cap Queued = {} /\ interest' \cap Held = {}
      BY <1>1, <1>13 DEF IInv, OneKeeper
    <2>5. \A e \in batch : e.fd \in interest'
      BY <1>1, <1>3, <1>4 DEF IInv, OneKeeper, Stale
    <2> QED
      BY <1>2, <1>6, <2>1, <2>2, <2>3, <2>4, <2>5 DEF IInv, OneKeeper, Stale, pool
  <1>15. EventsOnce' /\ PoolMatches'
    BY <1>2, <1>6 DEF IInv, EventsOnce, PoolMatches, pool
  <1>16. Causes'
    <2>1. \A e \in batch : fds'[e.fd] = fds[e.fd]
      BY <1>5, <1>7 DEF IInv, TypeOK, Event
    <2>2. \A w \in Worker : worker[w] # "idle" => fds'[wfd[w]] = fds[wfd[w]]
      BY <1>5, <1>11
    <2>3. \A g \in Queued : fds'[g] = fds[g]
      BY <1>5, <1>13
    <2> QED
      BY <1>2, <1>6, <2>1, <2>2, <2>3 DEF IInv, Causes, pool
  <1>17. WaitingAnnounced'
    BY <1>2 DEF WaitingAnnounced
  <1>18. NoSilentClose'
    BY <1>1, <1>2, <1>4 DEF IInv, TypeOK, NoSilentClose
  <1> QED
    BY <1>8, <1>9, <1>10, <1>12, <1>14, <1>15, <1>16, <1>17, <1>18 DEF IInv

-----------------------------------------------------------------------------
(* The workers.                                                            *)

\* A busy worker's number, which no other worker has.
LEMMA WorkerHolds ==
  ASSUME IInv, NEW w \in Worker, worker[w] # "idle"
  PROVE  /\ wfd[w] \in Held /\ wfd[w] \in Claimed /\ wfd[w] \in Fd /\ wfd[w] # NoFd
         /\ fds[wfd[w]] \in Conn \/ Stale(wfd[w])
         /\ \A v \in Worker : worker[v] # "idle" /\ v # w => wfd[v] # wfd[w]
  <1>1. wfd[w] \in Held /\ wfd[w] \in Fd /\ wfd[w] # NoFd
    BY HttpAssumption DEF IInv, TypeOK, Hands, Held
  <1> QED
    BY <1>1 DEF IInv, OneKeeper, Claimed

\* The first task.
LEMMA FirstTask ==
  ASSUME NEW S, NEW q \in Seq(S), q # <<>>
  PROVE  /\ Head(q) \in S /\ Tail(q) \in Seq(S) /\ 1 \in DOMAIN q /\ Head(q) = q[1]
         /\ \A i \in DOMAIN Tail(q) : i + 1 \in DOMAIN q /\ Tail(q)[i] = q[i + 1] /\ i + 1 # 1
         /\ \A i \in DOMAIN q : i # 1 => i - 1 \in DOMAIN Tail(q) /\ Tail(q)[i - 1] = q[i]
         /\ \A i, j \in DOMAIN Tail(q) : i + 1 = j + 1 => i = j
  OBVIOUS

\* A worker takes over the number the queue kept.
LEMMA TakeIInv ==
  ASSUME IInv, NEW w \in Worker, Take(w)
  PROVE  IInv'
  <1>1. /\ worker[w] = "idle" /\ tasks # <<>>
        /\ wfd' = [wfd EXCEPT ![w] = Head(tasks)]
        /\ tasks' = Tail(tasks)
        /\ worker' = [worker EXCEPT ![w] = "recv"]
        /\ UNCHANGED <<sockets, running, runVars, pool_open, main, link, clients, got, answer,
                       again>>
    BY DEF Take
  <1>2. tasks \in Seq(Fd) /\ worker \in [Worker -> {"idle", "recv", "send", "close"}]
        /\ wfd \in [Worker -> Fd \cup {NoFd}]
    BY DEF IInv, TypeOK
  <1>3. /\ Head(tasks) \in Fd /\ Tail(tasks) \in Seq(Fd) /\ 1 \in DOMAIN tasks
        /\ Head(tasks) = tasks[1]
        /\ \A i \in DOMAIN tasks' : i + 1 \in DOMAIN tasks /\ tasks'[i] = tasks[i + 1] /\ i + 1 # 1
        /\ \A i \in DOMAIN tasks : i # 1 => i - 1 \in DOMAIN tasks' /\ tasks'[i - 1] = tasks[i]
        /\ \A i, j \in DOMAIN tasks' : i + 1 = j + 1 => i = j
    BY <1>1, <1>2, FirstTask
  <1>4. /\ worker'[w] = "recv" /\ wfd'[w] = tasks[1]
        /\ \A v \in Worker : v # w => worker'[v] = worker[v] /\ wfd'[v] = wfd[v]
    BY <1>1, <1>2, <1>3
  <1>5. /\ Queued = Queued' \cup {tasks[1]} /\ tasks[1] \notin Queued'
    <2>1. \A i \in DOMAIN tasks' : tasks'[i] # tasks[1]
      BY <1>3 DEF IInv, OneKeeper
    <2> QED
      BY <1>3, <2>1 DEF Queued
  <1>6. Held' = Held \cup {tasks[1]} /\ tasks[1] \notin Held
    <2>1. tasks[1] \notin Held
      BY <1>5 DEF IInv, OneKeeper
    <2> QED
      BY <1>1, <1>4, <2>1 DEF Held
  <1>7. Claimed' = Claimed
    BY <1>5, <1>6 DEF Claimed
  <1>8. TypeOK'
    BY <1>1, <1>3 DEF IInv, TypeOK, sockets, runVars, clients
  <1>9. ListenerKept' /\ OneNumber'
    BY <1>1 DEF IInv, ListenerKept, OneNumber, sockets, Waiting
  <1>10. Hands'
    BY <1>1, <1>3, <1>4, HttpAssumption DEF IInv, Hands, sockets
  <1>11. OneKeeper'
    <2>1. \A i, j \in DOMAIN tasks' : tasks'[i] = tasks'[j] => i = j
      BY <1>3 DEF IInv, OneKeeper
    <2>2. \A v \in Worker : worker[v] # "idle" => wfd[v] # tasks[1]
      BY <1>6 DEF Held
    <2>3. \A u, v \in Worker : worker'[u] # "idle" /\ wfd'[u] = wfd'[v] => u = v
      <3>1. \A v \in Worker : wfd[v] # tasks[1]
        BY <1>3, <2>2, HttpAssumption DEF IInv, Hands
      <3> QED
        BY <1>4, <3>1 DEF IInv, OneKeeper
    <2>4. interest \cap Queued' = {} /\ interest \cap Held' = {} /\ Queued' \cap Held' = {}
      BY <1>5, <1>6 DEF IInv, OneKeeper
    <2>5. Queued' \cup Held' = Queued \cup Held
      BY <1>5, <1>6
    <2>6. UNCHANGED <<fds, interest, batch>>
      BY <1>1 DEF sockets, runVars
    <2>7. \A f \in Fd : fds[f] \in Conn => f \in interest \cup Queued' \cup Held'
      BY <1>5, <1>6 DEF IInv, OneKeeper
    <2> QED
      BY <2>1, <2>3, <2>4, <2>5, <2>6, <2>7 DEF IInv, OneKeeper, Stale
  <1>12. EventsOnce' /\ PoolMatches'
    BY <1>1, <1>7 DEF IInv, EventsOnce, PoolMatches, runVars
  <1>13. Causes'
    <2>1. fds[tasks[1]] \in Conn => sent[fds[tasks[1]]] > 0
      BY <1>5 DEF IInv, Causes
    <2>2. UNCHANGED <<fds, batch, peer, sent, answer>>
      BY <1>1 DEF sockets, runVars, clients
    <2> QED
      BY <1>4, <1>5, <2>1, <2>2 DEF IInv, Causes
  <1>14. WaitingAnnounced' /\ NoSilentClose'
    BY <1>1 DEF IInv, WaitingAnnounced, NoSilentClose, sockets, runVars, clients, Edge, Waiting
  <1> QED
    BY <1>8, <1>9, <1>10, <1>11, <1>12, <1>13, <1>14 DEF IInv

\* recv and send: the worker keeps its number.
LEMMA HandleIInv ==
  ASSUME IInv, NEW w \in Worker, Recv(w) \/ RecvStale(w) \/ Reply(w)
  PROVE  IInv'
  <1>1. /\ worker[w] \in {"recv", "send"}
        /\ UNCHANGED <<sockets, running, runVars, tasks, pool_open, wfd, main, link, clients,
                       again>>
    BY DEF Recv, RecvStale, Reply
  <1>2. /\ wfd[w] \in Held /\ wfd[w] \in Fd
        /\ fds[wfd[w]] \in Conn \/ Stale(wfd[w])
        /\ \A v \in Worker : worker[v] # "idle" /\ v # w => wfd[v] # wfd[w]
        /\ \A v \in Worker : worker[v] # "idle" => wfd[v] \in Fd
    BY <1>1, WorkerHolds
  <1>3. \E p \in {"send", "close"} :
          /\ worker' = [worker EXCEPT ![w] = p]
          /\ p = "send" => fds[wfd[w]] \in Conn
    BY DEF Recv, RecvStale, Reply, Served
  <1>4. /\ worker' \in [Worker -> {"idle", "recv", "send", "close"}]
        /\ worker'[w] \in {"send", "close"} /\ (worker'[w] = "send" => fds[wfd[w]] \in Conn)
        /\ \A v \in Worker : v # w => worker'[v] = worker[v]
    BY <1>3 DEF IInv, TypeOK
  <1>5. Claimed' = Claimed /\ Queued' = Queued /\ Held' = Held
    <2>1. Held' = Held
      BY <1>1, <1>4 DEF Held
    <2>2. Queued' = Queued
      BY <1>1 DEF Queued
    <2> QED
      BY <2>1, <2>2 DEF Claimed
  <1>6. /\ got' \in [Conn -> 0..Whole]
        /\ answer' \in [Conn -> {"none", "ok", "400"}]
        /\ \A c \in Conn : answer[c] # "none" => answer'[c] # "none"
        /\ worker'[w] = "close" /\ fds[wfd[w]] \in Conn =>
            answer'[fds[wfd[w]]] # "none" \/ peer[fds[wfd[w]]] # "open"
    <2>1. CASE Recv(w)
      <3>1. fds[wfd[w]] \in Conn => sent[fds[wfd[w]]] > 0
        BY <2>1 DEF Recv, IInv, Causes
      <3>2. worker'[w] = "close" => GivesUp(fds[wfd[w]])
        BY <2>1 DEF Recv, Served, IInv, TypeOK
      <3>3. got' \in [Conn -> 0..Whole]
        BY <2>1 DEF Recv, Served, IInv, TypeOK
      <3> QED
        BY <2>1, <3>1, <3>2, <3>3 DEF Recv, GivesUp, IInv, TypeOK
    <2>2. CASE RecvStale(w)
      BY <2>2, HttpAssumption DEF RecvStale, Served, IInv, TypeOK
    <2>3. CASE Reply(w)
      <3>1. fds[wfd[w]] \in Conn
        BY <2>3 DEF Reply, IInv, Hands
      <3>2. Answer(fds[wfd[w]]) \in {"ok", "400"}
        BY DEF Answer
      <3> QED
        BY <2>3, <3>1, <3>2 DEF Reply, Served, IInv, TypeOK
    <2> QED
      BY <2>1, <2>2, <2>3
  <1>7. TypeOK'
    BY <1>1, <1>4, <1>6 DEF IInv, TypeOK, sockets, runVars, clients
  <1>8. ListenerKept' /\ OneNumber'
    BY <1>1 DEF IInv, ListenerKept, OneNumber, sockets, Waiting
  <1>9. Hands'
    BY <1>1, <1>4 DEF IInv, Hands, sockets
  <1>10. OneKeeper'
    <2>1. \A u, v \in Worker : worker'[u] # "idle" /\ wfd[u] = wfd[v] => u = v
      BY <1>1, <1>4 DEF IInv, OneKeeper
    <2> QED
      BY <1>1, <1>5, <2>1 DEF IInv, OneKeeper, Stale, sockets, runVars
  <1>11. EventsOnce' /\ PoolMatches'
    BY <1>1, <1>5 DEF IInv, EventsOnce, PoolMatches, runVars
  <1>12. Causes'
    <2>1. UNCHANGED <<fds, batch, peer, sent, wfd>>
      BY <1>1 DEF sockets, runVars, clients
    <2>2. ASSUME NEW v \in Worker, worker'[v] # "idle", fds[wfd[v]] \in Conn
          PROVE  /\ worker'[v] = "recv" => sent[fds[wfd[v]]] > 0
                 /\ worker'[v] = "close" =>
                     answer'[fds[wfd[v]]] # "none" \/ peer[fds[wfd[v]]] # "open"
      <3>1. CASE v = w
        BY <1>4, <1>6, <2>2, <3>1
      <3>2. CASE v # w
        BY <1>4, <1>6, <2>2, <3>2 DEF IInv, Causes
      <3> QED
        BY <3>1, <3>2
    <2> QED
      BY <1>5, <2>1, <2>2 DEF IInv, Causes
  <1>13. WaitingAnnounced'
    BY <1>1 DEF IInv, WaitingAnnounced, sockets, runVars, Edge, Waiting
  <1>14. NoSilentClose'
    BY <1>1, <1>6 DEF IInv, NoSilentClose, sockets, clients
  <1> QED
    BY <1>7, <1>8, <1>9, <1>10, <1>11, <1>12, <1>13, <1>14 DEF IInv

\* A worker gives up the number it alone has.
LEMMA CloseClientIInv ==
  ASSUME IInv, NEW w \in Worker, CloseClient(w)
  PROVE  IInv'
  <1> DEFINE f == wfd[w]
  <1>1. /\ worker[w] = "close"
        /\ fds' = [fds EXCEPT ![f] = Free]
        /\ interest' = interest \ {f} /\ ready' = ready \ {f}
        /\ link' = [c \in Conn |-> IF c = fds[f] THEN "served" ELSE link[c]]
        /\ again' = IF fds[f] = Free THEN "worker" ELSE again
        /\ worker' = [worker EXCEPT ![w] = "idle"]
        /\ wfd' = [wfd EXCEPT ![w] = NoFd]
        /\ UNCHANGED <<listening, server_fd, running, runVars, tasks, pool_open, main, clients,
                       got, answer>>
    BY DEF CloseClient, Closed, Served
  <1>2. /\ f \in Held /\ f \in Claimed /\ f \in Fd /\ f # NoFd
        /\ fds[f] \in Conn \/ Stale(f)
        /\ \A v \in Worker : worker[v] # "idle" /\ v # w => wfd[v] # f
    BY <1>1, WorkerHolds
  <1> HIDE DEF f
  <1>3. /\ fds \in [Fd -> Conn \cup {Free, Listener, Other}] /\ fds'[f] = Free
        /\ \A g \in Fd : g # f => fds'[g] = fds[g]
    BY <1>1, <1>2 DEF IInv, TypeOK
  <1>4. /\ worker'[w] = "idle" /\ wfd'[w] = NoFd
        /\ \A v \in Worker : v # w => worker'[v] = worker[v] /\ wfd'[v] = wfd[v]
        /\ worker' \in [Worker -> {"idle", "recv", "send", "close"}]
        /\ wfd' \in [Worker -> Fd \cup {NoFd}]
    BY <1>1 DEF IInv, TypeOK
  <1>5. /\ Queued' = Queued /\ f \notin Queued /\ f \notin interest
        /\ Held' = Held \ {f} /\ Claimed' = Claimed \ {f}
    <2>1. Queued' = Queued
      BY <1>1 DEF Queued
    <2>2. Held' = Held \ {f}
      BY <1>1, <1>2, <1>4 DEF Held, f
    <2>3. f \notin Queued /\ f \notin interest
      BY <1>2 DEF IInv, OneKeeper
    <2> QED
      BY <2>1, <2>2, <2>3 DEF Claimed
  <1>6. interest' = interest /\ ready' = ready
    BY <1>1, <1>5 DEF IInv, TypeOK
  <1>7. \A e \in batch : e.fd # f /\ e.fd \in Fd
    BY <1>2 DEF IInv, TypeOK, Event, EventsOnce
  <1>8. f = ListenFd => main \notin {"up", "flag", "shut"} /\ fds[f] = Free
    BY <1>5 DEF IInv, ListenerKept
  <1>9. TypeOK'
    <2>1. link' \in [Conn -> {"none", "waiting", "refused", "open", "served", "dropped"}]
      BY <1>1 DEF IInv, TypeOK
    <2>2. fds' \in [Fd -> Conn \cup {Free, Listener, Other}]
      BY <1>1, <1>3
    <2> QED
      BY <1>1, <1>4, <1>6, <2>1, <2>2 DEF IInv, TypeOK, runVars, clients
  <1>10. ListenerKept'
    <2>1. Waiting' \subseteq Waiting
      BY <1>1 DEF Waiting
    <2> QED
      BY <1>1, <1>3, <1>6, <1>8, <2>1, HttpAssumption DEF IInv, ListenerKept
  <1>11. OneNumber'
    BY <1>1, <1>2, <1>3, <1>6, HttpAssumption DEF IInv, TypeOK, OneNumber
  <1>12. \A v \in Worker : worker'[v] # "idle" =>
            /\ v # w /\ worker'[v] = worker[v] /\ wfd'[v] = wfd[v] /\ wfd[v] # f /\ wfd[v] \in Fd
            /\ fds'[wfd[v]] = fds[wfd[v]]
    <2>1. ASSUME NEW v \in Worker, worker'[v] # "idle"
          PROVE  v # w /\ worker'[v] = worker[v] /\ wfd'[v] = wfd[v] /\ wfd[v] # f /\ wfd[v] \in Fd
      BY <1>2, <1>4, <2>1, WorkerHolds
    <2> QED
      BY <1>3, <2>1
  <1>13. Hands'
    BY <1>4, <1>12 DEF IInv, Hands
  <1>14. OneKeeper'
    <2>1. \A g \in interest : fds'[g] # Free
      BY <1>3, <1>5 DEF IInv, TypeOK, OneKeeper
    <2>2. \A g \in Queued \cup Held' : fds'[g] = fds[g] /\ g \in Fd /\ g \in Queued \cup Held
      <3>1. Queued \subseteq Fd
        BY DEF IInv, TypeOK, Queued
      <3>2. Held \subseteq Fd
        BY WorkerHolds DEF Held
      <3> QED
        BY <1>3, <1>5, <3>1, <3>2
    <2>3. \A u, v \in Worker : worker'[u] # "idle" /\ wfd'[u] = wfd'[v] => u = v
      <3>1. ASSUME NEW u \in Worker, NEW v \in Worker, worker'[u] # "idle", wfd'[u] = wfd'[v]
            PROVE  u = v
        <4>1. wfd'[u] = wfd[u] /\ wfd[u] \in Fd /\ worker[u] # "idle"
          BY <1>12, <3>1
        <4>2. v # w
          BY <1>4, <3>1, <4>1, HttpAssumption
        <4> QED
          BY <1>4, <3>1, <4>1, <4>2 DEF IInv, OneKeeper
      <3> QED
        BY <3>1
    <2>4. \A g \in Fd : fds'[g] \in Conn => g \in interest \cup Queued \cup Held'
      BY <1>3, <1>5, HttpAssumption DEF IInv, OneKeeper
    <2>5. \A e \in batch : e.fd \in interest \/ (e.fd = ListenFd /\ fds'[e.fd] = Free)
      BY <1>3, <1>7 DEF IInv, OneKeeper, Stale
    <2>6. interest \cap Queued = {} /\ interest \cap Held' = {} /\ Queued \cap Held' = {}
      BY <1>5 DEF IInv, OneKeeper
    <2>7. UNCHANGED <<tasks, batch>>
      BY <1>1 DEF runVars
    <2> QED
      BY <1>5, <1>6, <2>1, <2>2, <2>3, <2>4, <2>5, <2>6, <2>7 DEF IInv, OneKeeper, Stale
  <1>15. EventsOnce'
    BY <1>1, <1>5 DEF IInv, EventsOnce, runVars
  <1>16. Causes'
    <2>1. \A e \in batch : fds'[e.fd] = fds[e.fd]
      BY <1>3, <1>7
    <2>2. \A g \in Queued : fds'[g] = fds[g]
      <3>1. Queued \subseteq Fd
        BY DEF IInv, TypeOK, Queued
      <3> QED
        BY <1>3, <1>5, <3>1
    <2>3. UNCHANGED <<batch, peer, sent, answer>>
      BY <1>1 DEF runVars, clients
    <2> QED
      BY <1>5, <1>12, <2>1, <2>2, <2>3 DEF IInv, Causes
  <1>17. WaitingAnnounced'
    <2> SUFFICES ASSUME Waiting' # {}
                 PROVE  WaitingAnnounced'
      BY DEF WaitingAnnounced
    <2>1. Waiting # {}
      BY <1>1 DEF Waiting
    <2>2. Edge(Listener)' = Edge(Listener)
      <3>1. \A g \in interest : fds'[g] = fds[g]
        BY <1>3, <1>5 DEF IInv, TypeOK
      <3> QED
        BY <1>6, <3>1 DEF Edge
    <2> QED
      BY <1>1, <1>6, <2>1, <2>2 DEF IInv, WaitingAnnounced, runVars
  <1>18. NoSilentClose'
    <2>1. fds[f] \in Conn => answer[fds[f]] # "none" \/ peer[fds[f]] # "open"
      BY <1>1 DEF IInv, Causes, f
    <2> QED
      BY <1>1, <2>1 DEF IInv, NoSilentClose, clients
  <1>19. PoolMatches'
    <2>1. fds[f] = Free => f = ListenFd
      BY <1>2, HttpAssumption DEF Stale
    <2>2. UNCHANGED <<batch, loop, main, pool_open>>
      BY <1>1 DEF runVars
    <2> QED
      BY <1>1, <1>5, <1>7, <1>8, <2>1, <2>2 DEF IInv, PoolMatches
  <1> QED
    BY <1>9, <1>10, <1>11, <1>13, <1>14, <1>15, <1>16, <1>17, <1>18, <1>19 DEF IInv

-----------------------------------------------------------------------------
(* stop() and the destructor.                                              *)

\* The steps of stop() and of the destructor that close no number.
LEMMA StopControlIInv ==
  ASSUME IInv, StopFlag \/ StopClear \/ Join \/ DestroyPool \/ Drained
  PROVE  IInv'
  <1> USE DEF StopFlag, StopClear, Join, LoopJoined, DestroyPool, Drained
  <1>1. UNCHANGED <<fds, interest, ready, listening, runVars, tasks, worker, wfd, link, clients,
                    got, answer, again>>
    BY DEF sockets, pool
  <1>2. /\ <<main, main'>> \in {<<"up", "flag">>, <<"closed", "stopped">>, <<"stopped", "joined">>,
                                <<"joined", "draining">>, <<"draining", "destroyed">>}
        /\ server_fd' = IF main = "closed" THEN NoFd ELSE server_fd
        /\ pool_open' = IF main = "joined" THEN FALSE ELSE pool_open
        /\ main = "stopped" => loop = "returned"
        /\ running' \in BOOLEAN
    BY DEF sockets, pool, IInv, TypeOK
  <1> HIDE DEF StopFlag, StopClear, Join, LoopJoined, DestroyPool, Drained
  <1>3. Claimed' = Claimed /\ Queued' = Queued /\ Held' = Held
    BY <1>1, ClaimsKept
  <1>4. TypeOK'
    <2>1. main' \in {"flag", "stopped", "joined", "draining", "destroyed"}
      BY <1>2
    <2>2. server_fd' \in {ListenFd, NoFd} /\ pool_open' \in BOOLEAN
      BY <1>2 DEF IInv, TypeOK
    <2> QED
      BY <1>1, <1>2, <2>1, <2>2 DEF IInv, TypeOK, runVars, clients
  <1>5. ListenerKept'
    BY <1>1, <1>2 DEF IInv, ListenerKept, Waiting
  <1>6. OneNumber' /\ Hands'
    BY <1>1 DEF IInv, OneNumber, Hands
  <1>7. OneKeeper' /\ EventsOnce'
    BY <1>1, <1>3 DEF IInv, OneKeeper, EventsOnce, Stale, runVars
  <1>8. Causes' /\ NoSilentClose'
    BY <1>1, <1>3 DEF IInv, Causes, NoSilentClose, runVars, clients
  <1>9. WaitingAnnounced'
    <2>1. Waiting # {} => main = "up" /\ server_fd' = server_fd
      BY <1>2 DEF IInv, ListenerKept
    <2> QED
      BY <1>1, <2>1 DEF IInv, WaitingAnnounced, Waiting, Edge, runVars
  <1>10. PoolMatches'
    BY <1>1, <1>2, <1>3 DEF IInv, PoolMatches, runVars
  <1> QED
    BY <1>4, <1>5, <1>6, <1>7, <1>8, <1>9, <1>10 DEF IInv

\* shutdown() raises an edge of the listening socket.
LEMMA StopShutdownIInv ==
  ASSUME IInv, StopShutdown
  PROVE  IInv'
  <1>1. /\ main = "flag" /\ main' = "shut" /\ listening' = FALSE
        /\ link' = [c \in Conn |-> IF c \in Waiting THEN "refused" ELSE link[c]]
        /\ ready' = ready \cup Edge(Listener)
        /\ UNCHANGED <<fds, interest, server_fd, running, runVars, pool, clients, got, answer,
                       again>>
    BY DEF StopShutdown
  <1>2. Claimed' = Claimed /\ Queued' = Queued /\ Held' = Held
    BY <1>1, ClaimsKept DEF pool
  <1>3. Waiting' = {}
    BY <1>1 DEF Waiting
  <1>4. TypeOK'
    <2>1. link' \in [Conn -> {"none", "waiting", "refused", "open", "served", "dropped"}]
      BY <1>1 DEF IInv, TypeOK
    <2>2. Edge(Listener) \subseteq interest
      BY DEF Edge
    <2> QED
      BY <1>1, <2>1, <2>2 DEF IInv, TypeOK, runVars, pool, clients
  <1>5. ListenerKept'
    BY <1>1, <1>3 DEF IInv, ListenerKept
  <1>6. OneNumber'
    BY <1>1 DEF IInv, TypeOK, OneNumber, Waiting
  <1>7. Hands' /\ OneKeeper' /\ EventsOnce'
    BY <1>1, <1>2 DEF IInv, Hands, OneKeeper, EventsOnce, Stale, runVars, pool
  <1>8. Causes' /\ PoolMatches'
    BY <1>1, <1>2 DEF IInv, Causes, PoolMatches, runVars, clients, pool
  <1>9. WaitingAnnounced' /\ NoSilentClose'
    <2>1. \A c \in Conn : link'[c] \in {"served", "dropped"} => link[c] = link'[c]
      BY <1>1
    <2> QED
      BY <1>1, <1>3, <2>1 DEF IInv, WaitingAnnounced, NoSilentClose, clients
  <1> QED
    BY <1>4, <1>5, <1>6, <1>7, <1>8, <1>9 DEF IInv

\* Nobody but the loop's events has the listening socket's number.
LEMMA StopCloseIInv ==
  ASSUME IInv, StopClose
  PROVE  IInv'
  <1>1. /\ main = "shut" /\ main' = "closed"
        /\ fds' = [fds EXCEPT ![server_fd] = Free]
        /\ interest' = interest \ {server_fd} /\ ready' = ready \ {server_fd}
        /\ UNCHANGED <<listening, server_fd, running, runVars, pool, link, clients, got, answer,
                       again>>
    BY DEF StopClose, Closed
  <1>2. /\ server_fd = ListenFd /\ ListenFd \in Fd /\ ListenFd \in interest
        /\ fds[ListenFd] = Listener /\ Waiting = {} /\ ~listening
    BY <1>1, HttpAssumption DEF IInv, ListenerKept
  <1>3. /\ fds \in [Fd -> Conn \cup {Free, Listener, Other}] /\ fds'[ListenFd] = Free
        /\ \A f \in Fd : f # ListenFd => fds'[f] = fds[f]
    BY <1>1, <1>2 DEF IInv, TypeOK
  <1>4. Claimed' = Claimed /\ Queued' = Queued /\ Held' = Held /\ ListenFd \notin Claimed
    BY <1>1, <1>2, ClaimsKept DEF pool, IInv, OneKeeper, Claimed
  <1>5. /\ \A w \in Worker : worker[w] # "idle" =>
             wfd[w] # ListenFd /\ fds'[wfd[w]] = fds[wfd[w]]
        /\ \A f \in Queued \cup Held : f \in Fd /\ f # ListenFd /\ fds'[f] = fds[f]
    <2>1. \A w \in Worker : worker[w] # "idle" => wfd[w] \in Claimed /\ wfd[w] \in Fd
      BY WorkerHolds
    <2>2. Queued \subseteq Fd
      BY DEF IInv, TypeOK, Queued
    <2>3. Held \subseteq Fd
      BY <2>1 DEF Held
    <2> QED
      BY <1>3, <1>4, <2>1, <2>2, <2>3 DEF Claimed
  <1>6. TypeOK'
    <2>1. fds' \in [Fd -> Conn \cup {Free, Listener, Other}]
      BY <1>1, <1>3
    <2> QED
      BY <1>1, <2>1 DEF IInv, TypeOK, runVars, pool, clients
  <1>7. ListenerKept'
    <2>1. Waiting' = {}
      BY <1>1, <1>2 DEF Waiting
    <2> QED
      BY <1>1, <1>2, <1>3, <2>1, HttpAssumption DEF IInv, ListenerKept
  <1>8. OneNumber'
    BY <1>1, <1>2, <1>3, HttpAssumption DEF IInv, TypeOK, OneNumber
  <1>9. Hands'
    BY <1>1, <1>5 DEF IInv, Hands, pool
  <1>10. OneKeeper'
    <2>1. \A f \in interest' : fds'[f] # Free
      BY <1>1, <1>2, <1>3 DEF IInv, TypeOK, OneKeeper
    <2>2. \A f \in Fd : fds'[f] \in Conn => f \in interest' \cup Queued \cup Held
      BY <1>1, <1>2, <1>3, HttpAssumption DEF IInv, OneKeeper
    <2>3. \A e \in batch : e.fd \in interest' \/ (e.fd = ListenFd /\ fds'[e.fd] = Free)
      BY <1>1, <1>2, <1>3 DEF IInv, OneKeeper, Stale
    <2>4. \A f \in Queued \cup Held : fds'[f] \in Conn \/ Stale(f)'
      BY <1>5 DEF IInv, OneKeeper, Stale
    <2>5. interest' \cap Queued = {} /\ interest' \cap Held = {}
      BY <1>1 DEF IInv, OneKeeper
    <2>6. UNCHANGED <<tasks, worker, wfd, batch>>
      BY <1>1 DEF pool, runVars
    <2> QED
      BY <1>4, <2>1, <2>2, <2>3, <2>4, <2>5, <2>6 DEF IInv, OneKeeper, Stale
  <1>11. EventsOnce' /\ PoolMatches'
    BY <1>1, <1>4 DEF IInv, EventsOnce, PoolMatches, runVars, pool
  <1>12. Causes'
    <2>1. \A e \in batch : fds'[e.fd] \in Conn => fds'[e.fd] = fds[e.fd]
      BY <1>3, HttpAssumption DEF IInv, TypeOK, Event
    <2>2. UNCHANGED <<worker, wfd, batch, peer, sent, answer>>
      BY <1>1 DEF pool, runVars, clients
    <2> QED
      BY <1>4, <1>5, <2>1, <2>2 DEF IInv, Causes
  <1>13. WaitingAnnounced' /\ NoSilentClose'
    BY <1>1, <1>2 DEF IInv, WaitingAnnounced, NoSilentClose, Waiting, clients
  <1> QED
    BY <1>6, <1>7, <1>8, <1>9, <1>10, <1>11, <1>12, <1>13 DEF IInv

\* Nothing changes.
LEMMA StutterIInv ==
  ASSUME IInv, UNCHANGED vars
  PROVE  IInv'
  <1> USE DEF vars, sockets, runVars, pool, clients
  <1>1. Claimed' = Claimed /\ Queued' = Queued /\ Held' = Held
    BY ClaimsKept
  <1>2. TypeOK'
    BY DEF IInv, TypeOK
  <1>3. ListenerKept' /\ OneNumber' /\ Hands'
    BY DEF IInv, ListenerKept, OneNumber, Hands, Waiting
  <1>4. OneKeeper' /\ EventsOnce' /\ Causes'
    BY <1>1 DEF IInv, OneKeeper, EventsOnce, Causes, Stale
  <1>5. WaitingAnnounced' /\ NoSilentClose' /\ PoolMatches'
    BY <1>1 DEF IInv, WaitingAnnounced, NoSilentClose, PoolMatches, Edge, Waiting
  <1> QED
    BY <1>2, <1>3, <1>4, <1>5 DEF IInv

\* The invariant is inductive.
LEMMA NextIInv == IInv /\ [Next]_vars => IInv'
  <1> SUFFICES ASSUME IInv, [Next]_vars
               PROVE  IInv'
    OBVIOUS
  <1>1. ASSUME NEW c \in Conn, ClientStep(c)
        PROVE  IInv'
    BY <1>1, ConnectIInv, ClientActsIInv DEF ClientStep
  <1>2. CASE LoopStep
    BY <1>2, LoopControlIInv, WaitEventsIInv, NextEventIInv, AcceptOneIInv DEF LoopStep
  <1>3. ASSUME NEW w \in Worker, WorkerStep(w)
        PROVE  IInv'
    BY <1>3, TakeIInv, HandleIInv, CloseClientIInv DEF WorkerStep
  <1>4. CASE StopFlag \/ StopStep
    BY <1>4, StopControlIInv, StopShutdownIInv, StopCloseIInv DEF StopStep
  <1>5. CASE Over \/ UNCHANGED vars
    BY <1>5, StutterIInv DEF Over
  <1> QED
    BY <1>1, <1>2, <1>3, <1>4, <1>5 DEF Next

-----------------------------------------------------------------------------
(* Theorems.                                                               *)

\* Who has which descriptor, and why.
THEOREM IInvAlways == Spec => []IInv
  BY InitIInv, NextIInv, PTL DEF Spec

\* The variables keep their types.
THEOREM TypeCorrect == Spec => []TypeOK
  <1>1. IInv => TypeOK
    BY DEF IInv
  <1> QED
    BY <1>1, IInvAlways, PTL

\* A client's descriptor is in one place, however often its number is given
\* again and whenever stop() comes.
THEOREM OneKeeperAlways == Spec => []OneKeeper
  <1>1. IInv => OneKeeper
    BY DEF IInv
  <1> QED
    BY <1>1, IInvAlways, PTL

\* Registered numbers with something to report stay announced, as long as nothing
\* new arrives.
LEMMA KeepsAnnounced ==
  ASSUME DataAnnounced, interest' \subseteq interest,
         \A f \in interest' : /\ fds'[f] = fds[f]
                              /\ f \in ready => f \in ready'
                              /\ \A e \in batch : e.fd = f => e \in batch',
         UNCHANGED <<sent, got, peer>>
  PROVE  DataAnnounced'
  BY DEF DataAnnounced, Pending

\* Every step announces what a client sends and keeps what was announced.
LEMMA DataAnnouncedNext == IInv /\ DataAnnounced /\ [Next]_vars => DataAnnounced'
  <1> SUFFICES ASSUME IInv, DataAnnounced, [Next]_vars
               PROVE  DataAnnounced'
    OBVIOUS
  <1> USE DEF sockets, runVars, pool, clients
  <1>1. ASSUME NEW c \in Conn, Connect(c)
        PROVE  DataAnnounced'
    <2>1. UNCHANGED <<fds, interest, batch, sent, got, peer>> /\ ready \subseteq ready'
      BY <1>1 DEF Connect
    <2>2. QED
      BY <2>1, KeepsAnnounced
  <1>2. ASSUME NEW c \in Conn, Send(c) \/ HangUp(c)
        PROVE  DataAnnounced'
    <2>1. /\ UNCHANGED <<fds, interest, batch, got>> /\ ready' = ready \cup Edge(c)
          /\ \A d \in Conn : d # c => sent'[d] = sent[d] /\ peer'[d] = peer[d]
      BY <1>2 DEF Send, HangUp, IInv, TypeOK
    <2>2. ASSUME NEW f \in interest, fds[f] \in Conn, Pending(fds[f])'
          PROVE  f \in ready' \/ \E e \in batch : e.fd = f
      <3>1. CASE fds[f] = c
        BY <2>1, <3>1 DEF Edge
      <3>2. CASE fds[f] # c
        BY <2>1, <2>2, <3>2 DEF DataAnnounced, Pending
      <3>3. QED
        BY <3>1, <3>2
    <2>3. QED
      BY <2>1, <2>2 DEF DataAnnounced, Pending
  <1>3. CASE Run \/ Check \/ WaitTimeout \/ BatchDone \/ AcceptEnds
    <2>1. UNCHANGED <<fds, interest, ready, batch, sent, got, peer>>
      BY <1>3 DEF Run, Check, WaitTimeout, BatchDone, AcceptEnds
    <2>2. QED
      BY <2>1, KeepsAnnounced
  <1>4. CASE WaitEvents
    <2>1. /\ batch = {} /\ batch' = Reported
          /\ UNCHANGED <<fds, interest, sent, got, peer>>
      BY <1>4 DEF WaitEvents, IInv, EventsOnce
    <2>2. ASSUME NEW f \in interest, fds[f] \in Conn, Pending(fds[f])
          PROVE  \E e \in Reported : e.fd = f
      <3>1. f \in ready
        BY <2>1, <2>2 DEF DataAnnounced
      <3>2. Readable(f) \/ HungUp(f)
        BY <2>2 DEF Pending, Readable, HungUp
      <3>3. CASE Readable(f)
        <4>1. [fd |-> f, kind |-> "in"] \in Reported
          BY <3>1, <3>3 DEF Reported
        <4>2. QED
          BY <4>1
      <3>4. CASE HungUp(f)
        <4>1. [fd |-> f, kind |-> "hup"] \in Reported
          BY <3>1, <3>4 DEF Reported
        <4>2. QED
          BY <4>1
      <3>5. QED
        BY <3>2, <3>3, <3>4
    <2>3. QED
      BY <2>1, <2>2 DEF DataAnnounced, Pending
  <1>5. CASE NextEvent
    <2>1. PICK e \in batch : /\ batch' = batch \ {e}
                             /\ EventListener(e) \/ EventHangUp(e) \/ EventReadable(e)
      BY <1>5 DEF NextEvent
    <2>2. UNCHANGED <<sent, got, peer>>
      BY <1>5 DEF NextEvent
    <2>3. CASE EventListener(e)
      <3>1. \A f \in interest : fds[f] \in Conn => f # e.fd
        <4>1. /\ e.fd = server_fd /\ interest \subseteq Fd
              /\ server_fd = NoFd \/ (server_fd = ListenFd /\ fds[ListenFd] \in {Listener, Free})
          BY <2>3 DEF EventListener, IInv, ListenerKept, TypeOK
        <4>2. QED
          BY <4>1, HttpAssumption
      <3>2. QED
        BY <2>1, <2>2, <2>3, <3>1 DEF EventListener, DataAnnounced, Pending
    <2>4. CASE EventHangUp(e) \/ EventReadable(e)
      <3>1. /\ e.fd \notin interest' /\ interest' \subseteq interest
            /\ ready' = ready \cap interest'
            /\ \A f \in interest' : fds'[f] = fds[f]
        BY <2>4 DEF EventHangUp, EventReadable, Closed, Removed, IInv, TypeOK
      <3>2. \A f \in interest' : \A d \in batch : d.fd = f => d \in batch'
        BY <2>1, <3>1
      <3>3. QED
        BY <2>2, <3>1, <3>2, KeepsAnnounced
    <2>5. QED
      BY <2>1, <2>3, <2>4
  <1>6. CASE AcceptOne
    <2>1. PICK c \in Waiting, f \in FreeFds :
              /\ fds' = [fds EXCEPT ![f] = c]
              /\ interest' = interest \cup {f}
              /\ ready' = IF Pending(c) THEN ready \cup {f} ELSE ready
      BY <1>6 DEF AcceptOne
    <2>2. /\ UNCHANGED <<batch, sent, got, peer>>
          /\ f \notin interest /\ f \in Fd
          /\ fds'[f] = c /\ \A g \in interest : fds'[g] = fds[g]
      BY <1>6, <2>1 DEF AcceptOne, FreeFds, IInv, TypeOK, OneKeeper
    <2>3. QED
      BY <2>1, <2>2 DEF DataAnnounced, Pending
  <1>7. ASSUME NEW w \in Worker, WorkerStep(w)
        PROVE  DataAnnounced'
    <2>1. CASE Take(w) \/ RecvStale(w) \/ Reply(w)
      <3>1. UNCHANGED <<fds, interest, ready, batch, sent, got, peer>>
        BY <2>1 DEF Take, RecvStale, Reply
      <3>2. QED
        BY <3>1, KeepsAnnounced
    <2>2. CASE Recv(w)
      <3>1. /\ UNCHANGED <<fds, interest, ready, batch, sent, peer>>
            /\ Served(w) \in Conn
            /\ got' = [got EXCEPT ![Served(w)] = sent[Served(w)]]
            /\ wfd[w] \in Held
        BY <2>2 DEF Recv, Held
      <3>2. \A f \in interest : fds[f] \in Conn => fds[f] # Served(w)
        BY <3>1, WorkerHolds, <2>2 DEF IInv, OneNumber, OneKeeper, Served, TypeOK, Recv
      <3>3. \A f \in interest : fds[f] \in Conn => got'[fds[f]] = got[fds[f]]
        BY <3>1, <3>2 DEF IInv, TypeOK
      <3>4. QED
        BY <3>1, <3>3 DEF DataAnnounced, Pending
    <2>3. CASE CloseClient(w)
      <3>1. /\ fds' = [fds EXCEPT ![wfd[w]] = Free]
            /\ interest' = interest \ {wfd[w]} /\ ready' = ready \ {wfd[w]}
            /\ UNCHANGED <<batch, sent, got, peer>>
        BY <2>3 DEF CloseClient, Closed
      <3>2. \A f \in interest' : /\ fds'[f] = fds[f]
                                 /\ f \in ready => f \in ready'
        BY <3>1 DEF IInv, TypeOK
      <3>3. QED
        BY <3>1, <3>2, KeepsAnnounced
    <2>4. QED
      BY <1>7, <2>1, <2>2, <2>3 DEF WorkerStep
  <1>8. CASE StopFlag \/ StopClear \/ Join \/ DestroyPool \/ Drained \/ Over \/ UNCHANGED vars
    <2>1. UNCHANGED <<fds, interest, ready, batch, sent, got, peer>>
      BY <1>8 DEF StopFlag, StopClear, Join, DestroyPool, Drained, Over, vars
    <2>2. QED
      BY <2>1, KeepsAnnounced
  <1>9. CASE StopShutdown
    <2>1. UNCHANGED <<fds, interest, batch, sent, got, peer>> /\ ready \subseteq ready'
      BY <1>9 DEF StopShutdown
    <2>2. QED
      BY <2>1, KeepsAnnounced
  <1>10. CASE StopClose
    <2>1. /\ fds' = [fds EXCEPT ![server_fd] = Free]
          /\ interest' = interest \ {server_fd} /\ ready' = ready \ {server_fd}
          /\ UNCHANGED <<batch, sent, got, peer>>
      BY <1>10 DEF StopClose, Closed
    <2>2. \A f \in interest' : /\ fds'[f] = fds[f]
                               /\ f \in ready => f \in ready'
      BY <2>1 DEF IInv, TypeOK
    <2>3. QED
      BY <2>1, <2>2, KeepsAnnounced
  <1>11. QED
    BY <1>1, <1>2, <1>3, <1>4, <1>5, <1>6, <1>7, <1>8, <1>9, <1>10
       DEF Next, ClientStep, LoopStep, StopStep

\* No client is overlooked: whoever waits for accept, and whoever sent something or
\* hung up on a registered connection, is announced to the loop, for any number of
\* clients, descriptors and workers; or accept met the limit of descriptors.
THEOREM NeverOverlooks == Spec => []NobodyOverlooked
  <1>1. Init => DataAnnounced
    BY HttpAssumption DEF Init, DataAnnounced
  <1>2. IInv /\ DataAnnounced => NobodyOverlooked
    BY DEF IInv, NobodyOverlooked
  <1> QED
    BY <1>1, <1>2, DataAnnouncedNext, IInvAlways, PTL DEF Spec

\* Of those whom the server accepted only who hung up gets no answer, also when
\* it is stopped with requests in the loop's, the pool's or a worker's hands.
THEOREM NeverClosesSilently == Spec => []NoSilentClose
  <1>1. IInv => NoSilentClose
    BY DEF IInv
  <1> QED
    BY <1>1, IInvAlways, PTL

-----------------------------------------------------------------------------
(* No deadlock.                                                            *)

\* The guards of LoopStep at each place of the loop.
LoopCanGoOn ==
    \/ loop \in {"new", "check"}
    \/ loop = "wait" /\ (TimesOut \/ Reported # {})
    \/ loop = "batch" /\ (batch = {} \/ \E e \in batch : e.fd = server_fd \/ e.kind \in {"hup", "in"})
    \/ loop = "accept" /\ (AcceptMayEnd \/ CanAccept)

\* The guards of WorkerStep.
WorkerCanGoOn(w) ==
    \/ worker[w] = "idle" /\ tasks # <<>>
    \/ worker[w] = "recv" /\ (Served(w) \in Conn \/ Served(w) = Free)
    \/ worker[w] \in {"send", "close"}

\* The guards of StopStep.
StopCanGoOn ==
    \/ main \in {"flag", "shut", "closed", "joined"}
    \/ main = "stopped" /\ LoopJoined
    \/ main = "draining" /\ tasks = <<>> /\ \A w \in Worker : worker[w] = "idle"

\* The loop never halts before it returns, a worker never halts with a descriptor,
\* a queued one finds a worker, and main's shutdown waits for somebody who goes on.
ServerGoesOn ==
    /\ loop # "returned" => LoopCanGoOn
    /\ \A w \in Worker : worker[w] # "idle" => WorkerCanGoOn(w)
    /\ tasks # <<>> => \E w \in Worker : WorkerCanGoOn(w)
    /\ main \notin {"up", "destroyed"} =>
           StopCanGoOn \/ LoopCanGoOn \/ \E w \in Worker : WorkerCanGoOn(w)

\* A number in a worker's hands is a connection's, or is closed and fails at once.
LEMMA SomebodyGoesOn == IInv => ServerGoesOn
  <1> SUFFICES ASSUME IInv
               PROVE  ServerGoesOn
    OBVIOUS
  <1>1. loop # "returned" => LoopCanGoOn
    <2>1. /\ loop \in {"new", "check", "wait", "batch", "accept", "returned"}
          /\ \A e \in batch : e.kind \in {"in", "hup"}
      BY DEF IInv, TypeOK, Event
    <2>2. QED
      BY <2>1 DEF LoopCanGoOn, TimesOut, AcceptMayEnd
  <1>2. ASSUME NEW w \in Worker, worker[w] # "idle"
        PROVE  WorkerCanGoOn(w)
    <2>1. fds[wfd[w]] \in Conn \/ fds[wfd[w]] = Free
      BY <1>2, WorkerHolds DEF Stale
    <2>2. worker[w] \in {"idle", "recv", "send", "close"}
      BY DEF IInv, TypeOK
    <2>3. QED
      BY <1>2, <2>1, <2>2 DEF WorkerCanGoOn, Served
  <1>3. ASSUME tasks # <<>>
        PROVE  \E w \in Worker : WorkerCanGoOn(w)
    <2>1. PICK w \in Worker : TRUE
      BY HttpAssumption
    <2>2. WorkerCanGoOn(w)
      BY <1>2, <1>3 DEF WorkerCanGoOn
    <2>3. QED
      BY <2>2
  <1>4. ASSUME main \notin {"up", "destroyed"}
        PROVE  StopCanGoOn \/ LoopCanGoOn \/ \E w \in Worker : WorkerCanGoOn(w)
    <2>1. main \in {"flag", "shut", "closed", "stopped", "joined", "draining"}
      BY <1>4 DEF IInv, TypeOK
    <2>2. QED
      BY <1>1, <1>2, <1>3, <2>1 DEF StopCanGoOn, LoopJoined
  <1>5. QED
    BY <1>1, <1>2, <1>3, <1>4 DEF ServerGoesOn

\* No deadlock between the loop, the workers, the clients and main, whichever
\* descriptor is closed under whom, for any number of each.
THEOREM ServerNeverStuck == Spec => []ServerGoesOn
  BY IInvAlways, SomebodyGoesOn, PTL

-----------------------------------------------------------------------------
(* The loop and the workers use the pool as an Executor.                   *)

Backlog == [i \in DOMAIN tasks |-> fds[tasks[i]]]
Active == {fds[f] : f \in Held}
Finished == {c \in Conn : link[c] = "served"} \cup {c \in {Free} : again = "worker"}

\* The pool is an empty open Executor at first.
LEMMA PoolInit == Init => Pool!ExecutorInit
  <1> SUFFICES ASSUME Init
               PROVE  Pool!ExecutorInit
    OBVIOUS
  <1>1. DOMAIN tasks = {}
    <2>1. tasks = <<>>
      BY DEF Init
    <2> QED
      BY <2>1
  <1>2. [i \in DOMAIN tasks |-> fds[tasks[i]]] = <<>>
    BY <1>1
  <1>3. Held = {}
    BY DEF Init, Held
  <1>4. \A c \in Conn : link[c] # "served"
    BY DEF Init
  <1> QED
    BY <1>2, <1>3, <1>4 DEF Init, Pool!ExecutorInit

\* As long as the workers keep their numbers and these their connections,
\* and nobody is closed by a worker, the pool has not moved.
LEMMA PoolStutters ==
  ASSUME UNCHANGED <<pool_open, tasks, Held>>,
         \A f \in Claimed : fds'[f] = fds[f],
         \A c \in Conn : link'[c] = "served" <=> link[c] = "served",
         again' = "worker" <=> again = "worker"
  PROVE  UNCHANGED Pool!executorVars
  <1>1. Queued \subseteq Claimed /\ Held \subseteq Claimed
    BY DEF Claimed
  <1>2. [i \in DOMAIN tasks |-> fds'[tasks[i]]] = [i \in DOMAIN tasks |-> fds[tasks[i]]]
    BY <1>1 DEF Queued
  <1>3. {fds'[f] : f \in Held'} = {fds[f] : f \in Held}
    BY <1>1
  <1> QED
    BY <1>2, <1>3 DEF Pool!executorVars

\* What a sequence of numbers refers to, when one is added or the first taken.
LEMMA MapAppend ==
  ASSUME NEW S, NEW T, NEW q \in Seq(S), NEW x \in S, NEW g \in [S -> T]
  PROVE  [i \in DOMAIN Append(q, x) |-> g[Append(q, x)[i]]]
         = Append([i \in DOMAIN q |-> g[q[i]]], g[x])
  <1> DEFINE m == [i \in DOMAIN q |-> g[q[i]]]
  <1>1. m \in Seq(T) /\ Len(m) = Len(q) /\ g[x] \in T
    OBVIOUS
  <1> QED
    BY <1>1

\* Renaming the elements of a queue commutes with taking the first.
LEMMA MapTail ==
  ASSUME NEW S, NEW T, NEW q \in Seq(S), NEW g \in [S -> T], q # <<>>
  PROVE  LET m == [i \in DOMAIN q |-> g[q[i]]]
         IN  /\ m # <<>> /\ Head(m) = g[Head(q)]
             /\ [i \in DOMAIN Tail(q) |-> g[Tail(q)[i]]] = Tail(m)
  <1> DEFINE m == [i \in DOMAIN q |-> g[q[i]]]
  <1>1. m \in Seq(T) /\ Len(m) = Len(q) /\ Len(q) \in Nat \ {0}
    OBVIOUS
  <1>2. m # <<>>
    BY <1>1
  <1>3. Head(m) = g[Head(q)]
    BY <1>1
  <1>4. [i \in DOMAIN Tail(q) |-> g[Tail(q)[i]]] = Tail(m)
    BY <1>1
  <1> QED
    BY <1>2, <1>3, <1>4

\* The task handed over was not given to the pool before.
LEMMA ReadableSubmits ==
  ASSUME IInv, NEW e \in batch, loop = "batch", batch' = batch \ {e}, EventReadable(e),
         UNCHANGED <<listening, server_fd, running, limited, pool_open, worker, wfd, main,
                     clients, got, answer>>
  PROVE  \E t \in Conn \cup {Free} : Pool!Submit(t)
  <1>1. e.fd # server_fd /\ tasks' = Append(tasks, e.fd) /\ UNCHANGED <<fds, link, again>>
    BY DEF EventReadable
  <1>2. /\ e.fd \in Fd /\ e.fd \notin Claimed
        /\ \/ fds[e.fd] \in Conn
           \/ e.fd = ListenFd /\ fds[e.fd] = Free
    BY <1>1, EventIsOfConn
  <1> DEFINE t == fds[e.fd]
  <1>3. t \in Conn \cup {Free}
    BY <1>2
  <1>4. pool_open
    BY DEF IInv, PoolMatches
  <1>5. \A f \in Claimed : f \in Fd /\ fds[f] # t
    <2>1. \A f \in Claimed : f \in Fd /\ (fds[f] \in Conn \/ Stale(f))
      <3>1. Queued \subseteq Fd
        BY DEF IInv, TypeOK, Queued
      <3>2. Held \subseteq Fd
        BY WorkerHolds DEF Held
      <3> QED
        BY <3>1, <3>2 DEF IInv, OneKeeper, Claimed
    <2> QED
      BY <1>2, <2>1, HttpAssumption DEF Stale, IInv, OneNumber
  <1>6. t \notin Active
    BY <1>5 DEF Active, Claimed
  <1>7. t \notin Finished
    <2>1. t \in Conn => link[t] # "served"
      BY <1>2 DEF IInv, OneNumber
    <2>2. t = Free => again # "worker"
      BY <1>2, HttpAssumption DEF IInv, PoolMatches
    <2> QED
      BY <2>1, <2>2 DEF Finished
  <1>8. \A i \in DOMAIN Backlog : Backlog[i] # t
    BY <1>5 DEF Backlog, Claimed, Queued
  <1>9. Backlog' = Append(Backlog, t)
    <2>1. tasks \in Seq(Fd) /\ fds \in [Fd -> Conn \cup {Free, Listener, Other}]
      BY DEF IInv, TypeOK
    <2> QED
      BY <1>1, <1>2, <2>1, MapAppend DEF Backlog
  <1>10. Active' = Active /\ Finished' = Finished
    BY <1>1 DEF Active, Finished, Held
  <1>11. Pool!Submit(t)
    BY <1>4, <1>6, <1>7, <1>8, <1>9, <1>10 DEF Pool!Submit, Backlog, Active, Finished
  <1> QED
    BY <1>3, <1>11 DEF Pool!Submit

\* A worker that takes a number starts the first task of the Executor.
LEMMA TakeStarts ==
  ASSUME IInv, NEW w \in Worker, Take(w)
  PROVE  Pool!Start
  <1>1. /\ worker[w] = "idle" /\ tasks # <<>>
        /\ wfd' = [wfd EXCEPT ![w] = Head(tasks)]
        /\ tasks' = Tail(tasks)
        /\ worker' = [worker EXCEPT ![w] = "recv"]
        /\ UNCHANGED <<fds, pool_open, link, again>>
    BY DEF Take, sockets
  <1>2. /\ tasks \in Seq(Fd) /\ fds \in [Fd -> Conn \cup {Free, Listener, Other}]
        /\ worker \in [Worker -> {"idle", "recv", "send", "close"}]
        /\ wfd \in [Worker -> Fd \cup {NoFd}]
    BY DEF IInv, TypeOK
  <1>3. Head(tasks) \in Fd
    BY <1>1, <1>2, FirstTask
  <1>4. /\ worker'[w] = "recv" /\ wfd'[w] = Head(tasks)
        /\ \A v \in Worker : v # w => worker'[v] = worker[v] /\ wfd'[v] = wfd[v]
    BY <1>1, <1>2, <1>3
  <1>5. Held' = Held \cup {Head(tasks)}
    BY <1>1, <1>4 DEF Held
  <1>6. Backlog # <<>> /\ Head(Backlog) = fds[Head(tasks)] /\ Backlog' = Tail(Backlog)
    BY <1>1, <1>2, MapTail DEF Backlog
  <1>7. Active' = Active \cup {fds[Head(tasks)]}
    BY <1>1, <1>5 DEF Active
  <1>8. Finished' = Finished
    BY <1>1 DEF Finished
  <1> QED
    BY <1>1, <1>6, <1>7, <1>8 DEF Pool!Start, Backlog, Active, Finished

\* A worker that closes its number finishes a task of the Executor.
LEMMA CloseFinishes ==
  ASSUME IInv, NEW w \in Worker, CloseClient(w)
  PROVE  \E t \in Conn \cup {Free} : Pool!Finish(t)
  <1> DEFINE f == wfd[w]
  <1> DEFINE t == fds[f]
  <1>1. /\ worker[w] = "close"
        /\ fds' = [fds EXCEPT ![f] = Free]
        /\ link' = [c \in Conn |-> IF c = t THEN "served" ELSE link[c]]
        /\ again' = IF t = Free THEN "worker" ELSE again
        /\ worker' = [worker EXCEPT ![w] = "idle"]
        /\ wfd' = [wfd EXCEPT ![w] = NoFd]
        /\ UNCHANGED <<tasks, pool_open>>
    BY DEF CloseClient, Closed, Served
  <1>2. /\ f \in Held /\ f \in Fd
        /\ t \in Conn \/ (f = ListenFd /\ t = Free)
        /\ \A v \in Worker : worker[v] # "idle" /\ v # w => wfd[v] # f
    BY <1>1, WorkerHolds DEF Stale
  <1>3. t \in Active
    BY <1>2 DEF Active
  <1>4. Held' = Held \ {f}
    <2>1. /\ worker'[w] = "idle"
          /\ \A v \in Worker : v # w => worker'[v] = worker[v] /\ wfd'[v] = wfd[v]
      BY <1>1 DEF IInv, TypeOK
    <2> QED
      BY <1>1, <1>2, <2>1 DEF Held
  <1>5. \A g \in Held : g \in Fd /\ (g # f => fds'[g] = fds[g] /\ fds[g] # t)
    <2>1. \A g \in Held : g \in Fd /\ (fds[g] \in Conn \/ Stale(g))
      BY WorkerHolds DEF Held, IInv, OneKeeper
    <2>2. \A g \in Fd : g # f => fds'[g] = fds[g]
      BY <1>1 DEF IInv, TypeOK
    <2>3. \A g \in Held : g # f => fds[g] # t
      BY <1>2, <2>1, HttpAssumption DEF Stale, IInv, OneNumber
    <2> QED
      BY <2>1, <2>2, <2>3
  <1>6. Active' = Active \ {t}
    BY <1>4, <1>5 DEF Active
  <1>7. Finished' = Finished \cup {t}
    <2>1. CASE t \in Conn
      BY <1>1, <2>1, HttpAssumption DEF Finished
    <2>2. CASE t = Free
      BY <1>1, <2>2, HttpAssumption DEF Finished
    <2> QED
      BY <1>2, <2>1, <2>2
  <1>8. Backlog' = Backlog
    <2>1. \A i \in DOMAIN tasks : tasks[i] # f /\ fds'[tasks[i]] = fds[tasks[i]]
      <3>1. \A i \in DOMAIN tasks : tasks[i] \in Queued /\ tasks[i] \in Fd
        BY DEF IInv, TypeOK, Queued
      <3>2. f \notin Queued
        BY <1>2 DEF IInv, OneKeeper
      <3> QED
        BY <1>1, <3>1, <3>2 DEF IInv, TypeOK
    <2> QED
      BY <1>1, <2>1 DEF Backlog
  <1>9. Pool!Finish(t)
    BY <1>1, <1>3, <1>6, <1>7, <1>8 DEF Pool!Finish, Backlog, Active, Finished
  <1> QED
    BY <1>2, <1>9 DEF Pool!Finish

\* The destructor of the pool closes the Executor.
LEMMA DestroyCloses ==
  ASSUME IInv, DestroyPool
  PROVE  Pool!Close
  <1>1. pool_open /\ pool_open' = FALSE /\ UNCHANGED <<fds, tasks, worker, wfd, link, again>>
    BY DEF DestroyPool, sockets, IInv, PoolMatches
  <1>2. Held' = Held
    BY <1>1 DEF Held
  <1> QED
    BY <1>1, <1>2 DEF Pool!Close

\* The other steps, for which the pool does not move.
LEMMA OthersStutter ==
  ASSUME IInv,
         \/ \E c \in Conn : ClientStep(c)
         \/ Run \/ Check \/ WaitTimeout \/ WaitEvents \/ BatchDone \/ AcceptOne \/ AcceptEnds
         \/ \E w \in Worker : Recv(w) \/ RecvStale(w) \/ Reply(w)
         \/ StopFlag \/ StopShutdown \/ StopClose \/ StopClear \/ Join \/ Drained
         \/ UNCHANGED vars
  PROVE  UNCHANGED Pool!executorVars
  <1>1. UNCHANGED <<pool_open, tasks, again>>
    BY DEF ClientStep, Connect, Send, HangUp, Run, Check, WaitTimeout, WaitEvents, BatchDone,
       AcceptOne, AcceptEnds, Recv, RecvStale, Reply, StopFlag, StopShutdown, StopClose, StopClear,
       Join, Drained, vars, pool
  <1>2. Held' = Held
    <2>1. ASSUME NEW w \in Worker, Recv(w) \/ RecvStale(w) \/ Reply(w)
          PROVE  Held' = Held
      <3>1. wfd' = wfd /\ worker[w] # "idle"
        BY <2>1 DEF Recv, RecvStale, Reply
      <3>2. \E p \in {"send", "close"} : worker' = [worker EXCEPT ![w] = p]
        BY <2>1 DEF Recv, RecvStale, Reply
      <3>3. /\ worker'[w] # "idle"
            /\ \A v \in Worker : v # w => worker'[v] = worker[v]
        BY <3>2 DEF IInv, TypeOK
      <3> QED
        BY <3>1, <3>3 DEF Held
    <2>2. CASE ~\E w \in Worker : Recv(w) \/ RecvStale(w) \/ Reply(w)
      <3>1. UNCHANGED <<worker, wfd>>
        BY <2>2 DEF ClientStep, Connect, Send, HangUp, Run, Check, WaitTimeout, WaitEvents,
           BatchDone, AcceptOne, AcceptEnds, StopFlag, StopShutdown, StopClose, StopClear, Join,
           Drained, vars, pool
      <3> QED
        BY <3>1 DEF Held
    <2> QED
      BY <2>1, <2>2
  <1>3. \A f \in Claimed : f \in Fd /\ fds[f] # Listener /\ (fds[f] = Free => f = ListenFd)
    <2>1. Queued \subseteq Fd
      BY DEF IInv, TypeOK, Queued
    <2>2. Held \subseteq Fd
      BY WorkerHolds DEF Held
    <2>3. \A f \in Queued \cup Held : fds[f] \in Conn \/ Stale(f)
      BY DEF IInv, OneKeeper
    <2> QED
      BY <2>1, <2>2, <2>3, HttpAssumption DEF Claimed, Stale
  <1>4. \A f \in Claimed : fds'[f] = fds[f]
    <2>1. CASE AcceptOne
      <3>1. PICK c \in Waiting, f \in FreeFds : fds' = [fds EXCEPT ![f] = c]
        BY <2>1 DEF AcceptOne
      <3>2. fds[ListenFd] = Listener
        BY <2>1, ListenerEdge DEF AcceptOne, CanAccept
      <3>3. f \notin Claimed
        BY <1>3, <3>1, <3>2, HttpAssumption DEF FreeFds
      <3> QED
        BY <1>3, <3>1, <3>3 DEF IInv, TypeOK
    <2>2. CASE StopClose
      <3>1. server_fd = ListenFd /\ fds[ListenFd] = Listener /\ fds' = [fds EXCEPT ![server_fd] = Free]
        BY <2>2 DEF StopClose, Closed, IInv, ListenerKept
      <3> QED
        BY <1>3, <3>1 DEF IInv, TypeOK
    <2>3. CASE ~AcceptOne /\ ~StopClose
      BY <2>3 DEF ClientStep, Connect, Send, HangUp, Run, Check, WaitTimeout, WaitEvents,
         BatchDone, AcceptEnds, Recv, RecvStale, Reply, StopFlag, StopShutdown, StopClear,
         Join, Drained, vars, sockets
    <2> QED
      BY <2>1, <2>2, <2>3
  <1>5. \A c \in Conn : link'[c] = "served" <=> link[c] = "served"
    <2>1. ASSUME NEW c \in Conn, Connect(c)
          PROVE  \A d \in Conn : link'[d] = "served" <=> link[d] = "served"
      BY <2>1 DEF Connect, IInv, TypeOK
    <2>2. CASE AcceptOne
      BY <2>2 DEF AcceptOne, Waiting, IInv, TypeOK
    <2>3. CASE StopShutdown
      BY <2>3 DEF StopShutdown, Waiting
    <2>4. CASE ~(\E c \in Conn : Connect(c)) /\ ~AcceptOne /\ ~StopShutdown
      BY <2>4 DEF ClientStep, Send, HangUp, Run, Check, WaitTimeout, WaitEvents,
         BatchDone, AcceptEnds, Recv, RecvStale, Reply, StopFlag, StopClose, StopClear,
         Join, Drained, vars
    <2> QED
      BY <2>1, <2>2, <2>3, <2>4
  <1> QED
    BY <1>1, <1>2, <1>4, <1>5, PoolStutters

\* Events that submit nothing are no steps of the Executor.
LEMMA HangUpStutters ==
  ASSUME IInv, NEW e \in batch, EventListener(e) \/ EventHangUp(e),
         UNCHANGED <<pool_open, worker, wfd>>
  PROVE  UNCHANGED Pool!executorVars
  <1>1. CASE EventListener(e)
    <2>1. UNCHANGED <<fds, link, tasks, again>> /\ Held' = Held
      BY <1>1 DEF EventListener, Held
    <2> QED
      BY <2>1, PoolStutters
  <1>2. CASE EventHangUp(e)
    <2>1. /\ e.fd # server_fd
          /\ fds' = [fds EXCEPT ![e.fd] = Free]
          /\ link' = [c \in Conn |-> IF c = fds[e.fd] THEN "dropped" ELSE link[c]]
          /\ again' = IF fds[e.fd] = Free THEN "loop" ELSE again
          /\ UNCHANGED tasks
      BY <1>2 DEF EventHangUp, Closed
    <2>2. /\ e.fd \in Fd /\ e.fd \notin Claimed
          /\ fds[e.fd] \in Conn \/ (e.fd = ListenFd /\ fds[e.fd] = Free)
      BY <2>1, EventIsOfConn
    <2>3. Held' = Held
      BY DEF Held
    <2>4. \A f \in Claimed : fds'[f] = fds[f]
      <3>1. Claimed \subseteq Fd
        <4>1. Queued \subseteq Fd
          BY DEF IInv, TypeOK, Queued
        <4>2. Held \subseteq Fd
          BY WorkerHolds DEF Held
        <4> QED
          BY <4>1, <4>2 DEF Claimed
      <3> QED
        BY <2>1, <2>2, <3>1 DEF IInv, TypeOK
    <2>5. \A c \in Conn : link'[c] = "served" <=> link[c] = "served"
      BY <2>1, <2>2 DEF IInv, OneNumber
    <2>6. again' = "worker" <=> again = "worker"
      BY <2>1, <2>2, HttpAssumption DEF IInv, PoolMatches
    <2> QED
      BY <2>1, <2>3, <2>4, <2>5, <2>6, PoolStutters
  <1> QED
    BY <1>1, <1>2

\* Every step of the server is a step of the Executor or none.
LEMMA PoolNext == IInv /\ [Next]_vars => [Pool!ExecutorNext]_(Pool!executorVars)
  <1> SUFFICES ASSUME IInv, [Next]_vars
               PROVE  [Pool!ExecutorNext]_(Pool!executorVars)
    OBVIOUS
  <1>1. CASE NextEvent
    <2>1. PICK e \in batch : batch' = batch \ {e}
                             /\ (EventListener(e) \/ EventHangUp(e) \/ EventReadable(e))
      BY <1>1 DEF NextEvent
    <2>2. CASE EventListener(e) \/ EventHangUp(e)
      BY <1>1, <2>2, HangUpStutters DEF NextEvent
    <2>3. CASE EventReadable(e)
      BY <1>1, <2>1, <2>3, ReadableSubmits DEF NextEvent, Pool!ExecutorNext
    <2> QED
      BY <2>1, <2>2, <2>3
  <1>2. ASSUME NEW w \in Worker, WorkerStep(w)
        PROVE  [Pool!ExecutorNext]_(Pool!executorVars)
    <2>1. CASE Take(w)
      BY <2>1, TakeStarts DEF Pool!ExecutorNext
    <2>2. CASE CloseClient(w)
      BY <2>2, CloseFinishes DEF Pool!ExecutorNext
    <2>3. CASE Recv(w) \/ RecvStale(w) \/ Reply(w)
      BY <2>3, OthersStutter
    <2> QED
      BY <1>2, <2>1, <2>2, <2>3 DEF WorkerStep
  <1>3. CASE DestroyPool
    BY <1>3, DestroyCloses DEF Pool!ExecutorNext
  <1>4. CASE \/ \E c \in Conn : ClientStep(c)
             \/ Run \/ Check \/ WaitTimeout \/ WaitEvents \/ BatchDone \/ AcceptOne \/ AcceptEnds
             \/ StopFlag \/ StopShutdown \/ StopClose \/ StopClear \/ Join \/ Drained
             \/ UNCHANGED vars
    BY <1>4, OthersStutter
  <1> QED
    BY <1>1, <1>2, <1>3, <1>4 DEF Next, LoopStep, StopStep, Over

\* A connection is submitted to the pool once, handled in order and finished
\* once, and nothing is submitted after the pool was closed.
THEOREM AlwaysUsesPool == Spec => UsesPool
  <1>1. Init => Pool!ExecutorInit
    BY PoolInit
  <1>2. IInv /\ [Next]_vars => [Pool!ExecutorNext]_(Pool!executorVars)
    BY PoolNext
  <1> QED
    BY <1>1, <1>2, IInvAlways, PTL DEF Spec, UsesPool, Pool!ExecutorSpec
=============================================================================
