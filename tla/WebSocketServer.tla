--------------------------- MODULE WebSocketServer ---------------------------
(***************************************************************************)
(* The chat hub, src/src/websocket/websocket_server.cpp.  One asio thread  *)
(* runs every handler to its end before the next one starts; the only      *)
(* other thread that enters the object is the main thread, in stop().  The *)
(* four maps are guarded by connection_mutex_.  A handler that releases    *)
(* the mutex in the middle is several actions here, linked by `task'; a    *)
(* critical section is one action, because everything it reads or writes   *)
(* is either guarded by the mutex or touched by the asio thread only.      *)
(*                                                                         *)
(* websocketpp is external: a connection opens, delivers messages while it *)
(* is open, and has its close handler called once after either side closed *)
(* it.  send() and close() on a connection that is not open raise.         *)
(*                                                                         *)
(* The database is seen through the two calls the hub makes: getUserById,  *)
(* which only yields a display name, and saveMessage, which stores the     *)
(* message if the room still exists.  Rooms are deleted over HTTP.         *)
(***************************************************************************)
EXTENDS FiniteSets

CONSTANTS
    User, Conn, Room,
    NoUser, NoConn, NoRoom     \* "no entry in the map"

ASSUME NullAssumption ==
    /\ NoUser \notin User
    /\ NoConn \notin Conn
    /\ NoRoom \notin Room

VARIABLES
    conn_state,         \* websocketpp's session state of each connection
    user_connections,   \* user_connections_: user -> connection
    connection_users,   \* connection_users_: connection -> user
    room_members,       \* room_members_: room -> users, {} for no entry
    user_current_room,  \* user_current_room_: user -> room
    task,               \* the handler the asio thread is in, and its locals
    loop,               \* the asio event loop
    main,               \* where the main thread is in stop()
    unvisited,          \* connections the loop of stop() has still to close
    client              \* what the client of each open connection was told

maps == <<user_connections, connection_users, room_members, user_current_room>>
vars == <<conn_state, maps, task, loop, main, unvisited, client>>

Idle == [pc |-> "idle", hdl |-> NoConn, user |-> NoUser, room |-> NoRoom]

\* `heard' is the set of users the client has been told are in its room.
Nothing == [login |-> NoUser, room |-> NoRoom, heard |-> {}]

\* Where the asio thread can be in the message of an authenticated connection.
SignedInPc == {"reply", "join", "leave", "chat", "chat_save", "chat_cast"}

\* The locals a handler has set when it gets there; for "auth", user is the
\* one of the token, and for "join", room is the one asked for.
TaskOK ==
    /\ task \in [pc : {"idle", "reject", "auth", "auth_reply"} \cup SignedInPc,
                 hdl : Conn \cup {NoConn}, user : User \cup {NoUser},
                 room : Room \cup {NoRoom}]
    /\ task.pc = "idle" => task = Idle
    /\ task.pc # "idle" => task.hdl \in Conn
    /\ task.pc \in {"auth", "auth_reply"} \cup SignedInPc => task.user \in User
    /\ task.pc \in {"join", "chat_save", "chat_cast"} => task.room \in Room

TypeOK ==
    /\ conn_state \in [Conn -> {"none", "connecting", "open", "closing"}]
    /\ user_connections \in [User -> Conn \cup {NoConn}]
    /\ connection_users \in [Conn -> User \cup {NoUser}]
    /\ room_members \in [Room -> SUBSET User]
    /\ user_current_room \in [User -> Room \cup {NoRoom}]
    /\ TaskOK
    /\ loop \in {"running", "stopping", "exited"}
    /\ main \in {"up", "locking", "closing", "stop_io", "joining", "stopped"}
    /\ unvisited \subseteq Conn
    /\ client \in [Conn -> [login : User \cup {NoUser},
                            room : Room \cup {NoRoom}, heard : SUBSET User]]

Init ==
    /\ conn_state = [c \in Conn |-> "none"]
    /\ user_connections = [u \in User |-> NoConn]
    /\ connection_users = [c \in Conn |-> NoUser]
    /\ room_members = [r \in Room |-> {}]
    /\ user_current_room = [u \in User |-> NoRoom]
    /\ task = Idle
    /\ loop = "running"
    /\ main = "up"
    /\ unvisited = {}
    /\ client = [c \in Conn |-> Nothing]

-----------------------------------------------------------------------------
(* The asio thread and the mutex.                                          *)

At(pc) == task.pc = pc

\* Variant: several threads run the event loop.
LoopShared == loop = "running" /\ (task = Idle \/ At("join") \/ At("chat_save"))

\* One thread runs the event loop: the next handler waits for this one.
LoopFree == loop = "running" /\ task = Idle

\* Variant: a handler does not wait for the mutex.
MutexIgnored == TRUE

\* Variant: stop() joins the event loop before it releases the mutex.
MutexHeldOverJoin == main \notin {"closing", "stop_io", "joining"}

\* The main thread keeps connection_mutex_ over the whole loop of stop().
MutexFree == main # "closing"

Open(c) == conn_state[c] = "open"

\* The connections broadcast_to_room(r, _, except) delivers to.
Receivers(r, except) ==
    {c \in Conn : Open(c) /\ \E v \in room_members[r] \ {except} :
                                 user_connections[v] = c}

\* websocketpp close(): only an open connection starts closing, any other one
\* makes it raise, or set the error code, and is caught or ignored.
Closed(states, c) ==
    IF c \in Conn /\ states[c] = "open" THEN [states EXCEPT ![c] = "closing"]
                                        ELSE states

\* Variant: connection_users_ is not cleaned up.
NeverErased(users, c) == users

\* connection_users_.erase; NoConn is no key.
Erased(users, c) ==
    IF c \in Conn THEN [users EXCEPT ![c] = NoUser] ELSE users

\* A client keeps its view as long as its connection is open.
Viewed(views, states) ==
    [c \in Conn |-> IF states[c] = "open" THEN views[c] ELSE Nothing]

\* Variant: a member set that is never shrunk.
NeverLeft(members, u, r) == members

\* leave_room and join_room on room_members_.
LeftRoom(members, u, r) == [members EXCEPT ![r] = @ \ {u}]

JoinedRoom(members, u, r) == [members EXCEPT ![r] = @ \cup {u}]

\* Variant: the room is left in silence.
ToldNobody(u, r) == client

\* What the clients know after user_left of u went to the others in room r.
ToldLeft(u, r) ==
    [c \in Conn |-> IF c \in Receivers(r, u)
                    THEN [client[c] EXCEPT !.heard = @ \ {u}]
                    ELSE client[c]]

-----------------------------------------------------------------------------
(* Connections.                                                            *)

\* A TCP connection is accepted while stop_listening has not been called.
Accept(c) ==
    /\ LoopFree /\ main = "up"
    /\ conn_state[c] = "none"
    /\ conn_state' = [conn_state EXCEPT ![c] = "connecting"]
    /\ UNCHANGED <<maps, task, loop, main, unvisited, client>>

\* The handshake ends; on_open only logs.
OnOpen(c) ==
    /\ LoopFree
    /\ conn_state[c] = "connecting"
    /\ conn_state' = [conn_state EXCEPT ![c] = "open"]
    /\ UNCHANGED <<maps, task, loop, main, unvisited, client>>

\* A failed handshake calls no handler of this program.
HandshakeFails(c) ==
    /\ LoopFree
    /\ conn_state[c] = "connecting"
    /\ conn_state' = [conn_state EXCEPT ![c] = "none"]
    /\ UNCHANGED <<maps, task, loop, main, unvisited, client>>

\* The client closes, or its transport fails.
PeerCloses(c) ==
    /\ LoopFree
    /\ Open(c)
    /\ conn_state' = [conn_state EXCEPT ![c] = "closing"]
    /\ client' = Viewed(client, conn_state')
    /\ UNCHANGED <<maps, task, loop, main, unvisited>>

\* on_close of a connection that is in connection_users_.
OnCloseKnown(c) ==
    LET u == connection_users[c]
        r == user_current_room[u]
    IN  /\ LoopFree /\ MutexFree
        /\ conn_state[c] = "closing"
        /\ u # NoUser
        /\ conn_state' = [conn_state EXCEPT ![c] = "none"]
        /\ IF r # NoRoom
           THEN /\ client' = ToldLeft(u, r)
                /\ room_members' = LeftRoom(room_members, u, r)
                /\ user_current_room' = [user_current_room EXCEPT ![u] = NoRoom]
           ELSE UNCHANGED <<client, room_members, user_current_room>>
        /\ user_connections' = [user_connections EXCEPT ![u] = NoConn]
        /\ connection_users' = Erased(connection_users, c)
        /\ UNCHANGED <<task, loop, main, unvisited>>

\* on_close of one that never signed in or was replaced by a later sign-in.
OnCloseUnknown(c) ==
    /\ LoopFree /\ MutexFree
    /\ conn_state[c] = "closing"
    /\ connection_users[c] = NoUser
    /\ conn_state' = [conn_state EXCEPT ![c] = "none"]
    /\ UNCHANGED <<maps, task, loop, main, unvisited, client>>

OnClose(c) == OnCloseKnown(c) \/ OnCloseUnknown(c)

-----------------------------------------------------------------------------
(* on_message: the look-up in the first critical section, and what the      *)
(* message asks for.                                                       *)

Enters(c, pc, u, r) ==
    task' = [Idle EXCEPT !.pc = pc, !.hdl = c, !.user = u, !.room = r]

\* Anything but an auth message with a valid token of some user is rejected.
OnMessageUnknown(c) ==
    /\ LoopFree /\ MutexFree
    /\ Open(c)
    /\ connection_users[c] = NoUser
    /\ \/ Enters(c, "reject", NoUser, NoRoom)
       \/ \E u \in User : Enters(c, "auth", u, NoRoom)
    /\ UNCHANGED <<conn_state, maps, loop, main, unvisited, client>>

OnMessageKnown(c) ==
    LET u == connection_users[c]
    IN  /\ LoopFree /\ MutexFree
        /\ Open(c)
        /\ u # NoUser
        /\ \/ \E pc \in {"reply", "leave", "chat"} : Enters(c, pc, u, NoRoom)
           \/ \E r \in Room : Enters(c, "join", u, r)
        /\ UNCHANGED <<conn_state, maps, loop, main, unvisited, client>>

\* Bad JSON, another type than auth, no token or an invalid one: the
\* connection is closed.
RejectAuth ==
    /\ At("reject")
    /\ conn_state' = Closed(conn_state, task.hdl)
    /\ client' = Viewed(client, conn_state')
    /\ task' = Idle
    /\ UNCHANGED <<maps, loop, main, unvisited>>

\* The second critical section of on_message.  The user's earlier connection
\* is closed and forgotten; the room the user stood in is not touched.
Authenticate ==
    LET u == task.user
        old == user_connections[u]
    IN  /\ At("auth") /\ MutexFree
        /\ conn_state' = Closed(conn_state, old)
        /\ connection_users' = [Erased(connection_users, old)
                                   EXCEPT ![task.hdl] = u]
        /\ user_connections' = [user_connections EXCEPT ![u] = task.hdl]
        /\ client' = [Viewed(client, conn_state')
                         EXCEPT ![task.hdl] = [Nothing EXCEPT !.login = u]]
        /\ task' = [task EXCEPT !.pc = "auth_reply"]
        /\ UNCHANGED <<room_members, user_current_room, loop, main, unvisited>>

\* The success reply is sent outside the mutex.  If stop() closed the
\* connection meanwhile, send raises, the handler for std::exception sends
\* again and raises out of the event loop.
AuthReply ==
    /\ At("auth_reply")
    /\ loop' = IF Open(task.hdl) THEN loop ELSE "exited"
    /\ task' = Idle
    /\ UNCHANGED <<conn_state, maps, main, unvisited, client>>

\* Requests answered without a change: ping, an unknown type, bad JSON, a
\* missing field.  A failing send is caught.
ReplyOnly ==
    /\ At("reply")
    /\ task' = Idle
    /\ UNCHANGED <<conn_state, maps, loop, main, unvisited, client>>

-----------------------------------------------------------------------------
(* Rooms.                                                                  *)

\* handle_join_room from outside any room or from another room.  The joiner
\* is answered before the others are told: if that send raises, nobody is.
JoinRoom ==
    LET u == task.user
        r == task.room
        old == user_current_room[u]
        left == IF old = NoRoom THEN room_members
                                ELSE LeftRoom(room_members, u, old)
        told == IF old = NoRoom THEN client ELSE ToldLeft(u, old)
    IN  /\ At("join") /\ MutexFree
        /\ old # r
        /\ room_members' = JoinedRoom(left, u, r)
        /\ user_current_room' = [user_current_room EXCEPT ![u] = r]
        /\ client' =
             IF ~Open(task.hdl) THEN told
             ELSE [c \in Conn |->
                 CASE c = task.hdl -> [told[c] EXCEPT !.room = r, !.heard = {}]
                   [] c # task.hdl /\ c \in Receivers(r, u) ->
                          [told[c] EXCEPT !.heard = @ \cup {u}]
                   [] OTHER -> told[c]]
        /\ task' = Idle
        /\ UNCHANGED <<conn_state, user_connections, connection_users, loop,
                       main, unvisited>>

\* handle_join_room of the room the user is in: an error reply.
JoinSameRoom ==
    /\ At("join") /\ MutexFree
    /\ user_current_room[task.user] = task.room
    /\ task' = Idle
    /\ UNCHANGED <<conn_state, maps, loop, main, unvisited, client>>

\* handle_leave_room; the answer is sent last and may raise without effect.
LeaveRoom ==
    LET u == task.user
        r == user_current_room[u]
        told == ToldLeft(u, r)
    IN  /\ At("leave") /\ MutexFree
        /\ r # NoRoom
        /\ room_members' = LeftRoom(room_members, u, r)
        /\ user_current_room' = [user_current_room EXCEPT ![u] = NoRoom]
        /\ client' = IF Open(task.hdl)
                     THEN [told EXCEPT ![task.hdl].room = NoRoom,
                                       ![task.hdl].heard = {}]
                     ELSE told
        /\ task' = Idle
        /\ UNCHANGED <<conn_state, user_connections, connection_users, loop,
                       main, unvisited>>

\* handle_leave_room and handle_chat_message outside any room: an error reply.
NotInRoom ==
    /\ At("leave") \/ At("chat")
    /\ MutexFree
    /\ user_current_room[task.user] = NoRoom
    /\ task' = Idle
    /\ UNCHANGED <<conn_state, maps, loop, main, unvisited, client>>

-----------------------------------------------------------------------------
(* Chat messages: the room is read under the mutex, the message is saved   *)
(* and then broadcast with the mutex released.                             *)

ChatReadRoom ==
    /\ At("chat") /\ MutexFree
    /\ user_current_room[task.user] # NoRoom
    /\ task' = [task EXCEPT !.pc = "chat_save",
                            !.room = user_current_room[task.user]]
    /\ UNCHANGED <<conn_state, maps, loop, main, unvisited, client>>

\* saveMessage returns false when the room is not in the database; the result
\* is dropped and the message is broadcast (docs/API.md:748).
ChatSave ==
    /\ At("chat_save")
    /\ task' = [task EXCEPT !.pc = "chat_cast"]
    /\ UNCHANGED <<conn_state, maps, loop, main, unvisited, client>>

\* broadcast_to_room to everyone in the room, the sender included; a failing
\* send is caught per connection.
ChatCast ==
    /\ At("chat_cast")
    /\ task' = Idle
    /\ UNCHANGED <<conn_state, maps, loop, main, unvisited, client>>

-----------------------------------------------------------------------------
(* stop(), on the main thread.                                             *)

StopListening ==
    /\ main = "up"
    /\ main' = "locking"
    /\ UNCHANGED <<conn_state, maps, task, loop, unvisited, client>>

StopLock ==
    /\ main = "locking"
    /\ main' = "closing"
    /\ unvisited' = {c \in Conn : connection_users[c] # NoUser}
    /\ UNCHANGED <<conn_state, maps, task, loop, client>>

StopCloseOne(c) ==
    /\ main = "closing"
    /\ c \in unvisited
    /\ unvisited' = unvisited \ {c}
    /\ conn_state' = Closed(conn_state, c)
    /\ client' = Viewed(client, conn_state')
    /\ UNCHANGED <<maps, task, loop, main>>

StopUnlock ==
    /\ main = "closing"
    /\ unvisited = {}
    /\ main' = "stop_io"
    /\ UNCHANGED <<conn_state, maps, task, loop, unvisited, client>>

StopIo ==
    /\ main = "stop_io"
    /\ main' = "joining"
    /\ loop' = IF loop = "running" THEN "stopping" ELSE loop
    /\ UNCHANGED <<conn_state, maps, task, unvisited, client>>

\* server_.run() returns once the handler it is in has returned.
LoopExit ==
    /\ loop = "stopping" /\ task = Idle
    /\ loop' = "exited"
    /\ UNCHANGED <<conn_state, maps, task, main, unvisited, client>>

StopJoin ==
    /\ main = "joining" /\ loop = "exited"
    /\ main' = "stopped"
    /\ UNCHANGED <<conn_state, maps, task, loop, unvisited, client>>

\* Nothing is left to do once stop() has returned.
Stopped == main = "stopped" /\ UNCHANGED vars

-----------------------------------------------------------------------------

ConnStep(c) ==
    \/ Accept(c) \/ OnOpen(c) \/ HandshakeFails(c) \/ PeerCloses(c)
    \/ OnClose(c) \/ OnMessageUnknown(c) \/ OnMessageKnown(c)

HandlerStep ==
    \/ RejectAuth
    \/ Authenticate
    \/ AuthReply
    \/ ReplyOnly
    \/ JoinRoom
    \/ JoinSameRoom
    \/ LeaveRoom
    \/ NotInRoom
    \/ ChatReadRoom
    \/ ChatSave
    \/ ChatCast

MainStep ==
    \/ StopListening
    \/ StopLock
    \/ \E c \in Conn : StopCloseOne(c)
    \/ StopUnlock
    \/ StopIo
    \/ StopJoin

Next ==
    \/ \E c \in Conn : ConnStep(c)
    \/ HandlerStep
    \/ MainStep
    \/ LoopExit
    \/ Stopped

Spec == Init /\ [][Next]_vars

\* A handler that was entered is run on by its thread; main runs stop() to its
\* end once it began; the event loop returns after server_.stop().  asio takes
\* completions from a queue, so the close handler of a connection runs even
\* though other handlers keep the loop busy: strong fairness.  Nothing obliges
\* a client to send, to close, or main to be asked to stop.
Fairness ==
    /\ WF_vars(HandlerStep)
    /\ WF_vars(LoopExit)
    /\ WF_vars(MainStep /\ ~StopListening)
    /\ \A c \in Conn : SF_vars(OnClose(c))

FairSpec == Spec /\ Fairness

-----------------------------------------------------------------------------
(* Properties.                                                             *)

\* user_connections_ and connection_users_ are inverse to each other: a user is
\* reached on the connection that speaks for the user, and on no other.  Three
\* handlers write both maps, and a replaced connection must vanish from one.
SessionsMatch ==
    \A u \in User, c \in Conn :
        user_connections[u] = c <=> connection_users[c] = u

\* room_members_ and user_current_room_ say the same: every user is listed in
\* the current room and in no other.
RoomsMatch ==
    \A u \in User, r \in Room :
        u \in room_members[r] <=> user_current_room[u] = r

\* Nobody stays in a room without a session, and no session belongs to a
\* connection whose close handler has run: a room never holds a ghost that
\* no later event would remove.
NoGhosts ==
    /\ \A u \in User :
           user_current_room[u] # NoRoom => user_connections[u] # NoConn
    /\ \A c \in Conn :
           connection_users[c] # NoUser => conn_state[c] \in {"open", "closing"}

\* What a client was told stays true while its connection is open.  It is the
\* registered connection of the user it signed in as: signing in elsewhere never
\* leaves a second open connection of the user, nor one whose next request would
\* be refused as unauthenticated.  It is in the room of its last room_joined, and
\* whoever was announced by user_joined and not by user_left since is still there.
ClientViewTrue ==
    \A c \in Conn :
        LET u == client[c].login
            r == user_current_room[u]
        IN  Open(c) /\ u # NoUser =>
                /\ connection_users[c] = u
                /\ client[c].room \in {NoRoom, r}
                /\ client[c].heard # {} =>
                       r # NoRoom /\ client[c].heard \subseteq room_members[r]

\* What a handler read under the mutex is still so when it goes on without it:
\* the user that was looked up, and the room a chat message was accepted for.
LocalsFresh ==
    /\ task.pc \in SignedInPc => connection_users[task.hdl] = task.user
    /\ At("chat_save") \/ At("chat_cast") =>
           user_current_room[task.user] = task.room

\* A chat message about to be broadcast goes to open connections whose clients
\* are in the message's room, and to the sender's unless it is being closed.
ChatReachesItsRoom ==
    At("chat_cast") =>
        LET targets == Receivers(task.room, NoUser)
        IN  /\ \A c \in targets : user_current_room[client[c].login] = task.room
            /\ Open(task.hdl) => task.hdl \in targets

\* While stop() walks connection_users_ under the mutex, no handler changes the
\* maps under its iterator.
MapsStableInStop == [][main = "closing" => UNCHANGED maps]_vars

\* Where the members lists say a user is.
PlaceOf(u) ==
    IF \E r \in Room : u \in room_members[r]
    THEN CHOOSE r \in Room : u \in room_members[r]
    ELSE NoRoom

\* The hub implements ChatPresence: whatever is in flight, each handler moves
\* the users as one step of the abstract specification, or not at all.
Presence == INSTANCE ChatPresence WITH
    online <- {u \in User : user_connections[u] # NoConn},
    place <- [u \in User |-> PlaceOf(u)]

ImplementsPresence == Presence!PresenceSpec

\* A dead connection does not keep its user signed in: its close handler runs,
\* or another sign-in takes the session over, or the event loop is stopped.
DeadSessionEnds ==
    \A c \in Conn :
        conn_state[c] = "closing" /\ connection_users[c] # NoUser
            ~> connection_users[c] = NoUser \/ loop # "running"

\* stop() comes back: the main thread gets the mutex, the event loop ends and
\* the thread is joined, whatever the handlers are doing.
StopReturns == main # "up" ~> main = "stopped"
=============================================================================
