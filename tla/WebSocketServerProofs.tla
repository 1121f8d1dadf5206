------------------------ MODULE WebSocketServerProofs ------------------------
(***************************************************************************)
(* Proofs about the chat hub for every set of users, connections and       *)
(* rooms.                                                                  *)
(***************************************************************************)
EXTENDS WebSocketServer, TLAPS

-----------------------------------------------------------------------------
(* Types.                                                                  *)

\* The task of an idle asio thread is of the type of tasks.
LEMMA IdleType ==
    /\ Idle \in [pc : {"idle", "reject", "auth", "auth_reply"} \cup SignedInPc,
                 hdl : Conn \cup {NoConn}, user : User \cup {NoUser},
                 room : Room \cup {NoRoom}]
    /\ Idle.pc = "idle"
BY DEF Idle

\* A handler that returns, or does not touch the locals, leaves them typed.
LEMMA TaskKept ==
    ASSUME TaskOK, task' = Idle \/ task' = task
    PROVE  TaskOK'
BY IdleType DEF TaskOK, SignedInPc, Idle

\* A message that enters a handler sets the locals that handler needs.
LEMMA Entering ==
    ASSUME NEW c \in Conn, NEW u, NEW r, NEW pc,
           Enters(c, pc, u, r),
           \/ pc = "reject" /\ u = NoUser /\ r = NoRoom
           \/ pc \in {"auth", "reply", "leave", "chat"} /\ u \in User /\ r = NoRoom
           \/ pc = "join" /\ u \in User /\ r \in Room
    PROVE  TaskOK'
<1>1. task' = [pc |-> pc, hdl |-> c, user |-> u, room |-> r]
  BY DEF Enters, Idle
<1>2. QED
  BY <1>1 DEF TaskOK, SignedInPc

ClientType ==
    [Conn -> [login : User \cup {NoUser}, room : Room \cup {NoRoom},
              heard : SUBSET User]]

\* The helpers that update a map return a map of the same type.
LEMMA HelperTypes ==
    ASSUME TypeOK
    PROVE  /\ \A c : Closed(conn_state, c) \in
                     [Conn -> {"none", "connecting", "open", "closing"}]
           /\ \A c : Erased(connection_users, c) \in [Conn -> User \cup {NoUser}]
           /\ \A u, r : LeftRoom(room_members, u, r) \in [Room -> SUBSET User]
           /\ \A u, r : ToldLeft(u, r) \in ClientType
           /\ \A states : Viewed(client, states) \in ClientType
<1>1. \A c : Closed(conn_state, c) \in
                 [Conn -> {"none", "connecting", "open", "closing"}]
  BY DEF TypeOK, Closed
<1>2. \A c : Erased(connection_users, c) \in [Conn -> User \cup {NoUser}]
  BY DEF TypeOK, Erased
<1>3. \A u, r : LeftRoom(room_members, u, r) \in [Room -> SUBSET User]
  BY DEF TypeOK, LeftRoom
<1>4. ASSUME NEW u, NEW r
      PROVE  ToldLeft(u, r) \in ClientType
  <2>1. ASSUME NEW c \in Conn
        PROVE  [client[c] EXCEPT !.heard = @ \ {u}] \in
                   [login : User \cup {NoUser}, room : Room \cup {NoRoom},
                    heard : SUBSET User]
    BY DEF TypeOK
  <2>2. QED
    BY <2>1 DEF TypeOK, ToldLeft, ClientType
<1>5. \A states : Viewed(client, states) \in ClientType
  <2>1. Nothing \in [login : User \cup {NoUser}, room : Room \cup {NoRoom},
                    heard : SUBSET User]
    BY DEF Nothing
  <2>2. QED
    BY <2>1 DEF TypeOK, Viewed, ClientType
<1>6. QED
  BY <1>1, <1>2, <1>3, <1>4, <1>5

\* The variables keep their types, and a handler has the locals it needs.
THEOREM TypeCorrect == Spec => []TypeOK
<1>1. Init => TypeOK
  BY IdleType DEF Init, TypeOK, TaskOK, SignedInPc, Nothing
<1>2. TypeOK /\ [Next]_vars => TypeOK'
  <2> SUFFICES ASSUME TypeOK, [Next]_vars
               PROVE  TypeOK'
    OBVIOUS
  <2>1. ASSUME NEW c \in Conn, ConnStep(c)
        PROVE  TypeOK'
    <3>1. CASE Accept(c) \/ OnOpen(c) \/ HandshakeFails(c) \/ OnCloseUnknown(c)
      BY <3>1, TaskKept DEF Accept, OnOpen, HandshakeFails, OnCloseUnknown, TypeOK, maps
    <3>2. CASE PeerCloses(c)
      BY <3>2, TaskKept, HelperTypes DEF PeerCloses, TypeOK, maps, ClientType
    <3>3. CASE OnCloseKnown(c)
      BY <3>3, TaskKept, HelperTypes DEF OnCloseKnown, TypeOK, ClientType
    <3>4. CASE OnMessageUnknown(c)
      <4>1. TaskOK'
        BY <3>4, Entering DEF OnMessageUnknown, SignedInPc
      <4>2. QED
        BY <3>4, <4>1 DEF OnMessageUnknown, TypeOK, maps
    <3>5. CASE OnMessageKnown(c)
      <4>1. connection_users[c] \in User
        BY <3>5 DEF OnMessageKnown, TypeOK
      <4>2. TaskOK'
        BY <3>5, <4>1, Entering DEF OnMessageKnown, SignedInPc
      <4>3. QED
        BY <3>5, <4>2 DEF OnMessageKnown, TypeOK, maps
    <3>6. QED
      BY <2>1, <3>1, <3>2, <3>3, <3>4, <3>5 DEF ConnStep, OnClose
  <2>2. CASE HandlerStep
    <3>1. CASE RejectAuth
      BY <3>1, TaskKept, HelperTypes DEF RejectAuth, TypeOK, maps, ClientType
    <3>2. CASE Authenticate
      <4>1. task.user \in User /\ task.hdl \in Conn
        BY <3>2 DEF Authenticate, At, TypeOK, TaskOK
      <4>2. TaskOK'
        BY <3>2 DEF Authenticate, TypeOK, TaskOK, At, SignedInPc
      <4>3. [Nothing EXCEPT !.login = task.user] \in
                [login : User \cup {NoUser}, room : Room \cup {NoRoom},
                 heard : SUBSET User]
        BY <4>1 DEF Nothing
      <4>4. client' \in ClientType
        BY <3>2, <4>3, HelperTypes DEF Authenticate, ClientType
      <4>5. /\ conn_state' \in [Conn -> {"none", "connecting", "open", "closing"}]
            /\ connection_users' \in [Conn -> User \cup {NoUser}]
        BY <3>2, <4>1, HelperTypes DEF Authenticate
      <4>6. user_connections' \in [User -> Conn \cup {NoConn}]
        BY <3>2, <4>1 DEF Authenticate, TypeOK
      <4>7. QED
        BY <3>2, <4>2, <4>4, <4>5, <4>6 DEF Authenticate, TypeOK, ClientType
    <3>3. CASE AuthReply \/ ReplyOnly \/ JoinSameRoom \/ NotInRoom \/ ChatCast
      BY <3>3, TaskKept
         DEF AuthReply, ReplyOnly, JoinSameRoom, NotInRoom, ChatCast, TypeOK, maps
    <3>4. CASE JoinRoom
      <4> DEFINE u == task.user
                 r == task.room
                 old == user_current_room[u]
                 left == IF old = NoRoom THEN room_members
                                         ELSE LeftRoom(room_members, u, old)
                 told == IF old = NoRoom THEN client ELSE ToldLeft(u, old)
      <4>0. u \in User /\ r \in Room
        BY <3>4 DEF JoinRoom, At, SignedInPc, TypeOK, TaskOK
      <4>1. left \in [Room -> SUBSET User] /\ told \in ClientType
        BY HelperTypes DEF TypeOK, ClientType
      <4>2. room_members' \in [Room -> SUBSET User]
        BY <3>4, <4>0, <4>1 DEF JoinRoom, JoinedRoom
      <4>3. user_current_room' \in [User -> Room \cup {NoRoom}]
        BY <3>4, <4>0 DEF JoinRoom, TypeOK
      <4>4. client' \in ClientType
        <5>1. CASE ~Open(task.hdl)
          BY <3>4, <4>1, <5>1 DEF JoinRoom
        <5>2. CASE Open(task.hdl)
          <6>1. ASSUME NEW c \in Conn
                PROVE  /\ [told[c] EXCEPT !.room = r, !.heard = {}] \in
                              [login : User \cup {NoUser},
                               room : Room \cup {NoRoom}, heard : SUBSET User]
                       /\ [told[c] EXCEPT !.heard = @ \cup {u}] \in
                              [login : User \cup {NoUser},
                               room : Room \cup {NoRoom}, heard : SUBSET User]
            BY <4>0, <4>1 DEF ClientType
          <6>2. QED
            BY <3>4, <4>1, <5>2, <6>1 DEF JoinRoom, ClientType
        <5>3. QED
          BY <5>1, <5>2
      <4>5. QED
        BY <3>4, <4>2, <4>3, <4>4, TaskKept DEF JoinRoom, TypeOK, ClientType
    <3>5. CASE LeaveRoom
      <4> DEFINE told == ToldLeft(task.user, user_current_room[task.user])
      <4>1. told \in ClientType /\ client' \in ClientType
        <5>1. told \in ClientType
          BY HelperTypes
        <5>2. [told EXCEPT ![task.hdl].room = NoRoom, ![task.hdl].heard = {}]
                  \in ClientType
          BY <5>1 DEF ClientType
        <5>3. QED
          BY <3>5, <5>1, <5>2 DEF LeaveRoom
      <4>2. QED
        BY <3>5, <4>1, TaskKept, HelperTypes DEF LeaveRoom, TypeOK, ClientType
    <3>6. CASE ChatReadRoom \/ ChatSave
      <4>1. TaskOK'
        <5>1. CASE ChatReadRoom
          <6>1. user_current_room[task.user] \in Room
            BY <5>1 DEF ChatReadRoom, At, SignedInPc, TypeOK, TaskOK
          <6>2. QED
            BY <5>1, <6>1 DEF ChatReadRoom, TypeOK, TaskOK, At, SignedInPc
        <5>2. CASE ChatSave
          <6>1. /\ task'.pc = "chat_cast"
                /\ task'.hdl = task.hdl /\ task.hdl \in Conn
                /\ task'.user = task.user /\ task.user \in User
                /\ task'.room = task.room /\ task.room \in Room
            BY <5>2 DEF ChatSave, TypeOK, TaskOK, At, SignedInPc
          <6>3. task' \in [pc : {"idle", "reject", "auth", "auth_reply"}
                                    \cup SignedInPc,
                           hdl : Conn \cup {NoConn}, user : User \cup {NoUser},
                           room : Room \cup {NoRoom}]
            BY <5>2 DEF ChatSave, TypeOK, TaskOK, At, SignedInPc
          <6>4. QED
            BY <6>1, <6>3 DEF TaskOK, SignedInPc
        <5>3. QED
          BY <3>6, <5>1, <5>2
      <4>2. QED
        BY <3>6, <4>1 DEF ChatReadRoom, ChatSave, TypeOK, maps
    <3>7. QED
      BY <2>2, <3>1, <3>2, <3>3, <3>4, <3>5, <3>6 DEF HandlerStep
  <2>3. CASE MainStep
    <3>1. ASSUME NEW c \in Conn, StopCloseOne(c)
          PROVE  TypeOK'
      BY <3>1, TaskKept, HelperTypes DEF StopCloseOne, TypeOK, maps, ClientType
    <3>2. CASE StopListening \/ StopLock \/ StopUnlock \/ StopIo \/ StopJoin
      BY <3>2, TaskKept DEF StopListening, StopLock, StopUnlock, StopIo, StopJoin, TypeOK, maps
    <3>3. QED
      BY <2>3, <3>1, <3>2 DEF MainStep
  <2>4. CASE LoopExit
    BY <2>4, TaskKept DEF LoopExit, TypeOK, maps
  <2>5. CASE Stopped \/ UNCHANGED vars
    BY <2>5, TaskKept DEF Stopped, vars, maps, TypeOK
  <2>6. QED
    BY <2>1, <2>2, <2>3, <2>4, <2>5 DEF Next
<1>3. QED
  BY <1>1, <1>2, PTL DEF Spec

-----------------------------------------------------------------------------
(* The four maps.                                                          *)

\* A connection whose sign-in is under way speaks for nobody yet and is not
\* forgotten by websocketpp.
SigningIn ==
    At("auth") => /\ connection_users[task.hdl] = NoUser
                  /\ conn_state[task.hdl] \in {"open", "closing"}

\* No conjunct is inductive alone: a join keeps NoGhosts because LocalsFresh
\* says the joiner still has a session, LocalsFresh survives the handlers that
\* change the maps because SessionsMatch makes the sessions distinct, and so on.
Consistent ==
    /\ TypeOK
    /\ SessionsMatch
    /\ RoomsMatch
    /\ NoGhosts
    /\ LocalsFresh
    /\ SigningIn

\* Nobody is connected at first.
LEMMA ConsistentInit == Init => Consistent
<1> SUFFICES ASSUME Init
             PROVE  Consistent
  OBVIOUS
<1>1. TypeOK
  BY IdleType DEF Init, TypeOK, TaskOK, SignedInPc, Nothing
<1>2. SessionsMatch /\ RoomsMatch /\ NoGhosts
  BY NullAssumption DEF Init, SessionsMatch, RoomsMatch, NoGhosts
<1>3. LocalsFresh /\ SigningIn
  BY IdleType DEF Init, LocalsFresh, SigningIn, At, SignedInPc
<1>4. QED
  BY <1>1, <1>2, <1>3 DEF Consistent

\* Steps that leave the maps alone, move connections only along their life
\* cycle and run the handler on, or to its end.
LEMMA QuietStep ==
    ASSUME Consistent, TypeOK', UNCHANGED maps,
           \A c \in Conn : conn_state[c] \in {"open", "closing"} =>
               \/ conn_state'[c] \in {"open", "closing"}
               \/ connection_users[c] = NoUser /\ task = Idle,
           \/ task' = task
           \/ task' = Idle
    PROVE  Consistent'
<1>1. SessionsMatch' /\ RoomsMatch'
  BY DEF Consistent, SessionsMatch, RoomsMatch, maps
<1>2. NoGhosts'
  BY DEF Consistent, NoGhosts, maps, TypeOK
<1>3. LocalsFresh'
  BY IdleType DEF Consistent, LocalsFresh, maps, At, SignedInPc
<1>4. SigningIn'
  BY IdleType DEF Consistent, SigningIn, maps, At, TypeOK, TaskOK
<1>5. QED
  BY <1>1, <1>2, <1>3, <1>4 DEF Consistent

\* A message handler looks its user up and changes no map.
LEMMA EnteringStep ==
    ASSUME Consistent, TypeOK', NEW c \in Conn,
           OnMessageUnknown(c) \/ OnMessageKnown(c)
    PROVE  Consistent'
<1>1. UNCHANGED <<conn_state, user_connections, connection_users,
                  room_members, user_current_room>>
  BY DEF OnMessageUnknown, OnMessageKnown, maps
<1>2. SessionsMatch' /\ RoomsMatch' /\ NoGhosts'
  BY <1>1 DEF Consistent, SessionsMatch, RoomsMatch, NoGhosts
<1>3. /\ task'.pc \in SignedInPc => connection_users[task'.hdl] = task'.user
      /\ task'.pc \notin {"chat_save", "chat_cast"}
      /\ task'.pc = "auth" => task'.hdl = c /\ connection_users[c] = NoUser
  <2>1. CASE OnMessageUnknown(c)
    BY <2>1 DEF OnMessageUnknown, Enters, Idle, SignedInPc
  <2>2. CASE OnMessageKnown(c)
    BY <2>2 DEF OnMessageKnown, Enters, Idle, SignedInPc
  <2>3. QED
    BY <2>1, <2>2
<1>4. LocalsFresh' /\ SigningIn'
  BY <1>1, <1>3
     DEF LocalsFresh, SigningIn, At, OnMessageUnknown, OnMessageKnown, Open
<1>5. QED
  BY <1>2, <1>4 DEF Consistent

\* The close handler takes both entries and the place in the room out together.
LEMMA CloseStep ==
    ASSUME Consistent, TypeOK', NEW c \in Conn, OnCloseKnown(c)
    PROVE  Consistent'
<1> DEFINE u == connection_users[c]
           r == user_current_room[u]
<1>1. u \in User /\ user_connections[u] = c /\ r \in Room \cup {NoRoom}
  BY DEF OnCloseKnown, Consistent, TypeOK, SessionsMatch
<1>2. /\ connection_users' = [connection_users EXCEPT ![c] = NoUser]
      /\ user_connections' = [user_connections EXCEPT ![u] = NoConn]
      /\ conn_state' = [conn_state EXCEPT ![c] = "none"]
      /\ task = Idle /\ task' = Idle
  BY DEF OnCloseKnown, Erased, LoopFree
<1>3. SessionsMatch'
  BY <1>1, <1>2, NullAssumption DEF Consistent, SessionsMatch, TypeOK
<1>4. /\ user_current_room' = [user_current_room EXCEPT ![u] = NoRoom]
      /\ \A q \in Room, v \in User :
             v \in room_members'[q] <=> v \in room_members[q] /\ v # u
  <2>1. CASE r = NoRoom
    <3>1. \A q \in Room : u \notin room_members[q]
      BY <1>1, <2>1, NullAssumption DEF Consistent, RoomsMatch
    <3>2. /\ room_members' = room_members
          /\ user_current_room' = user_current_room
      BY <2>1 DEF OnCloseKnown
    <3>3. QED
      BY <1>1, <2>1, <3>1, <3>2 DEF Consistent, TypeOK
  <2>2. CASE r # NoRoom
    <3>1. \A q \in Room : q # r => u \notin room_members[q]
      BY <1>1 DEF Consistent, RoomsMatch
    <3>2. /\ room_members' = [room_members EXCEPT ![r] = @ \ {u}]
          /\ user_current_room' = [user_current_room EXCEPT ![u] = NoRoom]
      BY <2>2 DEF OnCloseKnown, LeftRoom
    <3>3. QED
      BY <1>1, <3>1, <3>2 DEF Consistent, TypeOK
  <2>3. QED
    BY <2>1, <2>2
<1>5. RoomsMatch'
  BY <1>1, <1>4, NullAssumption DEF Consistent, RoomsMatch, TypeOK
<1>6. NoGhosts'
  BY <1>1, <1>2, <1>4 DEF Consistent, NoGhosts, TypeOK
<1>7. LocalsFresh' /\ SigningIn'
  BY <1>2, IdleType DEF LocalsFresh, SigningIn, At, SignedInPc
<1>8. QED
  BY <1>3, <1>5, <1>6, <1>7 DEF Consistent

\* Signing in replaces the older connection of the user, in both maps.
LEMMA AuthenticateStep ==
    ASSUME Consistent, TypeOK', Authenticate
    PROVE  Consistent'
<1> DEFINE u == task.user
           h == task.hdl
           old == user_connections[u]
<1>1. /\ u \in User /\ h \in Conn
      /\ connection_users[h] = NoUser
      /\ conn_state[h] \in {"open", "closing"}
      /\ old # h
  BY NullAssumption
     DEF Authenticate, At, Consistent, TypeOK, TaskOK, SigningIn, SessionsMatch
<1>2. /\ \A c \in Conn : connection_users'[c] =
             IF c = h THEN u ELSE IF c = old THEN NoUser ELSE connection_users[c]
      /\ user_connections' = [user_connections EXCEPT ![u] = h]
  BY <1>1 DEF Authenticate, Erased, Consistent, TypeOK
<1>3. SessionsMatch'
  BY <1>1, <1>2, NullAssumption DEF Consistent, SessionsMatch, TypeOK
<1>4. RoomsMatch'
  BY DEF Authenticate, Consistent, RoomsMatch
<1>5. \A c \in Conn : conn_state[c] \in {"open", "closing"} =>
                          conn_state'[c] \in {"open", "closing"}
  BY DEF Authenticate, Closed, Consistent, TypeOK
<1>6. NoGhosts'
  BY <1>1, <1>2, <1>5, NullAssumption
     DEF Authenticate, Consistent, NoGhosts, TypeOK
<1>7. task'.pc = "auth_reply"
  BY DEF Authenticate, Consistent, TypeOK, TaskOK
<1>8. LocalsFresh' /\ SigningIn'
  BY <1>7 DEF LocalsFresh, SigningIn, At, SignedInPc
<1>9. QED
  BY <1>3, <1>4, <1>6, <1>8 DEF Consistent

\* Where a join or a leave puts its user; the rest of the maps stays.
LEMMA RoomStep ==
    ASSUME Consistent, TypeOK', NEW u \in User, NEW r \in Room \cup {NoRoom},
           user_current_room' = [user_current_room EXCEPT ![u] = r],
           \A q \in Room, v \in User :
               v \in room_members'[q] <=>
                   IF v = u THEN q = r ELSE v \in room_members[q],
           UNCHANGED <<conn_state, user_connections, connection_users>>,
           r # NoRoom => user_connections[u] # NoConn,
           task' = Idle
    PROVE  Consistent'
<1>1. SessionsMatch'
  BY DEF Consistent, SessionsMatch
<1>2. RoomsMatch'
  BY NullAssumption DEF Consistent, RoomsMatch, TypeOK
<1>3. NoGhosts'
  BY DEF Consistent, NoGhosts, TypeOK
<1>4. LocalsFresh' /\ SigningIn'
  BY IdleType DEF LocalsFresh, SigningIn, At, SignedInPc
<1>5. QED
  BY <1>1, <1>2, <1>3, <1>4 DEF Consistent

\* The user a handler was entered for holds the session it came in on.
LEMMA SignedInUser ==
    ASSUME Consistent, task.pc \in SignedInPc
    PROVE  /\ task.user \in User /\ task.hdl \in Conn
           /\ user_connections[task.user] = task.hdl
           /\ task.hdl # NoConn
           /\ user_current_room[task.user] \in Room \cup {NoRoom}
BY NullAssumption
   DEF Consistent, TypeOK, TaskOK, LocalsFresh, SessionsMatch, SignedInPc

\* A user leaves the old room and enters the new one in both maps of rooms.
LEMMA JoinStep ==
    ASSUME Consistent, TypeOK', JoinRoom
    PROVE  Consistent'
<1> DEFINE u == task.user
           r == task.room
           old == user_current_room[u]
           left == IF old = NoRoom THEN room_members
                                   ELSE LeftRoom(room_members, u, old)
<1>1. /\ u \in User /\ r \in Room /\ old \in Room \cup {NoRoom}
      /\ user_connections[u] # NoConn
  BY SignedInUser DEF JoinRoom, At, SignedInPc, Consistent, TypeOK, TaskOK
<1>2. left \in [Room -> SUBSET User]
  BY DEF LeftRoom, Consistent, TypeOK
<1>3. \A q \in Room, v \in User :
          v \in left[q] <=> v # u /\ v \in room_members[q]
  BY <1>1, NullAssumption DEF LeftRoom, Consistent, TypeOK, RoomsMatch
<1>4. room_members' = [left EXCEPT ![r] = @ \cup {u}]
  BY DEF JoinRoom, JoinedRoom
<1>5. \A q \in Room, v \in User :
          v \in room_members'[q] <=>
              IF v = u THEN q = r ELSE v \in room_members[q]
  BY <1>1, <1>2, <1>3, <1>4
<1>6. /\ user_current_room' = [user_current_room EXCEPT ![u] = r]
      /\ UNCHANGED <<conn_state, user_connections, connection_users>>
      /\ task' = Idle
  BY DEF JoinRoom
<1>7. QED
  BY <1>1, <1>5, <1>6, RoomStep

\* A user leaves the room in both maps of rooms.
LEMMA LeaveStep ==
    ASSUME Consistent, TypeOK', LeaveRoom
    PROVE  Consistent'
<1> DEFINE u == task.user
           r == user_current_room[u]
<1>1. u \in User /\ r \in Room
  BY SignedInUser DEF LeaveRoom, At, SignedInPc
<1>2. room_members' = [room_members EXCEPT ![r] = @ \ {u}]
  BY DEF LeaveRoom, LeftRoom
<1>3. \A q \in Room, v \in User :
          v \in room_members'[q] <=>
              IF v = u THEN q = NoRoom ELSE v \in room_members[q]
  BY <1>1, <1>2, NullAssumption DEF Consistent, TypeOK, RoomsMatch
<1>4. /\ user_current_room' = [user_current_room EXCEPT ![u] = NoRoom]
      /\ UNCHANGED <<conn_state, user_connections, connection_users>>
      /\ task' = Idle
  BY DEF LeaveRoom
<1>5. QED
  BY <1>1, <1>3, <1>4, RoomStep

\* A chat message takes its room along; nothing moves meanwhile.
LEMMA ChatStep ==
    ASSUME Consistent, TypeOK', ChatReadRoom \/ ChatSave
    PROVE  Consistent'
<1>1. UNCHANGED <<conn_state, maps>>
  BY DEF ChatReadRoom, ChatSave
<1>2. SessionsMatch' /\ RoomsMatch' /\ NoGhosts'
  BY <1>1 DEF Consistent, SessionsMatch, RoomsMatch, NoGhosts, maps
<1>3. LocalsFresh' /\ SigningIn'
  <2>1. CASE ChatReadRoom
    BY <1>1, <2>1
       DEF ChatReadRoom, At, Consistent, TypeOK, TaskOK, LocalsFresh, SigningIn,
           SignedInPc, maps
  <2>2. CASE ChatSave
    <3>1. /\ task'.pc = "chat_cast" /\ task.pc = "chat_save"
          /\ task'.hdl = task.hdl /\ task'.user = task.user
          /\ task'.room = task.room
      BY <2>2 DEF ChatSave, At, Consistent, TypeOK, TaskOK
    <3>2. QED
      BY <1>1, <3>1
         DEF At, Consistent, LocalsFresh, SigningIn, SignedInPc, maps
  <2>3. QED
    BY <2>1, <2>2
<1>4. QED
  BY <1>2, <1>3 DEF Consistent

\* The invariant is inductive.
LEMMA ConsistentNext == Consistent /\ TypeOK' /\ [Next]_vars => Consistent'
<1> SUFFICES ASSUME Consistent, TypeOK', [Next]_vars
             PROVE  Consistent'
  OBVIOUS
<1>1. ASSUME NEW c \in Conn, ConnStep(c)
      PROVE  Consistent'
  <2>1. CASE Accept(c) \/ OnOpen(c) \/ HandshakeFails(c) \/ PeerCloses(c)
    BY <2>1, QuietStep
       DEF Accept, OnOpen, HandshakeFails, PeerCloses, Open, Consistent, TypeOK
  <2>2. CASE OnCloseKnown(c)
    BY <2>2, CloseStep
  <2>3. CASE OnCloseUnknown(c)
    BY <2>3, QuietStep DEF OnCloseUnknown, LoopFree, Consistent, TypeOK
  <2>4. CASE OnMessageUnknown(c) \/ OnMessageKnown(c)
    BY <2>4, EnteringStep
  <2>5. QED
    BY <1>1, <2>1, <2>2, <2>3, <2>4 DEF ConnStep, OnClose
<1>2. CASE HandlerStep
  <2>1. CASE RejectAuth
    BY <2>1, QuietStep DEF RejectAuth, Closed, Consistent, TypeOK
  <2>2. CASE AuthReply \/ ReplyOnly \/ JoinSameRoom \/ NotInRoom \/ ChatCast
    BY <2>2, QuietStep DEF AuthReply, ReplyOnly, JoinSameRoom, NotInRoom, ChatCast
  <2>3. QED
    BY <1>2, <2>1, <2>2, AuthenticateStep, JoinStep, LeaveStep, ChatStep
       DEF HandlerStep
<1>3. CASE MainStep
  <2>1. ASSUME NEW c \in Conn, StopCloseOne(c)
        PROVE  Consistent'
    BY <2>1, QuietStep DEF StopCloseOne, Closed, Consistent, TypeOK
  <2>2. CASE StopListening \/ StopLock \/ StopUnlock \/ StopIo \/ StopJoin
    BY <2>2, QuietStep DEF StopListening, StopLock, StopUnlock, StopIo, StopJoin
  <2>3. QED
    BY <1>3, <2>1, <2>2 DEF MainStep
<1>4. CASE LoopExit
  BY <1>4, QuietStep DEF LoopExit
<1>5. CASE Stopped \/ UNCHANGED vars
  BY <1>5, QuietStep DEF Stopped, vars
<1>6. QED
  BY <1>1, <1>2, <1>3, <1>4, <1>5 DEF Next

\* The maps agree with each other and with the handler that is running.
THEOREM ConsistentAlways == Spec => []Consistent
<1>1. Consistent /\ TypeOK' /\ [Next]_vars => Consistent'
  BY ConsistentNext
<1>2. QED
  BY <1>1, ConsistentInit, TypeCorrect, PTL DEF Spec

\* The session maps are inverse to each other in every reachable state: each
\* user is reached on the one connection that speaks for the user.
THEOREM SessionsAlwaysMatch == Spec => []SessionsMatch
BY ConsistentAlways, PTL DEF Consistent

\* Members lists and current rooms never disagree.
THEOREM RoomsAlwaysMatch == Spec => []RoomsMatch
BY ConsistentAlways, PTL DEF Consistent

\* No user without a session is in a room, and no session outlives the close
\* handler of its connection.
THEOREM NeverGhosts == Spec => []NoGhosts
BY ConsistentAlways, PTL DEF Consistent

\* What a handler read under the mutex still holds when it acts on it.
THEOREM LocalsAlwaysFresh == Spec => []LocalsFresh
BY ConsistentAlways, PTL DEF Consistent

\* While stop() walks connection_users_ under the mutex, no handler changes
\* any of the maps.
THEOREM MapsAlwaysStableInStop == Spec => MapsStableInStop
<1>1. [Next]_vars /\ main = "closing" => UNCHANGED maps
  BY DEF Next, ConnStep, Accept, OnOpen, HandshakeFails, PeerCloses, OnClose,
         OnCloseKnown, OnCloseUnknown, OnMessageUnknown, OnMessageKnown, MutexFree,
         HandlerStep, RejectAuth, Authenticate, AuthReply, ReplyOnly, JoinRoom,
         JoinSameRoom, LeaveRoom, NotInRoom, ChatReadRoom, ChatSave, ChatCast,
         MainStep, StopListening, StopLock, StopCloseOne, StopUnlock, StopIo,
         StopJoin, LoopExit, Stopped, vars, maps
<1>2. QED
  BY <1>1, PTL DEF Spec, MapsStableInStop

-----------------------------------------------------------------------------
(* The hub implements ChatPresence.                                        *)

\* The members lists determine where everybody is.
LEMMA PlaceFromMembers ==
    ASSUME NEW members, NEW current \in [User -> Room \cup {NoRoom}],
           \A u \in User, r \in Room : u \in members[r] <=> current[u] = r,
           NEW v \in User
    PROVE  (IF \E r \in Room : v \in members[r]
            THEN CHOOSE r \in Room : v \in members[r] ELSE NoRoom) = current[v]
<1>1. CASE current[v] \in Room
  BY <1>1
<1>2. CASE current[v] \notin Room
  BY <1>2
<1>3. QED
  BY <1>1, <1>2

Online == {u \in User : user_connections[u] # NoConn}
Place == [u \in User |-> PlaceOf(u)]

\* Where ChatPresence sees a user is where the hub has it.
LEMMA PlaceIsCurrentRoom ==
    /\ Consistent => Place = user_current_room
    /\ Consistent' => Place' = user_current_room'
<1>1. Consistent => Place = user_current_room
  BY PlaceFromMembers DEF Consistent, TypeOK, RoomsMatch, Place, PlaceOf
<1>2. Consistent' => Place' = user_current_room'
  BY PlaceFromMembers DEF Consistent, TypeOK, RoomsMatch, Place, PlaceOf
<1>3. QED
  BY <1>1, <1>2

\* The only handlers that move a user or change who holds a session.
LEMMA HubStep ==
    ASSUME Consistent, Consistent', [Next]_vars
    PROVE  \/ UNCHANGED <<user_current_room, Online>>
           \/ \E u \in User, r \in Room : u \in Online /\ user_current_room[u] # r
                  /\ user_current_room' = [user_current_room EXCEPT ![u] = r]
                  /\ UNCHANGED Online
           \/ \E u \in User : user_current_room[u] # NoRoom
                  /\ user_current_room' = [user_current_room EXCEPT ![u] = NoRoom]
                  /\ UNCHANGED Online
           \/ \E u \in User : u \notin Online /\ Online' = Online \cup {u}
                  /\ UNCHANGED user_current_room
           \/ \E u \in User : u \in Online /\ Online' = Online \ {u}
                  /\ user_current_room' = [user_current_room EXCEPT ![u] = NoRoom]
<1>1. CASE UNCHANGED maps
  BY <1>1 DEF maps, Online
<1>2. ASSUME NEW c \in Conn, OnCloseKnown(c)
      PROVE  \E u \in User : u \in Online /\ Online' = Online \ {u}
                  /\ user_current_room' = [user_current_room EXCEPT ![u] = NoRoom]
  <2> DEFINE u == connection_users[c]
  <2>1. u \in User /\ user_connections[u] = c
    BY <1>2 DEF OnCloseKnown, Consistent, TypeOK, SessionsMatch
  <2>2. user_connections' = [user_connections EXCEPT ![u] = NoConn]
    BY <1>2 DEF OnCloseKnown
  <2>3. u \in Online /\ Online' = Online \ {u}
    BY <2>1, <2>2, NullAssumption DEF Online, Consistent, TypeOK
  <2>4. user_current_room' = [user_current_room EXCEPT ![u] = NoRoom]
    <3>1. CASE user_current_room[u] = NoRoom
      BY <1>2, <2>1, <3>1 DEF OnCloseKnown, Consistent, TypeOK
    <3>2. CASE user_current_room[u] # NoRoom
      BY <1>2, <3>2 DEF OnCloseKnown
    <3>3. QED
      BY <3>1, <3>2
  <2>5. QED
    BY <2>1, <2>3, <2>4
<1>3. CASE Authenticate
  <2> DEFINE u == task.user
  <2>1. u \in User /\ task.hdl \in Conn
    BY <1>3 DEF Authenticate, At, Consistent, TypeOK, TaskOK
  <2>2. /\ user_connections' = [user_connections EXCEPT ![u] = task.hdl]
        /\ UNCHANGED user_current_room
    BY <1>3 DEF Authenticate
  <2>3. Online' = Online \cup {u}
    BY <2>1, <2>2, NullAssumption DEF Online, Consistent, TypeOK
  <2>4. CASE u \in Online
    BY <2>2, <2>3, <2>4
  <2>5. CASE u \notin Online
    BY <2>1, <2>2, <2>3, <2>5
  <2>6. QED
    BY <2>4, <2>5
<1>4. CASE JoinRoom
  <2>1. /\ task.user \in User /\ task.room \in Room
        /\ task.user \in Online
    BY <1>4, SignedInUser
       DEF JoinRoom, At, SignedInPc, Consistent, TypeOK, TaskOK, Online
  <2>2. /\ user_current_room' = [user_current_room EXCEPT ![task.user] = task.room]
        /\ user_current_room[task.user] # task.room
        /\ UNCHANGED Online
    BY <1>4 DEF JoinRoom, Online
  <2>3. QED
    BY <2>1, <2>2
<1>5. CASE LeaveRoom
  <2>1. task.user \in User
    BY <1>5, SignedInUser DEF LeaveRoom, At, SignedInPc
  <2>2. /\ user_current_room' = [user_current_room EXCEPT ![task.user] = NoRoom]
        /\ user_current_room[task.user] # NoRoom
        /\ UNCHANGED Online
    BY <1>5 DEF LeaveRoom, Online
  <2>3. QED
    BY <2>1, <2>2
<1>6. \/ UNCHANGED maps \/ (\E c \in Conn : OnCloseKnown(c))
      \/ Authenticate \/ JoinRoom \/ LeaveRoom
  BY DEF Next, ConnStep, Accept, OnOpen, HandshakeFails, PeerCloses, OnClose,
         OnCloseUnknown, OnMessageUnknown, OnMessageKnown, HandlerStep, RejectAuth,
         AuthReply, ReplyOnly, JoinSameRoom, NotInRoom, ChatReadRoom, ChatSave,
         ChatCast, MainStep, StopListening, StopLock, StopCloseOne, StopUnlock,
         StopIo, StopJoin, LoopExit, Stopped, vars
<1>7. QED
  BY <1>1, <1>2, <1>3, <1>4, <1>5, <1>6

\* Every behaviour of the hub, seen through its maps, is one of ChatPresence:
\* a user has at most one place, keeps it over a new sign-in, and loses it in
\* the step that ends the session.
THEOREM HubImplementsPresence == Spec => ImplementsPresence
<1>1. Init => Presence!PresenceInit
  <2> SUFFICES ASSUME Init
               PROVE  Presence!PresenceInit
    OBVIOUS
  <2>1. {u \in User : user_connections[u] # NoConn} = {}
    BY DEF Init
  <2>2. [u \in User |-> PlaceOf(u)] = [u \in User |-> NoRoom]
    BY DEF Init, PlaceOf
  <2>3. QED
    BY <2>1, <2>2 DEF Presence!PresenceInit
<1>2. Consistent /\ Consistent' /\ [Next]_vars
          => [Presence!PresenceNext]_(Presence!presenceVars)
  <2> SUFFICES ASSUME Consistent, Consistent', [Next]_vars
               PROVE  [Presence!PresenceNext]_(Presence!presenceVars)
    OBVIOUS
  <2> DEFINE on == {u \in User : user_connections[u] # NoConn}
             at == [u \in User |-> PlaceOf(u)]
  <2>1. /\ on = Online /\ on' = Online'
        /\ at = user_current_room /\ at' = user_current_room'
    BY PlaceIsCurrentRoom DEF Online, Place
  <2>2. CASE UNCHANGED <<user_current_room, Online>>
    BY <2>1, <2>2 DEF Presence!presenceVars
  <2>3. ASSUME NEW u \in User, NEW r \in Room, u \in Online,
               user_current_room[u] # r, UNCHANGED Online,
               user_current_room' = [user_current_room EXCEPT ![u] = r]
        PROVE  Presence!PresenceNext
    <3>1. Presence!Enter(u, r)
      BY <2>1, <2>3 DEF Presence!Enter
    <3>2. QED
      BY <3>1 DEF Presence!PresenceNext
  <2>4. ASSUME NEW u \in User, user_current_room[u] # NoRoom, UNCHANGED Online,
               user_current_room' = [user_current_room EXCEPT ![u] = NoRoom]
        PROVE  Presence!PresenceNext
    <3>1. Presence!Leave(u)
      BY <2>1, <2>4 DEF Presence!Leave
    <3>2. QED
      BY <3>1 DEF Presence!PresenceNext
  <2>5. ASSUME NEW u \in User, u \notin Online, Online' = Online \cup {u},
               UNCHANGED user_current_room
        PROVE  Presence!PresenceNext
    <3>1. Presence!SignIn(u)
      BY <2>1, <2>5 DEF Presence!SignIn
    <3>2. QED
      BY <3>1 DEF Presence!PresenceNext
  <2>6. ASSUME NEW u \in User, u \in Online, Online' = Online \ {u},
               user_current_room' = [user_current_room EXCEPT ![u] = NoRoom]
        PROVE  Presence!PresenceNext
    <3>1. Presence!SignOut(u)
      BY <2>1, <2>6 DEF Presence!SignOut
    <3>2. QED
      BY <3>1 DEF Presence!PresenceNext
  <2>7. QED
    BY HubStep, <2>2, <2>3, <2>4, <2>5, <2>6
<1>3. QED
  BY <1>1, <1>2, ConsistentAlways, PTL
     DEF Spec, ImplementsPresence, Presence!PresenceSpec

-----------------------------------------------------------------------------
(* What the clients were told.                                             *)

ViewTrue(view, u, rooms, members) ==
    u # NoUser =>
        /\ view.room \in {NoRoom, rooms[u]}
        /\ view.heard # {} => rooms[u] # NoRoom /\ view.heard \subseteq members[rooms[u]]

\* ClientViewTrue, made inductive: an open connection speaks for whom its
\* client thinks and every other one is told nothing.  stop() closes only
\* connections that are signed in, so that the one a sign-in is under way on
\* is still open when it is registered.
Views ==
    /\ \A c \in Conn : ~Open(c) => client[c] = Nothing
    /\ \A c \in Conn : Open(c) =>
        /\ client[c].login = connection_users[c]
        /\ ViewTrue(client[c], connection_users[c], user_current_room, room_members)
    /\ At("auth") => Open(task.hdl)
    /\ main = "closing" => \A c \in unvisited : connection_users[c] # NoUser

\* Steps that leave the maps alone and tell nobody anything; connections may
\* stop being open.
LEMMA ViewStep ==
    ASSUME Views, UNCHANGED maps,
           \A c \in Conn : Open(c)' => Open(c) /\ client'[c] = client[c],
           \A c \in Conn : ~Open(c)' => client'[c] = Nothing,
           At("auth")' => Open(task.hdl)',
           main' = "closing" => \A c \in unvisited' : connection_users[c] # NoUser
    PROVE  Views'
<1>1. \A c \in Conn : Open(c)' =>
        /\ client'[c].login = connection_users'[c]
        /\ ViewTrue(client'[c], connection_users'[c], user_current_room', room_members')
  BY DEF Views, maps
<1>2. QED
  BY <1>1 DEF Views, maps

\* Those it does not tell anything keep their views as well.
LEMMA SameView ==
    ASSUME Views, UNCHANGED <<conn_state, maps, client>>,
           At("auth")' => At("auth") /\ task'.hdl = task.hdl,
           main' = "closing" => main = "closing" /\ unvisited' \subseteq unvisited
    PROVE  Views'
<1>1. \A c \in Conn : Open(c)' <=> Open(c)
  BY DEF Open
<1>2. QED
  BY <1>1, ViewStep DEF Views, Open

\* Whoever hears that u left room r is the client of somebody in that room,
\* and whoever is in that room hears it.
LEMMA LeftIsHeard ==
    ASSUME Consistent, Views, NEW u \in User, NEW r \in Room, NEW d \in Conn,
           Open(d), connection_users[d] \in User, connection_users[d] # u
    PROVE  LET told == ToldLeft(u, r)[d]
               q == user_current_room[connection_users[d]]
           IN  /\ told.login = client[d].login /\ told.room = client[d].room
               /\ told.heard = IF q = r THEN client[d].heard \ {u} ELSE client[d].heard
<1> DEFINE v == connection_users[d]
<1>1. user_connections[v] = d /\ \A w \in User : user_connections[w] = d => w = v
  BY DEF Consistent, SessionsMatch
<1>2. d \in Receivers(r, u) <=> user_current_room[v] = r
  BY <1>1 DEF Receivers, Consistent, RoomsMatch, TypeOK
<1>3. client[d] \in [login : User \cup {NoUser}, room : Room \cup {NoRoom}, heard : SUBSET User]
  BY DEF Consistent, TypeOK
<1>4. QED
  BY <1>2, <1>3 DEF ToldLeft

\* The view of another client after u went from r, or from nowhere, somewhere
\* else.
LEMMA LeftViewTrue ==
    ASSUME Consistent, Views, NEW u \in User, NEW r \in Room, NEW d \in Conn,
           Open(d), connection_users[d] \in User, connection_users[d] # u,
           NEW members, NEW rooms,
           \A v \in User : v # u => rooms[v] = user_current_room[v],
           \A q \in Room, v \in User :
               v # u => (v \in members[q] <=> v \in room_members[q]),
           user_current_room[u] = r
    PROVE  ViewTrue(ToldLeft(u, r)[d], connection_users[d], rooms, members)
<1> DEFINE v == connection_users[d]
           q == user_current_room[v]
           told == ToldLeft(u, r)[d]
<1>1. /\ told.login = client[d].login /\ told.room = client[d].room
      /\ told.heard = IF q = r THEN client[d].heard \ {u} ELSE client[d].heard
  BY LeftIsHeard
<1>2. rooms[v] = q /\ q \in Room \cup {NoRoom} /\ client[d].heard \subseteq User
  BY DEF Consistent, TypeOK
<1>3. /\ client[d].room \in {NoRoom, q}
      /\ client[d].heard # {} => q # NoRoom /\ client[d].heard \subseteq room_members[q]
  BY NullAssumption DEF Views, ViewTrue
<1>4. ASSUME NEW w \in told.heard
      PROVE  q # NoRoom /\ w \in members[q]
  <2>1. w \in client[d].heard /\ w \in User /\ q \in Room /\ w \in room_members[q]
    BY <1>1, <1>2, <1>3
  <2>2. w # u
    BY <1>1, <2>1 DEF Consistent, RoomsMatch
  <2>3. QED
    BY <2>1, <2>2, NullAssumption
<1>5. QED
  BY <1>1, <1>2, <1>3, <1>4 DEF ViewTrue

\* The departure of a closed connection is told to the room it was in.
LEMMA CloseViews ==
    ASSUME Consistent, Consistent', Views, NEW c \in Conn, OnCloseKnown(c)
    PROVE  Views'
<1> DEFINE u == connection_users[c]
           r == user_current_room[u]
<1>1. u \in User /\ user_connections[u] = c /\ r \in Room \cup {NoRoom}
  BY DEF OnCloseKnown, Consistent, TypeOK, SessionsMatch
<1>2. /\ connection_users' = [connection_users EXCEPT ![c] = NoUser]
      /\ conn_state' = [conn_state EXCEPT ![c] = "none"]
      /\ task = Idle /\ task' = Idle
      /\ main' = main /\ main # "closing"
      /\ conn_state[c] = "closing"
  BY DEF OnCloseKnown, Erased, LoopFree, MutexFree
<1>3. /\ \A d \in Conn : Open(d)' <=> Open(d)
      /\ \A d \in Conn : Open(d) => d # c /\ connection_users'[d] = connection_users[d]
      /\ \A d \in Conn : Open(d) => connection_users[d] # u
  BY <1>1, <1>2 DEF Open, Consistent, TypeOK, SessionsMatch
<1>4. CASE r = NoRoom
  <2>1. UNCHANGED <<client, room_members, user_current_room>>
    BY <1>4 DEF OnCloseKnown
  <2>2. QED
    BY <1>2, <1>3, <2>1, IdleType DEF Views, At
<1>5. CASE r # NoRoom
  <2>1. /\ client' = ToldLeft(u, r)
        /\ room_members' = [room_members EXCEPT ![r] = @ \ {u}]
        /\ user_current_room' = [user_current_room EXCEPT ![u] = NoRoom]
    BY <1>5 DEF OnCloseKnown, LeftRoom
  <2>2. \A d \in Conn : ~Open(d) => client'[d] = Nothing
    BY <2>1 DEF ToldLeft, Receivers, Views
  <2>3. ASSUME NEW d \in Conn, Open(d)
        PROVE  /\ client'[d].login = connection_users'[d]
               /\ ViewTrue(client'[d], connection_users'[d], user_current_room', room_members')
    <3>1. connection_users[d] \in User \cup {NoUser} /\ connection_users[d] # u
          /\ connection_users'[d] = connection_users[d]
      BY <1>3, <2>3 DEF Consistent, TypeOK
    <3>2. client'[d].login = connection_users[d]
      <4>1. client[d].login = connection_users[d]
        BY <2>3 DEF Views
      <4>2. QED
        BY <2>1, <4>1 DEF ToldLeft, Consistent, TypeOK
    <3>3. CASE connection_users[d] = NoUser
      BY <3>1, <3>2, <3>3 DEF ViewTrue
    <3>4. CASE connection_users[d] \in User
      <4>1. \A v \in User : v # u => user_current_room'[v] = user_current_room[v]
        BY <2>1 DEF Consistent, TypeOK
      <4>2. \A q \in Room, v \in User :
                v # u => (v \in room_members'[q] <=> v \in room_members[q])
        BY <2>1 DEF Consistent, TypeOK
      <4>3. r \in Room
        BY <1>1, <1>5
      <4>4. ViewTrue(ToldLeft(u, r)[d], connection_users[d], user_current_room', room_members')
        BY <1>1, <2>3, <3>1, <3>4, <4>1, <4>2, <4>3, LeftViewTrue
      <4>5. QED
        BY <2>1, <3>1, <3>2, <4>4
    <3>5. QED
      BY <3>1, <3>3, <3>4
  <2>4. QED
    BY <1>2, <1>3, <2>2, <2>3, IdleType DEF Views, At
<1>6. QED
  BY <1>4, <1>5

\* What the others know of the room u has left, if there was one.
Told(u) ==
    IF user_current_room[u] = NoRoom THEN client ELSE ToldLeft(u, user_current_room[u])

\* What the others know stays true when one user moves.
LEMMA OtherViewTrue ==
    ASSUME Consistent, Views, NEW u \in User, NEW d \in Conn,
           Open(d), connection_users[d] \in User, connection_users[d] # u,
           NEW members, NEW rooms,
           \A v \in User : v # u => rooms[v] = user_current_room[v],
           \A q \in Room, v \in User :
               v # u => (v \in members[q] <=> v \in room_members[q])
    PROVE  ViewTrue(Told(u)[d], connection_users[d], rooms, members)
<1> DEFINE v == connection_users[d]
           q == user_current_room[v]
<1>1. user_current_room[u] \in Room \cup {NoRoom} /\ q \in Room \cup {NoRoom}
  BY DEF Consistent, TypeOK
<1>2. CASE user_current_room[u] = NoRoom
  <2>1. \A r \in Room : u \notin room_members[r]
    BY <1>2, NullAssumption DEF Consistent, RoomsMatch
  <2>2. client[d].heard \subseteq User /\ rooms[v] = q
    BY DEF Consistent, TypeOK
  <2>3. /\ client[d].room \in {NoRoom, q}
        /\ client[d].heard # {} => q # NoRoom /\ client[d].heard \subseteq room_members[q]
    BY NullAssumption DEF Views, ViewTrue
  <2>4. ASSUME NEW w \in client[d].heard
        PROVE  q # NoRoom /\ w \in members[q]
    <3>1. w \in User /\ q \in Room /\ w \in room_members[q] /\ w # u
      BY <1>1, <2>1, <2>2, <2>3
    <3>2. QED
      BY <3>1, NullAssumption
  <2>5. QED
    BY <1>2, <2>2, <2>3, <2>4 DEF ViewTrue, Told
<1>3. CASE user_current_room[u] # NoRoom
  BY <1>1, <1>3, LeftViewTrue DEF Told
<1>4. QED
  BY <1>2, <1>3

\* Telling a room reaches open connections only and keeps what they know.
LEMMA ToldKeeps ==
    ASSUME Consistent, Views, NEW u \in User
    PROVE  /\ Told(u) \in ClientType
           /\ \A d \in Conn : Told(u)[d].login = client[d].login
           /\ \A d \in Conn : ~Open(d) => Told(u)[d] = Nothing
<1>1. \A d \in Conn : client[d] \in
          [login : User \cup {NoUser}, room : Room \cup {NoRoom}, heard : SUBSET User]
  BY DEF Consistent, TypeOK
<1>2. Told(u) \in ClientType
  BY HelperTypes DEF Consistent, TypeOK, Told, ClientType
<1>3. \A d \in Conn : Told(u)[d].login = client[d].login
  BY <1>1 DEF Told, ToldLeft
<1>4. \A d \in Conn : ~Open(d) => Told(u)[d] = Nothing
  BY DEF Told, ToldLeft, Receivers, Views
<1>5. QED
  BY <1>2, <1>3, <1>4

\* The user of a handler has no other open connection.
LEMMA OneConnection ==
    ASSUME Consistent, task.pc \in SignedInPc, NEW d \in Conn, d # task.hdl
    PROVE  connection_users[d] # task.user
BY SignedInUser DEF Consistent, SessionsMatch

\* Who joins is told of the room, and the rooms are told who came and went.
LEMMA JoinViews ==
    ASSUME Consistent, Consistent', Views, JoinRoom
    PROVE  Views'
<1> DEFINE u == task.user
           r == task.room
           h == task.hdl
<1>1. /\ u \in User /\ h \in Conn /\ r \in Room
      /\ connection_users[h] = u /\ task.pc \in SignedInPc
  BY SignedInUser DEF JoinRoom, At, SignedInPc, Consistent, TypeOK, TaskOK, LocalsFresh
<1>2. /\ UNCHANGED <<conn_state, user_connections, connection_users, main, unvisited>>
      /\ task' = Idle
      /\ user_current_room' = [user_current_room EXCEPT ![u] = r]
      /\ client' = IF ~Open(h) THEN Told(u)
                   ELSE [c \in Conn |->
                       CASE c = h -> [Told(u)[c] EXCEPT !.room = r, !.heard = {}]
                         [] c # h /\ c \in Receivers(r, u) ->
                                [Told(u)[c] EXCEPT !.heard = @ \cup {u}]
                         [] OTHER -> Told(u)[c]]
  BY DEF JoinRoom, Told
<1>3. /\ \A v \in User : v # u => user_current_room'[v] = user_current_room[v]
      /\ user_current_room'[u] = r
      /\ \A q \in Room, v \in User : v \in room_members'[q] <=> user_current_room'[v] = q
      /\ \A q \in Room, v \in User : v \in room_members[q] <=> user_current_room[v] = q
  <2>1. user_current_room' = [user_current_room EXCEPT ![u] = r]
    BY <1>2
  <2>2. user_current_room \in [User -> Room \cup {NoRoom}]
    BY DEF Consistent, TypeOK
  <2>3. RoomsMatch /\ RoomsMatch'
    BY DEF Consistent
  <2>4. /\ \A v \in User : v # u => user_current_room'[v] = user_current_room[v]
        /\ user_current_room'[u] = r
    BY <1>1, <2>1, <2>2
  <2>5. QED
    BY <2>3, <2>4 DEF RoomsMatch
<1>4. Told(u) \in ClientType
  BY <1>1, ToldKeeps
<1>5. \A c \in Conn : Open(c)' <=> Open(c)
  BY <1>2 DEF Open
<1>6. \A d \in Conn : ~Open(d) => client'[d] = Nothing
  BY <1>1, <1>2, ToldKeeps DEF Receivers
<1>7. ASSUME NEW d \in Conn, Open(d)
      PROVE  /\ client'[d].login = connection_users[d]
             /\ ViewTrue(client'[d], connection_users[d], user_current_room', room_members')
  <2>1. Told(u)[d].login = connection_users[d]
    BY <1>1, <1>7, ToldKeeps DEF Views
  <2>2. Told(u)[d] \in
            [login : User \cup {NoUser}, room : Room \cup {NoRoom}, heard : SUBSET User]
    BY <1>4 DEF ClientType
  <2>3. client'[d].login = connection_users[d]
    BY <1>2, <2>1, <2>2
  <2>4. CASE d = h
    <3>1. client'[d] = [Told(u)[d] EXCEPT !.room = r, !.heard = {}]
      BY <1>2, <1>7, <2>4
    <3>2. client'[d].room = r /\ client'[d].heard = {}
      BY <2>2, <3>1
    <3>3. connection_users[d] = u /\ user_current_room'[u] = r
      BY <1>1, <1>3, <2>4
    <3>4. QED
      BY <2>3, <3>2, <3>3 DEF ViewTrue
  <2>5. CASE d # h
    <3>1. connection_users[d] # u /\ connection_users[d] \in User \cup {NoUser}
      BY <1>1, <2>5, OneConnection DEF Consistent, TypeOK
    <3>2. CASE connection_users[d] = NoUser
      BY <2>3, <3>2 DEF ViewTrue
    <3>3. CASE connection_users[d] \in User
      <4> DEFINE v == connection_users[d]
      <4>1. ViewTrue(Told(u)[d], v, user_current_room', room_members')
        BY <1>1, <1>3, <1>7, <3>1, <3>3, OtherViewTrue
      <4>2. CASE ~(Open(h) /\ d \in Receivers(r, u))
        <5>1. client'[d] = Told(u)[d]
          BY <1>2, <2>5, <4>2
        <5>2. QED
          BY <2>3, <4>1, <5>1
      <4>3. CASE Open(h) /\ d \in Receivers(r, u)
        <5>1. client'[d] = [Told(u)[d] EXCEPT !.heard = @ \cup {u}]
          BY <1>2, <2>5, <4>3
        <5>2. v \in room_members[r]
          <6>1. PICK w \in room_members[r] \ {u} : user_connections[w] = d
            BY <4>3 DEF Receivers
          <6>2. w \in User /\ connection_users[d] = w
            BY <1>1, <6>1 DEF Consistent, TypeOK, SessionsMatch
          <6>3. QED
            BY <6>1, <6>2
        <5>3. user_current_room'[v] = r /\ u \in room_members'[r] /\ r # NoRoom
          BY <1>1, <1>3, <3>1, <3>3, <5>2, NullAssumption
        <5>4. client'[d].room = Told(u)[d].room
              /\ client'[d].heard = Told(u)[d].heard \cup {u}
          BY <2>2, <5>1
        <5>5. QED
          BY <2>3, <3>3, <4>1, <5>3, <5>4 DEF ViewTrue
      <4>4. QED
        BY <4>2, <4>3
    <3>4. QED
      BY <2>3, <3>1, <3>2, <3>3
  <2>6. QED
    BY <2>3, <2>4, <2>5
<1>8. QED
  BY <1>2, <1>5, <1>6, <1>7, IdleType DEF Views, At

\* Who leaves is told so, and so is the room.
LEMMA LeaveViews ==
    ASSUME Consistent, Consistent', Views, LeaveRoom
    PROVE  Views'
<1> DEFINE u == task.user
           r == user_current_room[u]
           h == task.hdl
<1>1. /\ u \in User /\ h \in Conn /\ r \in Room
      /\ connection_users[h] = u /\ task.pc \in SignedInPc
  BY SignedInUser DEF LeaveRoom, At, SignedInPc, Consistent, LocalsFresh
<1>2. /\ UNCHANGED <<conn_state, user_connections, connection_users, main, unvisited>>
      /\ task' = Idle
      /\ user_current_room' = [user_current_room EXCEPT ![u] = NoRoom]
      /\ client' = IF Open(h) THEN [Told(u) EXCEPT ![h].room = NoRoom, ![h].heard = {}]
                   ELSE Told(u)
  BY DEF LeaveRoom, Told
<1>3. /\ \A v \in User : v # u => user_current_room'[v] = user_current_room[v]
      /\ \A q \in Room, v \in User : v \in room_members'[q] <=> user_current_room'[v] = q
      /\ \A q \in Room, v \in User : v \in room_members[q] <=> user_current_room[v] = q
  BY <1>1, <1>2 DEF Consistent, TypeOK, RoomsMatch
<1>4. Told(u) \in ClientType
  BY <1>1, ToldKeeps
<1>5. \A c \in Conn : Open(c)' <=> Open(c)
  BY <1>2 DEF Open
<1>6. \A d \in Conn : ~Open(d) => client'[d] = Nothing
  BY <1>1, <1>2, <1>4, ToldKeeps DEF ClientType
<1>7. ASSUME NEW d \in Conn, Open(d)
      PROVE  /\ client'[d].login = connection_users[d]
             /\ ViewTrue(client'[d], connection_users[d], user_current_room', room_members')
  <2>1. Told(u)[d].login = connection_users[d]
    BY <1>1, <1>7, ToldKeeps DEF Views
  <2>2. CASE d = h
    <3>1. /\ client'[h].login = Told(u)[h].login
          /\ client'[h].room = NoRoom /\ client'[h].heard = {}
      BY <1>1, <1>2, <1>4, <1>7, <2>2 DEF ClientType
    <3>2. QED
      BY <2>1, <2>2, <3>1 DEF ViewTrue
  <2>3. CASE d # h
    <3>1. connection_users[d] # u /\ connection_users[d] \in User \cup {NoUser}
      BY <1>1, <2>3, OneConnection DEF Consistent, TypeOK
    <3>2. client'[d] = Told(u)[d]
      BY <1>1, <1>2, <1>4, <2>3 DEF ClientType
    <3>3. CASE connection_users[d] = NoUser
      BY <2>1, <3>2, <3>3 DEF ViewTrue
    <3>4. CASE connection_users[d] \in User
      <4>1. ViewTrue(Told(u)[d], connection_users[d], user_current_room', room_members')
        BY <1>1, <1>3, <1>7, <3>1, <3>4, OtherViewTrue
      <4>2. QED
        BY <2>1, <3>2, <4>1
    <3>5. QED
      BY <3>1, <3>3, <3>4
  <2>4. QED
    BY <2>2, <2>3
<1>8. QED
  BY <1>2, <1>5, <1>6, <1>7, IdleType DEF Views, At

\* The connection that signs in is open, its view starts from nothing, and the
\* replaced one is no longer open.
LEMMA AuthenticateViews ==
    ASSUME Consistent, Consistent', Views, Authenticate
    PROVE  Views'
<1> DEFINE u == task.user
           h == task.hdl
           old == user_connections[u]
<1>1. /\ u \in User /\ h \in Conn /\ Open(h) /\ old # h
      /\ connection_users[h] = NoUser
  BY NullAssumption
     DEF Authenticate, At, Consistent, TypeOK, TaskOK, SigningIn, SessionsMatch, Views
<1>2. /\ conn_state' = Closed(conn_state, old)
      /\ connection_users' = [Erased(connection_users, old) EXCEPT ![h] = u]
      /\ client' = [Viewed(client, conn_state') EXCEPT ![h] = [Nothing EXCEPT !.login = u]]
      /\ task' = [task EXCEPT !.pc = "auth_reply"]
      /\ UNCHANGED <<room_members, user_current_room, main, unvisited>>
      /\ main # "closing"
  BY DEF Authenticate, MutexFree
<1>3. \A c \in Conn : Open(c)' <=> Open(c) /\ c # old
  BY <1>2 DEF Open, Closed, Consistent, TypeOK
<1>4. Viewed(client, conn_state') \in [Conn -> {client[c] : c \in Conn} \cup {Nothing}]
  BY DEF Viewed
<1>5. /\ client'[h] = [Nothing EXCEPT !.login = u]
      /\ \A c \in Conn : c # h => client'[c] = IF Open(c)' THEN client[c] ELSE Nothing
  BY <1>1, <1>2, <1>4 DEF Viewed, Open
<1>6. \A c \in Conn : connection_users'[c] =
          IF c = h THEN u ELSE IF c = old THEN NoUser ELSE connection_users[c]
  BY <1>1, <1>2 DEF Erased, Consistent, TypeOK
<1>7. /\ client'[h].login = u /\ client'[h].room = NoRoom /\ client'[h].heard = {}
      /\ conn_state'[h] = "open"
  BY <1>1, <1>3, <1>5 DEF Nothing, Open
<1>8. ASSUME NEW c \in Conn, Open(c)'
      PROVE  /\ client'[c].login = connection_users'[c]
             /\ ViewTrue(client'[c], connection_users'[c], user_current_room', room_members')
  <2>1. CASE c = h
    BY <1>6, <1>7, <2>1 DEF ViewTrue
  <2>2. CASE c # h
    <3>1. Open(c) /\ client'[c] = client[c] /\ connection_users'[c] = connection_users[c]
      BY <1>3, <1>5, <1>6, <1>8, <2>2
    <3>2. QED
      BY <1>2, <3>1 DEF Views
  <2>3. QED
    BY <2>1, <2>2
<1>9. \A c \in Conn : ~Open(c)' => client'[c] = Nothing
  BY <1>5, <1>7 DEF Open
<1>10. task'.pc = "auth_reply"
  BY <1>2 DEF Consistent, TypeOK, TaskOK
<1>11. QED
  BY <1>2, <1>8, <1>9, <1>10 DEF Views, At

\* The second invariant is inductive.
LEMMA ViewsNext == Consistent /\ Consistent' /\ Views /\ [Next]_vars => Views'
<1> SUFFICES ASSUME Consistent, Consistent', Views, [Next]_vars
             PROVE  Views'
  OBVIOUS
<1>1. ASSUME NEW c \in Conn, ConnStep(c)
      PROVE  Views'
  <2>1. CASE Accept(c) \/ HandshakeFails(c) \/ OnCloseUnknown(c)
    <3>1. \A d \in Conn : Open(d)' <=> Open(d)
      BY <2>1 DEF Accept, HandshakeFails, OnCloseUnknown, Open, Consistent, TypeOK
    <3>2. UNCHANGED <<maps, client, task, main, unvisited>>
      BY <2>1 DEF Accept, HandshakeFails, OnCloseUnknown
    <3>3. At("auth")' => Open(task.hdl)'
      <4>1. LoopFree
        BY <2>1 DEF Accept, HandshakeFails, OnCloseUnknown
      <4>2. QED
        BY <3>2, <4>1, IdleType DEF LoopFree, At
    <3>4. QED
      BY <3>1, <3>2, <3>3, ViewStep DEF Views
  <2>2. CASE OnOpen(c)
    <3>1. /\ conn_state' = [conn_state EXCEPT ![c] = "open"] /\ conn_state[c] = "connecting"
          /\ UNCHANGED <<maps, client, task, main, unvisited>> /\ task = Idle
      BY <2>2 DEF OnOpen, LoopFree
    <3>2. \A d \in Conn : Open(d)' <=> Open(d) \/ d = c
      BY <3>1 DEF Open, Consistent, TypeOK
    <3>3. client[c] = Nothing /\ connection_users[c] = NoUser
      BY <3>1 DEF Views, Open, Consistent, NoGhosts
    <3>4. ~At("auth")'
      BY <3>1, IdleType DEF At
    <3>5. ViewTrue(Nothing, NoUser, user_current_room, room_members)
      BY DEF ViewTrue, Nothing
    <3>6. \A d \in Conn : Open(d)' => /\ client'[d].login = connection_users'[d]
                                    /\ ViewTrue(client'[d], connection_users'[d],
                                                user_current_room', room_members')
      BY <3>1, <3>2, <3>3, <3>5 DEF Views, maps, Nothing
    <3>7. QED
      BY <3>1, <3>2, <3>4, <3>6 DEF Views, maps
  <2>3. CASE PeerCloses(c)
    <3>1. /\ conn_state' = [conn_state EXCEPT ![c] = "closing"]
          /\ client' = Viewed(client, conn_state')
          /\ UNCHANGED <<maps, task, main, unvisited>> /\ task = Idle
      BY <2>3 DEF PeerCloses, LoopFree
    <3>2. \A d \in Conn : Open(d)' => Open(d)
      BY <3>1 DEF Open, Consistent, TypeOK
    <3>3. QED
      BY <3>1, <3>2, IdleType, ViewStep DEF Viewed, Open, At, Views
  <2>4. CASE OnCloseKnown(c)
    BY <2>4, CloseViews
  <2>5. CASE OnMessageUnknown(c) \/ OnMessageKnown(c)
    <3>1. /\ UNCHANGED <<conn_state, maps, client, main, unvisited>> /\ Open(c)
          /\ task'.hdl = c
      BY <2>5 DEF OnMessageUnknown, OnMessageKnown, Enters, Idle
    <3>2. \A d \in Conn : Open(d)' <=> Open(d)
      BY <3>1 DEF Open
    <3>3. At("auth")' => Open(task.hdl)'
      BY <3>1 DEF Open
    <3>4. QED
      BY <3>1, <3>2, <3>3, ViewStep DEF Views
  <2>6. QED
    BY <1>1, <2>1, <2>2, <2>3, <2>4, <2>5 DEF ConnStep, OnClose
<1>2. CASE HandlerStep
  <2>1. CASE RejectAuth
    <3>1. /\ conn_state' = Closed(conn_state, task.hdl)
          /\ client' = Viewed(client, conn_state')
          /\ UNCHANGED <<maps, main, unvisited>> /\ task' = Idle
      BY <2>1 DEF RejectAuth
    <3>2. \A d \in Conn : Open(d)' => Open(d)
      BY <3>1 DEF Open, Closed, Consistent, TypeOK
    <3>3. QED
      BY <3>1, <3>2, IdleType, ViewStep DEF Viewed, Open, At, Views
  <2>2. CASE AuthReply \/ ReplyOnly \/ JoinSameRoom \/ NotInRoom \/ ChatCast
    <3>1. UNCHANGED <<conn_state, maps, client, main, unvisited>> /\ task' = Idle
      BY <2>2 DEF AuthReply, ReplyOnly, JoinSameRoom, NotInRoom, ChatCast
    <3>2. QED
      BY <3>1, IdleType, SameView DEF At
  <2>3. CASE ChatReadRoom \/ ChatSave
    <3>1. /\ UNCHANGED <<conn_state, maps, client, main, unvisited>>
          /\ task'.pc \in {"chat_save", "chat_cast"}
      BY <2>3 DEF ChatReadRoom, ChatSave, Consistent, TypeOK, TaskOK
    <3>2. QED
      BY <3>1, SameView DEF At
  <2>4. QED
    BY <1>2, <2>1, <2>2, <2>3, AuthenticateViews, JoinViews, LeaveViews DEF HandlerStep
<1>3. CASE MainStep
  <2>1. ASSUME NEW c \in Conn, StopCloseOne(c)
        PROVE  Views'
    <3>1. /\ conn_state' = Closed(conn_state, c) /\ client' = Viewed(client, conn_state')
          /\ UNCHANGED <<maps, task, main>> /\ main = "closing"
          /\ unvisited' \subseteq unvisited /\ c \in unvisited
      BY <2>1 DEF StopCloseOne
    <3>2. \A d \in Conn : Open(d)' <=> Open(d) /\ d # c
      BY <3>1 DEF Open, Closed, Consistent, TypeOK
    <3>3. At("auth") => task.hdl \in Conn /\ Open(task.hdl) /\ task.hdl # c
      BY <3>1 DEF Views, Consistent, SigningIn, TypeOK, TaskOK, At
    <3>4. At("auth")' => Open(task.hdl)'
      BY <3>1, <3>2, <3>3 DEF At, Open
    <3>5. QED
      BY <3>1, <3>2, <3>4, ViewStep DEF Viewed, Open, Views
  <2>2. CASE StopLock
    <3>1. /\ UNCHANGED <<conn_state, maps, task, client>>
          /\ \A c \in unvisited' : connection_users[c] # NoUser
      BY <2>2 DEF StopLock
    <3>2. QED
      BY <3>1, ViewStep DEF Views, Open, At
  <2>3. CASE StopListening \/ StopUnlock \/ StopIo \/ StopJoin
    <3>1. UNCHANGED <<conn_state, maps, task, client>> /\ main' # "closing"
      BY <2>3 DEF StopListening, StopUnlock, StopIo, StopJoin
    <3>2. QED
      BY <3>1, SameView DEF At
  <2>4. QED
    BY <1>3, <2>1, <2>2, <2>3 DEF MainStep
<1>4. CASE LoopExit \/ Stopped \/ UNCHANGED vars
  <2>1. UNCHANGED <<conn_state, maps, task, client, main, unvisited>>
    BY <1>4 DEF LoopExit, Stopped, vars
  <2>2. QED
    BY <2>1, SameView DEF At
<1>5. QED
  BY <1>1, <1>2, <1>3, <1>4 DEF Next

\* What the clients were told and what the maps say go together.
THEOREM ViewsAlways == Spec => [](Consistent /\ Views)
<1>1. Init => Views
  BY IdleType DEF Init, Views, Open, At
<1>2. QED
  BY <1>1, ViewsNext, ConsistentAlways, PTL DEF Spec

\* Whatever a client was told of itself and of others is true as long as its
\* connection is open.
THEOREM ClientViewAlwaysTrue == Spec => []ClientViewTrue
<1>1. Views => ClientViewTrue
  BY DEF Views, ViewTrue, ClientViewTrue
<1>2. QED
  BY <1>1, ViewsAlways, PTL

\* A broadcast reaches clients of the message's room, the sender among them.
THEOREM ChatAlwaysReachesItsRoom == Spec => []ChatReachesItsRoom
<1>1. Consistent /\ Views => ChatReachesItsRoom
  <2> SUFFICES ASSUME Consistent, Views, At("chat_cast")
               PROVE  LET targets == Receivers(task.room, NoUser)
                      IN  /\ \A c \in targets : user_current_room[client[c].login] = task.room
                          /\ Open(task.hdl) => task.hdl \in targets
    BY DEF ChatReachesItsRoom
  <2>1. /\ task.user \in User /\ task.hdl \in Conn /\ task.room \in Room
        /\ user_connections[task.user] = task.hdl
        /\ user_current_room[task.user] = task.room
    BY SignedInUser DEF At, SignedInPc, Consistent, TypeOK, TaskOK, LocalsFresh
  <2>2. Open(task.hdl) => task.hdl \in Receivers(task.room, NoUser)
    BY <2>1, NullAssumption DEF Receivers, Consistent, RoomsMatch
  <2>3. ASSUME NEW c \in Receivers(task.room, NoUser)
        PROVE  user_current_room[client[c].login] = task.room
    <3>1. PICK v \in room_members[task.room] : user_connections[v] = c
      BY DEF Receivers
    <3>2. c \in Conn /\ Open(c) /\ v \in User
      BY <2>1 DEF Receivers, Consistent, TypeOK
    <3>3. client[c].login = v /\ user_current_room[v] = task.room
      BY <2>1, <3>1, <3>2 DEF Views, Consistent, SessionsMatch, RoomsMatch
    <3>4. QED
      BY <3>3
  <2>4. QED
    BY <2>2, <2>3
<1>2. QED
  BY <1>1, ViewsAlways, PTL
-----------------------------------------------------------------------------
(* No deadlock.                                                            *)

\* The next critical section of the handler that is running can be entered:
\* the guards of HandlerStep.
HandlerCanGoOn ==
    \/ task.pc \in {"reject", "auth_reply", "reply", "chat_save", "chat_cast"}
    \/ task.pc \in {"auth", "join", "leave", "chat"} /\ MutexFree

\* main can take its next step in stop(): the guards of MainStep after the first.
MainCanGoOn ==
    \/ main \in {"locking", "stop_io"}
    \/ main = "closing" /\ (unvisited = {} \/ \E c \in Conn : c \in unvisited)
    \/ main = "joining" /\ loop = "exited"

\* The event loop can return from run(): the guard of LoopExit.
LoopCanExit == loop = "stopping" /\ task = Idle

\* A dead connection's close handler can be entered: the guard of OnClose.
CanClose(c) == LoopFree /\ MutexFree /\ conn_state[c] = "closing"

\* Until stop() has returned nobody waits for ever: a handler that was entered, a
\* stop() that began and a dead connection each leave a thread that can go on.
HubGoesOn ==
    /\ task # Idle \/ main \notin {"up", "stopped"} =>
           HandlerCanGoOn \/ MainCanGoOn \/ LoopCanExit
    /\ \A c \in Conn :
           conn_state[c] = "closing" /\ loop = "running" =>
               CanClose(c) \/ HandlerCanGoOn \/ MainCanGoOn

\* By the time main joins the event loop it has told it to stop.
LoopToldToStop == main \in {"joining", "stopped"} => loop # "running"

\* No step makes main join an event loop that was not told to stop.
LEMMA LoopToldToStopNext == LoopToldToStop /\ [Next]_vars => LoopToldToStop'
<1> SUFFICES ASSUME LoopToldToStop, [Next]_vars
             PROVE  LoopToldToStop'
  OBVIOUS
<1> USE DEF LoopToldToStop
<1>1. ASSUME NEW c \in Conn, ConnStep(c)
      PROVE  LoopToldToStop'
  BY <1>1 DEF ConnStep, Accept, OnOpen, HandshakeFails, PeerCloses, OnClose, OnCloseKnown,
              OnCloseUnknown, OnMessageUnknown, OnMessageKnown
<1>2. CASE HandlerStep
  BY <1>2 DEF HandlerStep, RejectAuth, Authenticate, AuthReply, ReplyOnly, JoinRoom,
              JoinSameRoom, LeaveRoom, NotInRoom, ChatReadRoom, ChatSave, ChatCast
<1>3. CASE MainStep
  BY <1>3 DEF MainStep, StopListening, StopLock, StopCloseOne, StopUnlock, StopIo, StopJoin
<1>4. CASE LoopExit
  BY <1>4 DEF LoopExit
<1>5. CASE Stopped \/ UNCHANGED vars
  BY <1>5 DEF Stopped, vars
<1>6. QED
  BY <1>1, <1>2, <1>3, <1>4, <1>5 DEF Next

\* The mutex is waited for only while main holds it, and main holds it only in
\* steps that wait for nobody.
LEMMA SomebodyGoesOn == TypeOK /\ LoopToldToStop => HubGoesOn
<1> SUFFICES ASSUME TypeOK, LoopToldToStop
             PROVE  HubGoesOn
  OBVIOUS
<1>1. /\ task.pc \in {"idle", "reject", "auth", "auth_reply"} \cup SignedInPc
      /\ task.pc = "idle" => task = Idle
  BY DEF TypeOK, TaskOK
<1>2. /\ main \in {"up", "locking", "closing", "stop_io", "joining", "stopped"}
      /\ loop \in {"running", "stopping", "exited"}
      /\ unvisited \subseteq Conn
  BY DEF TypeOK
<1>3. main = "closing" => MainCanGoOn
  BY <1>2 DEF MainCanGoOn
<1>4. task # Idle => HandlerCanGoOn \/ MainCanGoOn
  BY <1>1, <1>3 DEF HandlerCanGoOn, SignedInPc, MutexFree
<1>5. ASSUME task = Idle, main \notin {"up", "stopped"}
      PROVE  MainCanGoOn \/ LoopCanExit
  BY <1>2, <1>3, <1>5 DEF LoopToldToStop, MainCanGoOn, LoopCanExit
<1>6. ASSUME NEW c \in Conn, conn_state[c] = "closing", loop = "running"
      PROVE  CanClose(c) \/ HandlerCanGoOn \/ MainCanGoOn
  BY <1>3, <1>4, <1>6 DEF CanClose, LoopFree, MutexFree
<1>7. QED
  BY <1>4, <1>5, <1>6 DEF HubGoesOn

\* No deadlock in the hub: whatever is in flight, stop() and the handlers never
\* wait for each other, and every dead connection is followed up until the event
\* loop is stopped.  For every number of users, connections and rooms.
THEOREM HubNeverStuck == Spec => []HubGoesOn
<1>1. Init => LoopToldToStop
  BY DEF Init, LoopToldToStop
<1>2. QED
  BY <1>1, LoopToldToStopNext, SomebodyGoesOn, TypeCorrect, PTL DEF Spec
=============================================================================
