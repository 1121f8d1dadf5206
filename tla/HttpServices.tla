---------------------------- MODULE HttpServices ----------------------------
(***************************************************************************)
(* RoomService and MessageService (src/src/service): the handlers of the   *)
(* HTTP requests about rooms.  Each worker of the thread pool runs one     *)
(* handler at a time.  A handler is a sequence of repository calls with    *)
(* decisions between them and no transaction around them, so one action    *)
(* is one call with the decision that follows it, and the handlers of      *)
(* different workers interleave between the calls.  The chat hub saves     *)
(* messages into the same database.                                        *)
(*                                                                         *)
(* The two listings of rooms only read and are not modelled here.          *)
(***************************************************************************)
EXTENDS Database

CONSTANTS
    Worker,
    NoUser, NoRoom, NoName, NoText,  \* a field that is not set
    Limit,                           \* the limit of a history request
    MaxMessages                      \* bound on the messages of a room

ASSUME ServicesAssumption ==
    /\ NoUser \notin User /\ NoRoom \notin Room
    /\ NoName \notin Name /\ NoText \notin Text
    /\ Limit \in Nat \ {0}
    /\ MaxMessages \in Nat

VARIABLE req  \* the request each worker has in hand

vars == <<database, req>>

NoRequest == [op |-> "none", pc |-> "idle", user |-> NoUser, room |-> NoRoom,
              name |-> NoName, text |-> NoText]

Ops == {"create", "join", "leave", "delete", "update", "history"}
Answers == {"ok", "rejected", "not_found", "forbidden", "failed"}

\* What a handler does next, or the answer it has decided on.
Steps == [create  |-> {"insert", "enrol"},
          join    |-> {"exists", "recheck", "add"},
          leave   |-> {"exists", "remove"},
          delete  |-> {"exists", "creator", "delete"},
          update  |-> {"exists", "creator", "row", "write"},
          history |-> {"exists", "member", "read"}]

StepNames == {"insert", "enrol", "exists", "recheck", "add", "remove", "creator",
              "delete", "row", "write", "member", "read"}

AnyRequest == [op : Ops, pc : Answers \cup StepNames,
               user : User, room : Room \cup {NoRoom},
               name : Name \cup {NoName}, text : Text \cup {NoText}]

\* The locals a handler has set when it gets to a step.
RequestOK(q) ==
    /\ q.pc \in Answers \cup Steps[q.op]
    /\ q.op # "create" \/ q.pc = "enrol" => q.room \in Room
    /\ q.pc = "insert" \/ q.pc = "write" => q.name \in Name
    /\ q.pc = "insert" \/ (q.op = "update" /\ q.pc \notin Answers)
           => q.text \in Text

TypeOK ==
    /\ DatabaseTypeOK
    /\ req \in [Worker -> AnyRequest \cup {NoRequest}]
    /\ \A w \in Worker : req[w] # NoRequest => RequestOK(req[w])

Init ==
    /\ DatabaseInit
    /\ req = [w \in Worker |-> NoRequest]

-----------------------------------------------------------------------------
(* Steps of a handler.                                                     *)

At(w, op, pc) == req[w].op = op /\ req[w].pc = pc

\* Request q at another step, with these locals.
Moved(q, pc, r, n, t) ==
    [op |-> q.op, pc |-> pc, user |-> q.user, room |-> r, name |-> n, text |-> t]

\* The locals name and text end with the handler.
Goto(w, pc) ==
    LET q == req[w]
    IN  req' = [req EXCEPT ![w] =
                   IF pc \in Answers THEN Moved(q, pc, q.room, NoName, NoText)
                                     ELSE Moved(q, pc, q.room, q.name, q.text)]

\* A repository call that reads: go on if ok holds, answer otherwise.
Check(w, op, pc, ok, next, refusal) ==
    /\ At(w, op, pc)
    /\ Goto(w, IF ok THEN next ELSE refusal)
    /\ UNCHANGED database

\* What the router can hand to a worker.  The user is the subject of a valid
\* token; the room of a path or a body is any id the client has seen.
Request(op, u) ==
    [op : {op}, pc : {IF op = "create" THEN "insert" ELSE "exists"}, user : {u},
     room : IF op = "create" THEN {NoRoom} ELSE Room,
     name : IF op = "create" THEN Name ELSE {NoName},
     text : IF op \in {"create", "update"} THEN Text ELSE {NoText}]

\* A missing field, bad JSON or a bad token: answered without any call.
Rejected(q) == Moved(q, "rejected", q.room, NoName, NoText)

Receive(w) ==
    /\ req[w] = NoRequest
    /\ \E op \in Ops, u \in User : \E q \in Request(op, u) :
           \/ req' = [req EXCEPT ![w] = q]
           \/ req' = [req EXCEPT ![w] = Rejected(q)]
    /\ UNCHANGED database

Reply(w) ==
    /\ req[w].pc \in Answers
    /\ req' = [req EXCEPT ![w] = NoRequest]
    /\ UNCHANGED database

-----------------------------------------------------------------------------
(* handleCreateRoom.                                                       *)

CreateInsert(w) ==
    /\ At(w, "create", "insert")
    /\ \E r \in Room :
           /\ GeneratedId(r)
           /\ IF CanCreateRoom(r, req[w].name)
              THEN /\ CreateRoom(r, [creator |-> req[w].user,
                                     name |-> req[w].name, text |-> req[w].text])
                   /\ req' = [req EXCEPT ![w] =
                                 Moved(req[w], "enrol", r, NoName, NoText)]
              ELSE /\ Goto(w, "failed")
                   /\ UNCHANGED database

\* The result of addRoomMember is dropped: success is answered even when the
\* room was deleted since it was inserted.
CreateEnrol(w) ==
    /\ At(w, "create", "enrol")
    /\ IF RoomExists(req[w].room)
       THEN AddRoomMember(req[w].room, req[w].user)
       ELSE UNCHANGED database
    /\ Goto(w, "ok")

-----------------------------------------------------------------------------
(* handleJoinRoom.  Users are never deleted: userExists, called with the    *)
(* second roomExists, is true.                                             *)

JoinExists(w) ==
    Check(w, "join", "exists", RoomExists(req[w].room), "recheck", "not_found")

JoinRecheck(w) ==
    Check(w, "join", "recheck", RoomExists(req[w].room), "add", "not_found")

\* Variant: the result is dropped, as it is in handleCreateRoom.
JoinResultDropped(w) ==
    /\ At(w, "join", "add")
    /\ IF RoomExists(req[w].room)
       THEN AddRoomMember(req[w].room, req[w].user)
       ELSE UNCHANGED database
    /\ Goto(w, "ok")

JoinAdd(w) ==
    /\ At(w, "join", "add")
    /\ IF RoomExists(req[w].room)
       THEN /\ AddRoomMember(req[w].room, req[w].user)
            /\ Goto(w, "ok")
       ELSE /\ UNCHANGED database
            /\ Goto(w, "failed")

-----------------------------------------------------------------------------
(* handleLeaveRoom.                                                        *)

LeaveExists(w) ==
    Check(w, "leave", "exists", RoomExists(req[w].room), "remove", "not_found")

LeaveRemove(w) ==
    /\ At(w, "leave", "remove")
    /\ RemoveRoomMember(req[w].room, req[w].user)
    /\ Goto(w, "ok")

-----------------------------------------------------------------------------
(* handleDeleteRoom.                                                       *)

DeleteExists(w) ==
    Check(w, "delete", "exists", RoomExists(req[w].room), "creator", "not_found")

\* Variant: any user may delete a room that exists.
DeleteAnyRoom(w) ==
    Check(w, "delete", "creator", RoomExists(req[w].room), "delete", "forbidden")

DeleteCreator(w) ==
    Check(w, "delete", "creator", IsCreator(req[w].room, req[w].user),
          "delete", "forbidden")

DeleteRow(w) ==
    /\ At(w, "delete", "delete")
    /\ DeleteRoom(req[w].room)
    /\ Goto(w, "ok")

-----------------------------------------------------------------------------
(* handleUpdateRoomDescription.  The row is read twice, and the name found *)
(* the second time is written back with the new description.               *)

UpdateExists(w) ==
    Check(w, "update", "exists", RoomExists(req[w].room), "creator", "not_found")

UpdateCreator(w) ==
    Check(w, "update", "creator", IsCreator(req[w].room, req[w].user),
          "row", "forbidden")

UpdateReadRow(w) ==
    /\ At(w, "update", "row")
    /\ IF RoomExists(req[w].room)
       THEN req' = [req EXCEPT ![w] = Moved(req[w], "write", req[w].room,
                                            rooms[req[w].room].name, req[w].text)]
       ELSE Goto(w, "failed")
    /\ UNCHANGED database

UpdateWrite(w) ==
    LET q == req[w]
    IN  /\ At(w, "update", "write")
        /\ IF CanUpdateRoom(q.room, q.name)
           THEN /\ UpdateRoom(q.room, q.name, q.text)
                /\ Goto(w, "ok")
           ELSE /\ UNCHANGED database
                /\ Goto(w, "failed")

-----------------------------------------------------------------------------
(* MessageService::getMessages.                                            *)

HistoryExists(w) ==
    Check(w, "history", "exists", RoomExists(req[w].room), "member", "not_found")

HistoryMember(w) ==
    Check(w, "history", "member", IsMember(req[w].room, req[w].user),
          "read", "forbidden")

\* Whatever getMessages returns by now is answered with success.
HistoryRead(w) ==
    /\ At(w, "history", "read")
    /\ Goto(w, "ok")
    /\ UNCHANGED database

-----------------------------------------------------------------------------
\* The hub saves a message; without the room nothing is saved.
HubSaves(r) ==
    /\ RoomExists(r)
    /\ messages[r] < MaxMessages
    /\ SaveMessage(r)
    /\ UNCHANGED req

\* The process is killed and started again on the same database file.
Restart ==
    /\ req' = [w \in Worker |-> NoRequest]
    /\ UNCHANGED database

Handler(w) ==
    \/ CreateInsert(w) \/ CreateEnrol(w)
    \/ JoinExists(w) \/ JoinRecheck(w) \/ JoinAdd(w)
    \/ LeaveExists(w) \/ LeaveRemove(w)
    \/ DeleteExists(w) \/ DeleteCreator(w) \/ DeleteRow(w)
    \/ UpdateExists(w) \/ UpdateCreator(w) \/ UpdateReadRow(w) \/ UpdateWrite(w)
    \/ HistoryExists(w) \/ HistoryMember(w) \/ HistoryRead(w)
    \/ Reply(w)

Next ==
    \/ \E w \in Worker : Receive(w) \/ Handler(w)
    \/ \E r \in Room : HubSaves(r)
    \/ Restart

Spec == Init /\ [][Next]_vars

-----------------------------------------------------------------------------
(* Properties.                                                             *)

\* No member and no message outlives its room or is added to a room that is
\* gone, although every handler adds them some calls after it saw the room.
NoOrphans ==
    \A r \in Room : ~RoomExists(r) => room_members[r] = {} /\ messages[r] = 0

\* A stored room changes or disappears only in the last step of a request of
\* its creator that is answered with success, although the creator is checked
\* calls earlier, and another request can delete the room in between.
OnlyCreatorChanges ==
    [][\A r \in Room :
           RoomExists(r) /\ rooms'[r] # rooms[r] =>
               \E w \in Worker :
                   /\ req[w].room = r
                   /\ req[w].user = rooms[r].creator
                   /\ At(w, "update", "write") \/ At(w, "delete", "delete")
                   /\ req'[w].pc = "ok"]_vars

\* A room keeps the name and the creator it was inserted with for as long as it
\* is stored: an update writes back a name it read some calls before, and a
\* creation can draw the id of a stored room.
NameAndCreatorKept ==
    [][\A r \in Room :
           RoomExists(r) /\ rooms'[r] # NoRow =>
               /\ rooms'[r].name = rooms[r].name
               /\ rooms'[r].creator = rooms[r].creator]_vars

\* Where a handler is, as RoomDirectory sees it.
StatusOf(q) ==
    CASE q.pc = "idle" -> "idle"
      [] q.pc \in Answers -> q.pc
      [] q.pc \in {"enrol", "read"} -> "half"
      [] OTHER -> "pending"

CallOf(q) == [op |-> q.op, user |-> q.user, room |-> q.room,
              status |-> StatusOf(q)]

Owner == [r \in Room |-> IF RoomExists(r) THEN rooms[r].creator ELSE NoUser]
Calls == [w \in Worker |-> CallOf(req[w])]

Directory == INSTANCE RoomDirectory WITH
    owner <- Owner, members <- room_members, calls <- Calls

\* Each request takes effect, and its answer becomes true, at one instant.
ImplementsDirectory == Directory!DirSpec
=============================================================================
