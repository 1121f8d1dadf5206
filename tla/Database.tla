------------------------------ MODULE Database ------------------------------
(***************************************************************************)
(* The SQLite store behind DatabaseManager (src/src/db).  There is one     *)
(* database handle; every repository call holds the recursive mutex of the *)
(* connection and runs one statement that commits by itself, so a call is  *)
(* one atomic step and nothing links two calls.  The schema enforces the   *)
(* primary keys, the unique room names and the foreign keys with their     *)
(* cascades (the PRAGMA is set when the database is opened).               *)
(*                                                                         *)
(* No call deletes a user, and a token is only issued to a stored user:    *)
(* User is the users table and the user_id foreign keys always hold.       *)
(***************************************************************************)
EXTENDS Naturals

CONSTANTS
    User, Room, Name, Text,  \* Text: the descriptions
    NoRow                    \* the room is not in the table

Row == [creator : User, name : Name, text : Text]

ASSUME NoRowAssumption == NoRow \notin Row

VARIABLES
    rooms,         \* table rooms
    room_members,  \* table room_members, as the members of each room
    messages,      \* table messages, as the number of messages of each room
    drawn          \* the room ids that were given to a room so far

database == <<rooms, room_members, messages, drawn>>

DatabaseTypeOK ==
    /\ rooms \in [Room -> Row \cup {NoRow}]
    /\ room_members \in [Room -> SUBSET User]
    /\ messages \in [Room -> Nat]
    /\ drawn \subseteq Room

DatabaseInit ==
    /\ rooms = [r \in Room |-> NoRow]
    /\ room_members = [r \in Room |-> {}]
    /\ messages = [r \in Room |-> 0]
    /\ drawn = {}

RoomExists(r) == rooms[r] # NoRow

\* getRoomById finds the row and it is u's.
IsCreator(r, u) == RoomExists(r) /\ rooms[r].creator = u

IsMember(r, u) == u \in room_members[r]

\* UNIQUE(name), for a row r that is about to be written.
NameTaken(n, r) == \E s \in Room \ {r} : RoomExists(s) /\ rooms[s].name = n

-----------------------------------------------------------------------------
(* Statements that write.  The ones that can fail are used under their     *)
(* condition; a failing one leaves the database as it was.                 *)

\* generateRoomId draws eight random hex digits.  They may be the id of a
\* stored room; that they are the id of a deleted one is left out.
GeneratedId(r) == RoomExists(r) \/ r \notin drawn

\* Variant: INSERT OR REPLACE, an id that is drawn again overwrites its row.
CanCreateOver(r, n) == ~NameTaken(n, r)

CanCreateRoom(r, n) == ~RoomExists(r) /\ ~NameTaken(n, r)

CreateRoom(r, row) ==
    /\ rooms' = [rooms EXCEPT ![r] = row]
    /\ drawn' = drawn \cup {r}
    /\ UNCHANGED <<room_members, messages>>

\* Variant: the members of a deleted room stay behind.
DeleteWithoutCascade(r) ==
    /\ rooms' = [rooms EXCEPT ![r] = NoRow]
    /\ UNCHANGED <<room_members, messages, drawn>>

\* Succeeds without a row too.
DeleteRoom(r) ==
    /\ rooms' = [rooms EXCEPT ![r] = NoRow]
    /\ room_members' = [room_members EXCEPT ![r] = {}]
    /\ messages' = [messages EXCEPT ![r] = 0]
    /\ UNCHANGED drawn

CanUpdateRoom(r, n) == RoomExists(r) => ~NameTaken(n, r)

\* Succeeds without a row too.
UpdateRoom(r, n, t) ==
    /\ rooms' = IF RoomExists(r)
                THEN [rooms EXCEPT ![r] = [creator |-> @.creator,
                                           name |-> n, text |-> t]]
                ELSE rooms
    /\ UNCHANGED <<room_members, messages, drawn>>

\* INSERT OR IGNORE: a member stays one.  The foreign key needs the room.
AddRoomMember(r, u) ==
    /\ room_members' = [room_members EXCEPT ![r] = @ \cup {u}]
    /\ UNCHANGED <<rooms, messages, drawn>>

\* Succeeds for a user who is not a member too.
RemoveRoomMember(r, u) ==
    /\ room_members' = [room_members EXCEPT ![r] = @ \ {u}]
    /\ UNCHANGED <<rooms, messages, drawn>>

SaveMessage(r) ==
    /\ messages' = [messages EXCEPT ![r] = @ + 1]
    /\ UNCHANGED <<rooms, room_members, drawn>>

-----------------------------------------------------------------------------
\* The messages of a room are numbered from 1 in the order of their
\* timestamps; ORDER BY timestamp ASC LIMIT returns the first ones.
GetMessages(r, limit) ==
    1 .. (IF messages[r] < limit THEN messages[r] ELSE limit)
=============================================================================
