---------------------------- MODULE ChatPresence ----------------------------
(***************************************************************************)
(* What the chat hub promises its users, whatever connections, maps and    *)
(* threads it is made of: a user is signed in or not, stands in at most    *)
(* one room, can stand in a room only while signed in, and moves from one  *)
(* room to another in one step.  A user who signs in again keeps the room. *)
(* WebSocketServer implements this specification.                          *)
(***************************************************************************)
CONSTANTS User, Room, NoRoom

VARIABLES
    online,  \* the users who hold a session
    place    \* where each user stands

presenceVars == <<online, place>>

PresenceInit ==
    /\ online = {}
    /\ place = [u \in User |-> NoRoom]

\* A session begins outside every room.
SignIn(u) ==
    /\ u \notin online
    /\ online' = online \cup {u}
    /\ UNCHANGED place

\* Coming in from outside and changing rooms are the same single step.
Enter(u, r) ==
    /\ u \in online
    /\ place[u] # r
    /\ place' = [place EXCEPT ![u] = r]
    /\ UNCHANGED online

Leave(u) ==
    /\ place[u] # NoRoom
    /\ place' = [place EXCEPT ![u] = NoRoom]
    /\ UNCHANGED online

\* The end of a session takes the user out of the room in the same step.
SignOut(u) ==
    /\ u \in online
    /\ online' = online \ {u}
    /\ place' = [place EXCEPT ![u] = NoRoom]

PresenceNext ==
    \E u \in User :
        \/ SignIn(u)
        \/ \E r \in Room : Enter(u, r)
        \/ Leave(u)
        \/ SignOut(u)

PresenceSpec == PresenceInit /\ [][PresenceNext]_presenceVars
=============================================================================
