---------------------------- MODULE RoomDirectory ----------------------------
(***************************************************************************)
(* What the HTTP services promise the clients of the rooms: every request  *)
(* takes effect, and its answer is decided, at one instant between the     *)
(* request and the answer, whatever other requests run at the same time.   *)
(* Two requests need two instants: a room appears before its creator       *)
(* enters it, and a reader is let in before the history is read.           *)
(*                                                                         *)
(* The services do not promise that a deletion or an update that is        *)
(* answered with success found the room still there.                       *)
(***************************************************************************)
CONSTANTS Worker, User, Room, NoUser, NoRoom

VARIABLES
    owner,    \* the creator of each room, NoUser for no room
    members,  \* the members of each room
    calls     \* the request each worker has in hand

directory == <<owner, members>>
dirVars == <<owner, members, calls>>

Ops == {"create", "join", "leave", "delete", "update", "history"}
Refusals == {"rejected", "not_found", "forbidden", "failed"}
NoCall == [op |-> "none", user |-> NoUser, room |-> NoRoom, status |-> "idle"]

DirInit ==
    /\ owner = [r \in Room |-> NoUser]
    /\ members = [r \in Room |-> {}]
    /\ calls = [w \in Worker |-> NoCall]

There(r) == owner[r] # NoUser
Pending(w, op) == calls[w].op = op /\ calls[w].status = "pending"
Halfway(w, op) == calls[w].op = op /\ calls[w].status = "half"
Becomes(w, status) == calls' = [calls EXCEPT ![w].status = status]

\* A malformed or unauthenticated request is rejected at once.
Arrive(w) ==
    /\ calls[w] = NoCall
    /\ \E op \in Ops, u \in User, status \in {"pending", "rejected"} :
       \E r \in IF op = "create" THEN {NoRoom} ELSE Room :
           calls' = [calls EXCEPT ![w] = [op |-> op, user |-> u, room |-> r,
                                          status |-> status]]
    /\ UNCHANGED directory

Appear(w, r) ==
    /\ Pending(w, "create")
    /\ ~There(r)
    /\ owner' = [owner EXCEPT ![r] = calls[w].user]
    /\ calls' = [calls EXCEPT ![w] = [op |-> "create", user |-> @.user,
                                       room |-> r, status |-> "half"]]
    /\ UNCHANGED members

\* The room may have been deleted since it appeared.
CreatorEnters(w) ==
    LET r == calls[w].room
    IN  /\ Halfway(w, "create")
        /\ members' = IF There(r)
                      THEN [members EXCEPT ![r] = @ \cup {calls[w].user}]
                      ELSE members
        /\ Becomes(w, "ok")
        /\ UNCHANGED owner

Join(w) ==
    /\ Pending(w, "join")
    /\ There(calls[w].room)
    /\ members' = [members EXCEPT ![calls[w].room] = @ \cup {calls[w].user}]
    /\ Becomes(w, "ok")
    /\ UNCHANGED owner

Leave(w) ==
    /\ Pending(w, "leave")
    /\ members' = [members EXCEPT ![calls[w].room] = @ \ {calls[w].user}]
    /\ Becomes(w, "ok")
    /\ UNCHANGED owner

\* Only the creator's request takes a room away.
Disappear(w) ==
    LET r == calls[w].room
    IN  /\ Pending(w, "delete")
        /\ There(r) => owner[r] = calls[w].user
        /\ owner' = [owner EXCEPT ![r] = NoUser]
        /\ members' = [members EXCEPT ![r] = {}]
        /\ Becomes(w, "ok")

Describe(w) ==
    /\ Pending(w, "update")
    /\ There(calls[w].room) => owner[calls[w].room] = calls[w].user
    /\ Becomes(w, "ok")
    /\ UNCHANGED directory

\* A reader is a member at some instant of the request.
Admit(w) ==
    /\ Pending(w, "history")
    /\ calls[w].user \in members[calls[w].room]
    /\ Becomes(w, "half")
    /\ UNCHANGED directory

Read(w) ==
    /\ Halfway(w, "history")
    /\ Becomes(w, "ok")
    /\ UNCHANGED directory

\* A refusal is true at the instant it is decided.
Refuse(w) ==
    LET r == calls[w].room
    IN  /\ \/ Pending(w, "create") /\ Becomes(w, "failed")
           \/ /\ \E op \in Ops \ {"create"} : Pending(w, op)
              /\ ~There(r)
              /\ Becomes(w, "not_found")
           \/ /\ Pending(w, "join") \/ Pending(w, "update")
              /\ ~There(r)
              /\ Becomes(w, "failed")
           \/ /\ Pending(w, "delete") \/ Pending(w, "update")
              /\ owner[r] # calls[w].user
              /\ Becomes(w, "forbidden")
           \/ /\ Pending(w, "history")
              /\ calls[w].user \notin members[r]
              /\ Becomes(w, "forbidden")
        /\ UNCHANGED directory

Return(w) ==
    /\ calls[w].status \in Refusals \cup {"ok"}
    /\ calls' = [calls EXCEPT ![w] = NoCall]
    /\ UNCHANGED directory

\* The server is killed: the rooms survive, the requests do not.
Forget ==
    /\ calls' = [w \in Worker |-> NoCall]
    /\ UNCHANGED directory

DirNext ==
    \/ \E w \in Worker :
           \/ Arrive(w) \/ CreatorEnters(w) \/ Join(w) \/ Leave(w)
           \/ Disappear(w) \/ Describe(w) \/ Admit(w) \/ Read(w)
           \/ Refuse(w) \/ Return(w)
           \/ \E r \in Room : Appear(w, r)
    \/ Forget

DirSpec == DirInit /\ [][DirNext]_dirVars
=============================================================================
