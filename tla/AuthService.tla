----------------------------- MODULE AuthService -----------------------------
(***************************************************************************)
(* AuthService (src/src/service/auth_service.cpp) over the users table.    *)
(* As in HttpServices, each worker runs one handler, one action is one     *)
(* call of the repository with the decision that follows it, and the       *)
(* handlers of different workers interleave between the calls.             *)
(*                                                                         *)
(* Names and ids are strings: Name and Id may have members in common.      *)
(* Logging out changes nothing, and the tokens of jwt-cpp are seen as the  *)
(* id they were signed for: main has set the key before a request comes.   *)
(***************************************************************************)
CONSTANTS
    Worker, Name, Id, Password,
    NoName, NoId, NoPassword,  \* a field that is not set
    NoUser                     \* the id is not in the table

User == [name : Name, password : Password]

ASSUME AccountsAssumption ==
    /\ NoName \notin Name /\ NoId \notin Id /\ NoPassword \notin Password
    /\ NoUser \notin User

VARIABLES
    users,  \* table users
    req     \* the request each worker has in hand

vars == <<users, req>>

Ops == {"register", "login"}
Answers == {"ok", "rejected", "failed", "unauthorized"}
Steps == {"exists", "insert", "validate", "fetch"}

\* `id' is the user the token of a successful answer was signed for.
NoRequest == [op |-> "none", pc |-> "idle", name |-> NoName,
              password |-> NoPassword, id |-> NoId]

TypeOK ==
    /\ users \in [Id -> User \cup {NoUser}]
    /\ req \in [Worker -> [op : Ops, pc : Steps \cup Answers, name : Name,
                           password : Password, id : Id \cup {NoId}]
                              \cup {NoRequest}]

Init ==
    /\ users = [i \in Id |-> NoUser]
    /\ req = [w \in Worker |-> NoRequest]

-----------------------------------------------------------------------------
(* UserRepository: each operator is one statement under the mutex of the   *)
(* connection.                                                             *)

Stored(i) == users[i] # NoUser

\* userExists takes an id.
UserExists(i) == i \in Id /\ Stored(i)

NameTaken(n) == \E i \in Id : Stored(i) /\ users[i].name = n

\* Variant: names are not unique.
CanCreateNamesake(i, n) == ~Stored(i)

\* PRIMARY KEY(id), UNIQUE(username).
CanCreateUser(i, n) == ~Stored(i) /\ ~NameTaken(n)

CreateUser(i, n, p) ==
    users' = [users EXCEPT ![i] = [name |-> n, password |-> p]]

\* The password is hashed by an injective function, which is left out.
ValidateUser(n, p) ==
    \E i \in Id : Stored(i) /\ users[i] = [name |-> n, password |-> p]

GetUserByUsername(n) == CHOOSE i \in Id : Stored(i) /\ users[i].name = n

-----------------------------------------------------------------------------
(* The handlers.                                                           *)

At(w, op, pc) == req[w].op = op /\ req[w].pc = pc
Goto(w, pc) == req' = [req EXCEPT ![w].pc = pc]

\* A body that is not JSON, or lacks a field, is rejected without a call.
Receive(w) ==
    /\ req[w] = NoRequest
    /\ \E op \in Ops, n \in Name, p \in Password, ok \in BOOLEAN :
           req' = [req EXCEPT ![w] =
                      [op |-> op, name |-> n, password |-> p, id |-> NoId,
                       pc |-> IF ~ok THEN "rejected"
                              ELSE IF op = "register" THEN "exists"
                              ELSE "validate"]]
    /\ UNCHANGED users

\* registerUser asks for an id with the name it was given.
RegisterExists(w) ==
    /\ At(w, "register", "exists")
    /\ Goto(w, IF UserExists(req[w].name) THEN "rejected" ELSE "insert")
    /\ UNCHANGED users

\* Variant: the result of the insertion is dropped.
InsertResultDropped(w) ==
    /\ At(w, "register", "insert")
    /\ \E i \in Id :
           IF CanCreateUser(i, req[w].name)
           THEN CreateUser(i, req[w].name, req[w].password)
           ELSE UNCHANGED users
    /\ Goto(w, "fetch")

\* The id is drawn at random and may be taken.
RegisterInsert(w) ==
    /\ At(w, "register", "insert")
    /\ \E i \in Id :
           IF CanCreateUser(i, req[w].name)
           THEN /\ CreateUser(i, req[w].name, req[w].password)
                /\ Goto(w, "fetch")
           ELSE /\ UNCHANGED users
                /\ Goto(w, "failed")

LoginValidate(w) ==
    /\ At(w, "login", "validate")
    /\ Goto(w, IF ValidateUser(req[w].name, req[w].password)
               THEN "fetch" ELSE "unauthorized")
    /\ UNCHANGED users

\* Both handlers look the user up again and sign a token for the id found.
Fetch(w) ==
    /\ req[w].pc = "fetch"
    /\ IF NameTaken(req[w].name)
       THEN req' = [req EXCEPT ![w].pc = "ok",
                               ![w].id = GetUserByUsername(req[w].name)]
       ELSE Goto(w, "failed")
    /\ UNCHANGED users

Reply(w) ==
    /\ req[w].pc \in Answers
    /\ req' = [req EXCEPT ![w] = NoRequest]
    /\ UNCHANGED users

\* The process is killed and started again on the same database file.
Restart ==
    /\ req' = [w \in Worker |-> NoRequest]
    /\ UNCHANGED users

Next ==
    \/ \E w \in Worker :
           \/ Receive(w) \/ Reply(w)
           \/ RegisterExists(w) \/ RegisterInsert(w)
           \/ LoginValidate(w) \/ Fetch(w)
    \/ Restart

Spec == Init /\ [][Next]_vars

-----------------------------------------------------------------------------
(* Properties.                                                             *)

\* A token is signed for the user who has the name and the password of the
\* request, although the row is found again by its name, and another request
\* may have registered that name or logged in with it in the meantime.
TokenIsOwn ==
    \A w \in Worker :
        req[w].pc = "ok" =>
            users[req[w].id] = [name |-> req[w].name, password |-> req[w].password]

\* The answer is decided before the user is looked up again.
StatusOf(q) ==
    CASE q.pc \in {"exists", "insert", "validate"} -> "pending"
      [] q.pc = "fetch" -> "ok"
      [] OTHER -> q.pc

Passwords ==
    [n \in Name |-> IF NameTaken(n) THEN users[GetUserByUsername(n)].password
                                    ELSE NoPassword]

CallOf(q) == [op |-> q.op, name |-> q.name, password |-> q.password,
              status |-> StatusOf(q)]

Calls == [w \in Worker |-> CallOf(req[w])]

Registry == INSTANCE Accounts WITH password <- Passwords, calls <- Calls

\* Of all requests that register a name at the same time one succeeds, and a
\* login is answered by the password of that one.
ImplementsAccounts == Registry!AccountsSpec
=============================================================================
