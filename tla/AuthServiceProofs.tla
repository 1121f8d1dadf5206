-------------------------- MODULE AuthServiceProofs --------------------------
(***************************************************************************)
(* Proofs about registration and login for any number of workers, names,   *)
(* ids and passwords.                                                      *)
(***************************************************************************)
EXTENDS AuthService, TLAPS

USE AccountsAssumption

\* UNIQUE(username).
NamesUnique ==
    \A i, j \in Id :
        Stored(i) /\ Stored(j) /\ users[i].name = users[j].name => i = j

\* A handler that looks the user up again finds the row it inserted, or whose
\* password it verified.
RowSeen ==
    \A w \in Worker :
        req[w].pc = "fetch" => ValidateUser(req[w].name, req[w].password)

\* A successful answer carries the id of a user.
TokenSigned == \A w \in Worker : req[w].pc = "ok" => req[w].id \in Id

Consistent == TypeOK /\ NamesUnique /\ RowSeen /\ TokenSigned /\ TokenIsOwn

-----------------------------------------------------------------------------
(* The users table.                                                        *)

\* A row with the name is the row that is found by the name.
LEMMA FoundByName ==
    ASSUME TypeOK, NamesUnique, NEW i \in Id, Stored(i)
    PROVE  NameTaken(users[i].name) /\ GetUserByUsername(users[i].name) = i
<1>1. NameTaken(users[i].name)
  BY DEF NameTaken
<1>2. \A j \in Id : Stored(j) /\ users[j].name = users[i].name => j = i
  BY DEF NamesUnique
<1>3. QED
  BY <1>1, <1>2 DEF GetUserByUsername

\* Validation compares with the one password of the name.
LEMMA ValidByName ==
    ASSUME TypeOK, NamesUnique, NEW n \in Name, NEW p \in Password
    PROVE  /\ ValidateUser(n, p) <=> Passwords[n] = p
           /\ ValidateUser(n, p) => NameTaken(n)
           /\ ~NameTaken(n) <=> Passwords[n] = NoPassword
<1>1. ASSUME NameTaken(n)
      PROVE  Passwords[n] \in Password /\ (ValidateUser(n, p) <=> Passwords[n] = p)
  <2>1. PICK i \in Id : Stored(i) /\ users[i].name = n
    BY <1>1 DEF NameTaken
  <2>2. GetUserByUsername(n) = i
    BY <2>1, FoundByName
  <2>3. users[i] \in User
    BY <2>1 DEF TypeOK, Stored
  <2>4. Passwords[n] = users[i].password
    BY <1>1, <2>2 DEF Passwords
  <2>5. ValidateUser(n, p) <=> users[i] = [name |-> n, password |-> p]
    BY <2>1 DEF ValidateUser, NamesUnique
  <2>6. users[i] = [name |-> n, password |-> p] <=> users[i].password = p
    BY <2>1, <2>3 DEF User
  <2>7. QED
    BY <2>3, <2>4, <2>5, <2>6 DEF User
<1>2. ASSUME ~NameTaken(n)
      PROVE  Passwords[n] = NoPassword
  BY <1>2 DEF Passwords
<1>3. ValidateUser(n, p) => NameTaken(n)
  BY DEF ValidateUser, NameTaken
<1>4. QED
  BY <1>1, <1>2, <1>3

\* The row a token was signed for holds the credentials of the request.
LEMMA FetchedRow ==
    ASSUME TypeOK, NamesUnique, NEW n, NEW p, ValidateUser(n, p)
    PROVE  /\ NameTaken(n)
           /\ GetUserByUsername(n) \in Id
           /\ users[GetUserByUsername(n)] = [name |-> n, password |-> p]
<1>1. PICK i \in Id : Stored(i) /\ users[i] = [name |-> n, password |-> p]
  BY DEF ValidateUser
<1>2. users[i].name = n
  BY <1>1
<1>3. QED
  BY <1>1, <1>2, FoundByName

\* Rows stay as they are: the only write is an insertion under a free id.
LEMMA RowsKept ==
    ASSUME TypeOK, [Next]_vars, NEW i \in Id, Stored(i)
    PROVE  users'[i] = users[i]
<1>1. CASE UNCHANGED users
  BY <1>1
<1>2. ASSUME NEW w \in Worker, RegisterInsert(w)
      PROVE  users'[i] = users[i]
  BY <1>2 DEF RegisterInsert, CanCreateUser, CreateUser, TypeOK
<1>3. QED
  BY <1>1, <1>2 DEF Next, vars, Receive, Reply, RegisterExists, LoginValidate,
                    Fetch, Restart

-----------------------------------------------------------------------------
(* The invariant.                                                          *)

\* Nobody has registered and no request is under way at first.
LEMMA ConsistentInit == Init => Consistent
BY DEF Init, Consistent, TypeOK, NamesUnique, RowSeen, TokenSigned, TokenIsOwn,
       NoRequest, Stored

\* A worker that runs a handler holds a request.
LEMMA BusyRequest ==
    ASSUME TypeOK, NEW w \in Worker, req[w].pc # "idle"
    PROVE  /\ req[w].op \in Ops /\ req[w].pc \in Steps \cup Answers
           /\ req[w].name \in Name /\ req[w].password \in Password
           /\ req[w].id \in Id \cup {NoId}
           /\ req[w] = [op |-> req[w].op, pc |-> req[w].pc, name |-> req[w].name,
                        password |-> req[w].password, id |-> req[w].id]
BY DEF TypeOK, NoRequest

\* Every call leaves its handler with the locals the next one uses.
LEMMA TypeNext == TypeOK /\ [Next]_vars => TypeOK'
<1> SUFFICES ASSUME TypeOK, [Next]_vars
             PROVE  TypeOK'
  OBVIOUS
<1> USE DEF TypeOK, Ops, Answers, Steps
<1>1. ASSUME NEW w \in Worker, Receive(w)
      PROVE  TypeOK'
  BY <1>1 DEF Receive
<1>2. ASSUME NEW w \in Worker, Reply(w)
      PROVE  TypeOK'
  BY <1>2 DEF Reply
<1>3. ASSUME NEW w \in Worker, RegisterExists(w)
      PROVE  TypeOK'
  BY <1>3, BusyRequest DEF RegisterExists, At, Goto
<1>4. ASSUME NEW w \in Worker, RegisterInsert(w)
      PROVE  TypeOK'
  BY <1>4, BusyRequest DEF RegisterInsert, At, Goto, CreateUser, User
<1>5. ASSUME NEW w \in Worker, LoginValidate(w)
      PROVE  TypeOK'
  BY <1>5, BusyRequest DEF LoginValidate, At, Goto
<1>6. ASSUME NEW w \in Worker, Fetch(w)
      PROVE  TypeOK'
  <2>1. NameTaken(req[w].name) => GetUserByUsername(req[w].name) \in Id
    BY DEF NameTaken, GetUserByUsername
  <2>2. QED
    BY <1>6, <2>1, BusyRequest DEF Fetch, Goto
<1>7. CASE Restart
  BY <1>7 DEF Restart
<1>8. CASE UNCHANGED vars
  BY <1>8 DEF vars
<1>9. QED
  BY <1>1, <1>2, <1>3, <1>4, <1>5, <1>6, <1>7, <1>8 DEF Next

\* The tables and the requests keep their types.
THEOREM TypeCorrect == Spec => []TypeOK
<1>1. Init => TypeOK
  BY DEF Init, TypeOK, NoRequest
<1>2. QED
  BY <1>1, TypeNext, PTL DEF Spec

\* UNIQUE(name) lets no second row of a name in.
LEMMA NamesStayUnique ==
    ASSUME TypeOK, NamesUnique, [Next]_vars
    PROVE  NamesUnique'
<1>1. CASE UNCHANGED users
  BY <1>1 DEF NamesUnique, Stored
<1>2. ASSUME NEW w \in Worker, RegisterInsert(w)
      PROVE  NamesUnique'
  BY <1>2 DEF RegisterInsert, CanCreateUser, CreateUser, NamesUnique, NameTaken,
              Stored, TypeOK
<1>3. QED
  BY <1>1, <1>2 DEF Next, vars, Receive, Reply, RegisterExists, LoginValidate,
                    Fetch, Restart

\* What was validated stays valid.
LEMMA ValidKept ==
    ASSUME TypeOK, [Next]_vars, NEW n, NEW p, ValidateUser(n, p)
    PROVE  ValidateUser(n, p)'
<1>1. PICK i \in Id : Stored(i) /\ users[i] = [name |-> n, password |-> p]
  BY DEF ValidateUser
<1>2. QED
  BY <1>1, RowsKept DEF ValidateUser, Stored

\* Only three steps bring a worker to the point where it looks the user up, or
\* to an answer with a token.
LEMMA Arrivals ==
    ASSUME TypeOK, [Next]_vars, NEW w \in Worker, req'[w] # req[w]
    PROVE  \/ req'[w].pc \notin {"fetch", "ok"}
           \/ RegisterInsert(w) \/ LoginValidate(w) \/ Fetch(w)
<1>1. ASSUME NEW v \in Worker, Receive(v) \/ Reply(v) \/ RegisterExists(v)
      PROVE  req'[w].pc \notin {"fetch", "ok"}
  <2>1. w = v
    BY <1>1 DEF Receive, Reply, RegisterExists, Goto, TypeOK
  <2>2. QED
    BY <1>1, <2>1 DEF Receive, Reply, RegisterExists, Goto, TypeOK, NoRequest
<1>2. ASSUME NEW v \in Worker, RegisterInsert(v) \/ LoginValidate(v) \/ Fetch(v)
      PROVE  w = v
  BY <1>2 DEF RegisterInsert, LoginValidate, Fetch, Goto, TypeOK
<1>3. ASSUME Restart
      PROVE  req'[w].pc \notin {"fetch", "ok"}
  BY <1>3 DEF Restart, NoRequest
<1>4. QED
  BY <1>1, <1>2, <1>3 DEF Next, vars

\* Rows never change: who found or inserted a row by name still has it.
LEMMA RowSeenNext ==
    ASSUME Consistent, [Next]_vars
    PROVE  RowSeen'
<1> USE DEF Consistent
<1> SUFFICES ASSUME NEW w \in Worker, req'[w].pc = "fetch"
             PROVE  ValidateUser(req[w].name, req[w].password)'
  BY DEF RowSeen
<1>1. CASE req'[w] = req[w]
  BY <1>1, ValidKept DEF RowSeen
<1>2. CASE RegisterInsert(w)
  <2>1. /\ req[w].name \in Name /\ req[w].password \in Password
        /\ req'[w].name = req[w].name /\ req'[w].password = req[w].password
    BY <1>2, BusyRequest DEF RegisterInsert, At, Goto, TypeOK
  <2>2. PICK i \in Id : /\ CanCreateUser(i, req[w].name)
                        /\ CreateUser(i, req[w].name, req[w].password)
    BY <1>2 DEF RegisterInsert, Goto, TypeOK, NoRequest
  <2>3. users'[i] = [name |-> req[w].name, password |-> req[w].password]
    BY <2>2 DEF CreateUser, TypeOK
  <2>4. users'[i] # NoUser
    BY <2>1, <2>3 DEF User
  <2>5. QED
    BY <2>1, <2>3, <2>4 DEF ValidateUser, Stored
<1>3. CASE LoginValidate(w)
  <2>1. /\ ValidateUser(req[w].name, req[w].password)
        /\ req'[w].name = req[w].name /\ req'[w].password = req[w].password
    BY <1>3 DEF LoginValidate, Goto, TypeOK
  <2>2. QED
    BY <2>1, ValidKept
<1>4. CASE Fetch(w)
  BY <1>4 DEF Fetch, Goto, TypeOK, NoRequest
<1>5. QED
  BY <1>1, <1>2, <1>3, <1>4, Arrivals

\* The row looked up again by name is the one the credentials were checked with.
LEMMA TokenIsOwnNext ==
    ASSUME Consistent, [Next]_vars
    PROVE  TokenSigned' /\ TokenIsOwn'
<1> USE DEF Consistent
<1> SUFFICES ASSUME NEW w \in Worker, req'[w].pc = "ok"
             PROVE  /\ req'[w].id \in Id
                    /\ users'[req'[w].id] =
                           [name |-> req'[w].name, password |-> req'[w].password]
  BY DEF TokenSigned, TokenIsOwn
<1>1. CASE req'[w] = req[w]
  <2>1. /\ req[w].id \in Id
        /\ users[req[w].id] = [name |-> req[w].name, password |-> req[w].password]
    BY <1>1 DEF TokenSigned, TokenIsOwn
  <2>2. req[w].name \in Name /\ req[w].password \in Password
    BY <1>1, BusyRequest
  <2>3. Stored(req[w].id)
    BY <2>1, <2>2 DEF Stored, User
  <2>4. QED
    BY <1>1, <2>1, <2>3, RowsKept
<1>2. CASE Fetch(w)
  <2> DEFINE i == GetUserByUsername(req[w].name)
  <2>1. /\ NameTaken(req[w].name) /\ i \in Id
        /\ users[i] = [name |-> req[w].name, password |-> req[w].password]
    BY <1>2, FetchedRow DEF Fetch, RowSeen
  <2>2. /\ req'[w].id = i /\ users' = users
        /\ req'[w].name = req[w].name /\ req'[w].password = req[w].password
    BY <1>2, <2>1 DEF Fetch, TypeOK, NoRequest
  <2>3. QED
    BY <2>1, <2>2
<1>3. CASE RegisterInsert(w) \/ LoginValidate(w)
  BY <1>3 DEF RegisterInsert, LoginValidate, Goto, TypeOK, NoRequest
<1>4. QED
  BY <1>1, <1>2, <1>3, Arrivals

\* The inductive invariant holds.
THEOREM ConsistentAlways == Spec => []Consistent
<1>1. Consistent /\ [Next]_vars => Consistent'
  <2> SUFFICES ASSUME Consistent, [Next]_vars
               PROVE  Consistent'
    OBVIOUS
  <2>1. TypeOK'
    BY TypeNext DEF Consistent
  <2>2. NamesUnique'
    BY NamesStayUnique DEF Consistent
  <2>3. QED
    BY <2>1, <2>2, RowSeenNext, TokenIsOwnNext DEF Consistent
<1>2. QED
  BY <1>1, ConsistentInit, PTL DEF Spec

\* The token of every answer is for the user whose name and password the
\* request gave.
THEOREM TokenAlwaysOwn == Spec => []TokenIsOwn
<1>1. Consistent => TokenIsOwn
  BY DEF Consistent
<1>2. QED
  BY <1>1, ConsistentAlways, PTL

-----------------------------------------------------------------------------
(* The service implements Accounts.                                        *)

\* A worker without a request is an account client without a call.
LEMMA IdleMaps == CallOf(NoRequest) = Registry!NoCall
BY DEF CallOf, StatusOf, NoRequest, Registry!NoCall

\* The next values of the two mapped variables, spelled out.
LEMMA MappedNext ==
    /\ Calls' = [w \in Worker |-> CallOf(req'[w])]
    /\ UNCHANGED users => Passwords' = Passwords
BY DEF Calls, CallOf, StatusOf, Passwords, NameTaken, GetUserByUsername, Stored

\* A step of one worker that keeps the credentials of its request is a change
\* of the status of its call.
LEMMA GotoMaps ==
    ASSUME NEW w \in Worker, NEW q,
           req'[w] = q, \A v \in Worker \ {w} : req'[v] = req[v],
           q.op = req[w].op, q.name = req[w].name, q.password = req[w].password
    PROVE  Calls' = [Calls EXCEPT ![w].status = StatusOf(q)]
<1>1. Calls = [v \in Worker |-> CallOf(req[v])]
  BY DEF Calls
<1>2. CallOf(q) = [Calls[w] EXCEPT !.status = StatusOf(q)]
  BY <1>1 DEF CallOf
<1>3. QED
  BY <1>1, <1>2, MappedNext

\* A step that only moves on changes nothing of a call but its status.
LEMMA GotoKeepsId ==
    ASSUME TypeOK, NEW w \in Worker, NEW pc, Goto(w, pc)
    PROVE  Calls' = [Calls EXCEPT ![w].status = StatusOf([pc |-> pc])]
<1> DEFINE q == [req[w] EXCEPT !.pc = pc]
<1>1. /\ req'[w] = q /\ \A v \in Worker \ {w} : req'[v] = req[v]
      /\ q.pc = pc
      /\ q.op = req[w].op /\ q.name = req[w].name /\ q.password = req[w].password
  BY DEF Goto, TypeOK, NoRequest
<1>2. StatusOf(q) = StatusOf([pc |-> pc])
  BY <1>1 DEF StatusOf
<1> HIDE DEF q
<1>3. QED
  BY <1>1, <1>2, GotoMaps

\* A status that is set again does not change.
LEMMA StatusKept ==
    ASSUME NEW w \in Worker, NEW status, Calls[w].status = status
    PROVE  [Calls EXCEPT ![w].status = status] = Calls
BY DEF Calls, CallOf

\* What Accounts sees of a worker.
LEMMA CallSeen ==
    ASSUME TypeOK, NEW w \in Worker, req[w].pc # "idle"
    PROVE  /\ Calls[w].op = req[w].op /\ Calls[w].name = req[w].name
           /\ Calls[w].password = req[w].password
           /\ Calls[w].status = StatusOf(req[w])
           /\ req[w].name \in Name /\ req[w].password \in Password
BY BusyRequest DEF Calls, CallOf

\* The insertion is the registration, or its failure.
LEMMA InsertMaps ==
    ASSUME Consistent, NEW w \in Worker, RegisterInsert(w), NamesUnique',
           NEW n, NEW p, n = req[w].name, p = req[w].password
    PROVE  Registry!Register(w) \/ Registry!Fail(w)
<1> USE DEF Consistent
<1>1. /\ Calls[w].op = "register" /\ Calls[w].name = n /\ Calls[w].password = p
      /\ Calls[w].status = "pending" /\ n \in Name /\ p \in Password
  BY CallSeen DEF RegisterInsert, At, StatusOf
<1>2. PICK i \in Id :
         IF CanCreateUser(i, n)
         THEN CreateUser(i, n, p) /\ Goto(w, "fetch")
         ELSE UNCHANGED users /\ Goto(w, "failed")
  BY DEF RegisterInsert
<1>3. CASE CanCreateUser(i, n)
  <2>1. Calls' = [Calls EXCEPT ![w].status = "ok"]
    BY <1>2, <1>3, GotoKeepsId DEF StatusOf
  <2>2. Passwords[n] = NoPassword
    BY <1>1, <1>3 DEF CanCreateUser, Passwords
  <2>3. /\ users' = [users EXCEPT ![i] = [name |-> n, password |-> p]]
        /\ ~Stored(i)
    BY <1>2, <1>3 DEF CreateUser, CanCreateUser
  <2>4. ASSUME NEW m \in Name \ {n}
        PROVE  Passwords'[m] = Passwords[m]
    <3>1. \A j \in Id : (Stored(j) /\ users[j].name = m)'
                            <=> Stored(j) /\ users[j].name = m
      BY <2>3 DEF Stored, TypeOK
    <3>2. (NameTaken(m))' <=> NameTaken(m)
      BY <3>1 DEF NameTaken
    <3>3. GetUserByUsername(m)' = GetUserByUsername(m)
      BY <3>1 DEF GetUserByUsername
    <3>4. NameTaken(m) => GetUserByUsername(m) \in Id /\ GetUserByUsername(m) # i
      BY <2>3 DEF NameTaken, GetUserByUsername
    <3>5. QED
      BY <2>3, <3>2, <3>3, <3>4 DEF Passwords, TypeOK
  <2>5. Passwords'[n] = p
    <3>1. users'[i] = [name |-> n, password |-> p] /\ users'[i] # NoUser
      BY <1>1, <2>3 DEF TypeOK, User
    <3>2. NameTaken(n)' /\ GetUserByUsername(n)' = i
      <4>1. \A j \in Id : Stored(j)' /\ users'[j].name = n <=> j = i
        BY <3>1 DEF NamesUnique, Stored
      <4>2. QED
        BY <4>1 DEF NameTaken, GetUserByUsername, Stored
    <3>3. QED
      BY <1>1, <3>1, <3>2 DEF Passwords
  <2>6. Passwords' = [Passwords EXCEPT ![n] = p]
    BY <1>1, <2>4, <2>5 DEF Passwords
  <2>7. QED
    BY <1>1, <2>1, <2>2, <2>6 DEF Registry!Register, Registry!Pending,
                                 Registry!Becomes
<1>4. CASE ~CanCreateUser(i, n)
  <2>1. Calls' = [Calls EXCEPT ![w].status = "failed"]
    BY <1>2, <1>4, GotoKeepsId DEF StatusOf
  <2>2. QED
    BY <1>1, <1>2, <1>4, <2>1, MappedNext
       DEF Registry!Fail, Registry!Pending, Registry!Becomes
<1>5. QED
  BY <1>3, <1>4

\* The other steps of a handler.
LEMMA HandlerMaps ==
    ASSUME Consistent, NEW w \in Worker
    PROVE  /\ RegisterExists(w) =>
                  Registry!Fail(w) \/ UNCHANGED Registry!accountVars
           /\ LoginValidate(w) => Registry!Login(w)
           /\ Fetch(w) => UNCHANGED Registry!accountVars
<1> USE DEF Consistent
<1>1. ASSUME RegisterExists(w)
      PROVE  Registry!Fail(w) \/ UNCHANGED Registry!accountVars
  <2>1. Calls[w].op = "register" /\ Calls[w].status = "pending"
    BY <1>1, CallSeen DEF RegisterExists, At, StatusOf
  <2>2. CASE Goto(w, "rejected")
    <3>1. Calls' = [Calls EXCEPT ![w].status = "rejected"]
      BY <2>2, GotoKeepsId DEF StatusOf
    <3>2. QED
      BY <1>1, <2>1, <3>1, MappedNext
         DEF RegisterExists, Registry!Fail, Registry!Pending, Registry!Becomes
  <2>3. CASE Goto(w, "insert")
    <3>1. Calls' = [Calls EXCEPT ![w].status = "pending"]
      BY <2>3, GotoKeepsId DEF StatusOf
    <3>2. Calls' = Calls
      BY <2>1, <3>1, StatusKept
    <3>3. QED
      BY <1>1, <3>2, MappedNext DEF RegisterExists, Registry!accountVars
  <2>4. QED
    BY <1>1, <2>2, <2>3 DEF RegisterExists
<1>2. ASSUME LoginValidate(w)
      PROVE  Registry!Login(w)
  <2>1. /\ Calls[w].op = "login" /\ Calls[w].status = "pending"
        /\ Calls[w].name = req[w].name /\ Calls[w].password = req[w].password
        /\ req[w].name \in Name /\ req[w].password \in Password
    BY <1>2, CallSeen DEF LoginValidate, At, StatusOf
  <2>2. Passwords' = Passwords
    BY <1>2, MappedNext DEF LoginValidate
  <2>3. CASE ValidateUser(req[w].name, req[w].password)
    <3>1. Calls' = [Calls EXCEPT ![w].status = "ok"]
      BY <1>2, <2>3, GotoKeepsId DEF LoginValidate, StatusOf
    <3>2. QED
      BY <2>1, <2>2, <2>3, <3>1, ValidByName
         DEF Registry!Login, Registry!Pending, Registry!Becomes
  <2>4. CASE ~ValidateUser(req[w].name, req[w].password)
    <3>1. Calls' = [Calls EXCEPT ![w].status = "unauthorized"]
      BY <1>2, <2>4, GotoKeepsId DEF LoginValidate, StatusOf
    <3>2. QED
      BY <2>1, <2>2, <2>4, <3>1, ValidByName
         DEF Registry!Login, Registry!Pending, Registry!Becomes
  <2>5. QED
    BY <2>3, <2>4
<1>3. ASSUME Fetch(w)
      PROVE  UNCHANGED Registry!accountVars
  <2>1. NameTaken(req[w].name)
    BY <1>3, FetchedRow DEF Fetch, RowSeen
  <2>2. Calls' = [Calls EXCEPT ![w].status = "ok"]
    <3> DEFINE q == [op |-> req[w].op, pc |-> "ok", name |-> req[w].name,
                     password |-> req[w].password,
                     id |-> GetUserByUsername(req[w].name)]
    <3>1. req[w] = [op |-> req[w].op, pc |-> req[w].pc, name |-> req[w].name,
                    password |-> req[w].password, id |-> req[w].id]
      BY <1>3, BusyRequest DEF Fetch
    <3>2. req'[w] = q /\ \A v \in Worker \ {w} : req'[v] = req[v]
      BY <1>3, <2>1, <3>1 DEF Fetch, TypeOK
    <3>3. /\ q.op = req[w].op /\ q.name = req[w].name
          /\ q.password = req[w].password /\ StatusOf(q) = "ok"
      BY DEF StatusOf
    <3> HIDE DEF q
    <3>4. QED
      BY <3>2, <3>3, GotoMaps
  <2>3. Calls[w].status = "ok"
    BY <1>3, CallSeen DEF Fetch, StatusOf
  <2>4. Calls' = Calls
    BY <2>2, <2>3, StatusKept
  <2>5. QED
    BY <1>3, <2>4, MappedNext DEF Fetch, Registry!accountVars
<1>4. QED
  BY <1>1, <1>2, <1>3

\* A request arrives and an answer leaves.
LEMMA EndsMap ==
    ASSUME Consistent, NEW w \in Worker
    PROVE  /\ Receive(w) => Registry!Arrive(w)
           /\ Reply(w) => Registry!Return(w)
<1> USE DEF Consistent
<1>1. ASSUME Receive(w)
      PROVE  Registry!Arrive(w)
  <2>1. PICK op \in Ops, n \in Name, p \in Password,
            pc \in {"rejected", "exists", "validate"} :
           req' = [req EXCEPT ![w] = [op |-> op, name |-> n, password |-> p,
                                      id |-> NoId, pc |-> pc]]
    BY <1>1 DEF Receive
  <2> DEFINE q == [op |-> op, name |-> n, password |-> p, id |-> NoId, pc |-> pc]
             call == [op |-> op, name |-> n, password |-> p,
                      status |-> IF pc = "rejected" THEN pc ELSE "pending"]
  <2>2. CallOf(q) = call
    BY DEF CallOf, StatusOf
  <2>3. Calls' = [Calls EXCEPT ![w] = call]
    BY <2>1, <2>2, MappedNext DEF Calls, TypeOK
  <2>4. Calls[w] = Registry!NoCall
    BY <1>1, IdleMaps DEF Receive, Calls
  <2>5. QED
    BY <1>1, <2>3, <2>4, MappedNext DEF Receive, Registry!Arrive, Ops
<1>2. ASSUME Reply(w)
      PROVE  Registry!Return(w)
  <2>1. Calls[w].status \in Answers
    BY <1>2, CallSeen DEF Reply, StatusOf, Answers
  <2>2. Calls' = [Calls EXCEPT ![w] = Registry!NoCall]
    BY <1>2, IdleMaps, MappedNext DEF Reply, Calls, TypeOK
  <2>3. QED
    BY <1>2, <2>1, <2>2, MappedNext DEF Reply, Answers, Registry!Return
<1>3. QED
  BY <1>1, <1>2

\* Each call of the code is a step of Accounts or none.
LEMMA AccountsStep ==
    ASSUME Consistent, Consistent', [Next]_vars
    PROVE  [Registry!AccountsNext]_(Registry!accountVars)
<1>1. ASSUME NEW w \in Worker, RegisterInsert(w)
      PROVE  Registry!AccountsNext
  BY <1>1, InsertMaps DEF Registry!AccountsNext, Consistent
<1>2. ASSUME NEW w \in Worker,
             \/ Receive(w) \/ Reply(w) \/ RegisterExists(w)
             \/ LoginValidate(w) \/ Fetch(w)
      PROVE  [Registry!AccountsNext]_(Registry!accountVars)
  BY <1>2, HandlerMaps, EndsMap DEF Registry!AccountsNext
<1>3. CASE Restart
  <2>1. Calls' = [v \in Worker |-> Registry!NoCall]
    BY <1>3, IdleMaps, MappedNext DEF Restart
  <2>2. QED
    BY <1>3, <2>1, MappedNext DEF Restart, Registry!Forget, Registry!AccountsNext
<1>4. CASE UNCHANGED vars
  BY <1>4, MappedNext DEF vars, Calls, Registry!accountVars
<1>5. QED
  BY <1>1, <1>2, <1>3, <1>4 DEF Next

\* The initial states of the service are initial states of Accounts.
LEMMA AccountsStart == Init => Registry!AccountsInit
<1> SUFFICES ASSUME Init
             PROVE  Registry!AccountsInit
  OBVIOUS
<1>1. Passwords = [n \in Name |-> NoPassword]
  BY DEF Init, Passwords, NameTaken, Stored
<1>2. Calls = [w \in Worker |-> Registry!NoCall]
  BY IdleMaps DEF Init, Calls
<1>3. QED
  BY <1>1, <1>2 DEF Registry!AccountsInit

\* Of concurrent registrations of a name one takes effect, at one instant, and
\* logins compare with its password, for any number of workers and names.
THEOREM ServiceImplementsAccounts == Spec => ImplementsAccounts
<1>1. QED
  BY ConsistentAlways, AccountsStart, AccountsStep, PTL
     DEF Spec, ImplementsAccounts, Registry!AccountsSpec
=============================================================================
