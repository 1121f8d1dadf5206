-------------------------- MODULE HttpServicesProofs --------------------------
(***************************************************************************)
(* Proofs about the HTTP services for any number of workers, users, rooms, *)
(* names and messages.                                                     *)
(***************************************************************************)
EXTENDS HttpServices, TLAPS

-----------------------------------------------------------------------------
(* Types.                                                                  *)

USE ServicesAssumption, NoRowAssumption

\* Giving a worker a well-formed request keeps the requests well-formed.
LEMMA NewRequestOK ==
    ASSUME TypeOK, NEW w \in Worker, NEW q,
           q = NoRequest \/ (q \in AnyRequest /\ RequestOK(q)),
           req' = [req EXCEPT ![w] = q]
    PROVE  /\ req' \in [Worker -> AnyRequest \cup {NoRequest}]
           /\ \A v \in Worker : req'[v] # NoRequest => RequestOK(req'[v])
BY DEF TypeOK

\* A worker that is past the request holds a well-formed one.
LEMMA BusyRequest ==
    ASSUME TypeOK, NEW w \in Worker, req[w].pc # "idle"
    PROVE  req[w] \in AnyRequest /\ RequestOK(req[w])
BY DEF TypeOK, NoRequest

\* Where a handler may go without touching its other locals.
LEMMA GotoOK ==
    ASSUME TypeOK, NEW w \in Worker, req[w] \in AnyRequest, RequestOK(req[w]),
           NEW pc \in Answers \cup StepNames, Goto(w, pc),
           \/ pc \in Answers
           \/ /\ pc \in Steps[req[w].op] \ {"insert", "enrol", "write"}
              /\ req[w].op # "create" /\ req[w].pc \notin Answers
    PROVE  /\ req' \in [Worker -> AnyRequest \cup {NoRequest}]
           /\ \A v \in Worker : req'[v] # NoRequest => RequestOK(req'[v])
<1> DEFINE p == req[w]
           q == IF pc \in Answers THEN Moved(p, pc, p.room, NoName, NoText)
                                  ELSE Moved(p, pc, p.room, p.name, p.text)
<1>1. req' = [req EXCEPT ![w] = q]
  BY DEF Goto
<1>2. q \in AnyRequest
  BY DEF AnyRequest, Moved
<1>3. RequestOK(q)
  <2>1. CASE pc \in Answers
    BY <2>1 DEF AnyRequest, RequestOK, Answers, Moved
  <2>2. CASE pc \notin Answers
    BY <2>2 DEF AnyRequest, RequestOK, Moved
  <2>3. QED
    BY <2>1, <2>2
<1>4. QED
  BY <1>1, <1>2, <1>3, NewRequestOK

\* A read keeps the types, whichever way it turns out.
LEMMA CheckOK ==
    ASSUME TypeOK, NEW w \in Worker, NEW op \in Ops \ {"create"},
           NEW pc \in Steps[op] \ {"idle"}, pc \notin Answers,
           NEW next \in StepNames, next \in Steps[op] \ {"insert", "enrol", "write"},
           NEW refusal \in Answers,
           At(w, op, pc), Goto(w, next) \/ Goto(w, refusal), UNCHANGED database
    PROVE  TypeOK'
<1>1. req[w] \in AnyRequest /\ RequestOK(req[w])
  BY BusyRequest DEF At
<1>4. /\ req' \in [Worker -> AnyRequest \cup {NoRequest}]
      /\ \A v \in Worker : req'[v] # NoRequest => RequestOK(req'[v])
  BY <1>1, GotoOK DEF At
<1>5. DatabaseTypeOK'
  BY DEF database, TypeOK, DatabaseTypeOK
<1>6. QED
  BY <1>4, <1>5 DEF TypeOK

\* No request is under way at first.
LEMMA TypeInit == Init => TypeOK
BY DEF Init, TypeOK, DatabaseInit, DatabaseTypeOK

\* The calls that only read.
LEMMA ChecksKeepTypes ==
    ASSUME TypeOK, NEW w \in Worker,
           \/ JoinExists(w) \/ JoinRecheck(w) \/ LeaveExists(w)
           \/ DeleteExists(w) \/ DeleteCreator(w)
           \/ UpdateExists(w) \/ UpdateCreator(w)
           \/ HistoryExists(w) \/ HistoryMember(w)
    PROVE  TypeOK'
<1> USE DEF Ops, Steps, StepNames, Answers
<1>2. CASE JoinExists(w)
  BY <1>2, CheckOK DEF JoinExists, Check
<1>3. CASE JoinRecheck(w)
  BY <1>3, CheckOK DEF JoinRecheck, Check
<1>4. CASE LeaveExists(w)
  BY <1>4, CheckOK DEF LeaveExists, Check
<1>5. CASE DeleteExists(w)
  BY <1>5, CheckOK DEF DeleteExists, Check
<1>6. CASE DeleteCreator(w)
  BY <1>6, CheckOK DEF DeleteCreator, Check
<1>7. CASE UpdateExists(w)
  BY <1>7, CheckOK DEF UpdateExists, Check
<1>8. CASE UpdateCreator(w)
  BY <1>8, CheckOK DEF UpdateCreator, Check
<1>9. CASE HistoryExists(w)
  BY <1>9, CheckOK DEF HistoryExists, Check
<1>10. CASE HistoryMember(w)
  BY <1>10, CheckOK DEF HistoryMember, Check
<1>11. QED
  BY <1>2, <1>3, <1>4, <1>5, <1>6, <1>7, <1>8, <1>9, <1>10

\* The last step of a handler.
LEMMA LastStepOK ==
    ASSUME TypeOK, NEW w \in Worker, req[w].pc # "idle", NEW pc \in Answers,
           Goto(w, pc), DatabaseTypeOK'
    PROVE  TypeOK'
BY BusyRequest, GotoOK DEF TypeOK

\* The calls that change a table.
LEMMA WritesKeepTypes ==
    ASSUME TypeOK, NEW w \in Worker,
           \/ CreateInsert(w) \/ CreateEnrol(w) \/ JoinAdd(w) \/ LeaveRemove(w)
           \/ DeleteRow(w) \/ UpdateReadRow(w) \/ UpdateWrite(w)
           \/ HistoryRead(w)
    PROVE  TypeOK'
<1> DEFINE q == req[w]
<1> USE DEF DatabaseTypeOK, Row
<1>1. CASE CreateInsert(w)
  <2>1. q \in AnyRequest /\ RequestOK(q)
    BY <1>1, BusyRequest DEF CreateInsert, At
  <2>2. PICK r \in Room :
           IF CanCreateRoom(r, q.name)
           THEN /\ CreateRoom(r, [creator |-> q.user, name |-> q.name,
                                  text |-> q.text])
                /\ req' = [req EXCEPT ![w] = Moved(q, "enrol", r, NoName, NoText)]
           ELSE Goto(w, "failed") /\ UNCHANGED database
    BY <1>1 DEF CreateInsert
  <2>3. CASE CanCreateRoom(r, q.name)
    <3> DEFINE row == [creator |-> q.user, name |-> q.name, text |-> q.text]
               new == Moved(q, "enrol", r, NoName, NoText)
    <3>1. row \in Row
      BY <1>1, <2>1 DEF CreateInsert, At, RequestOK, AnyRequest
    <3>2. DatabaseTypeOK'
      BY <2>2, <2>3, <3>1 DEF CreateRoom, TypeOK
    <3>3. new \in AnyRequest /\ RequestOK(new)
      BY <1>1, <2>1 DEF CreateInsert, At, AnyRequest, RequestOK, Moved, Steps,
                        StepNames, Answers, Ops
    <3>4. req' = [req EXCEPT ![w] = new]
      BY <2>2, <2>3
    <3>5. QED
      BY <3>2, <3>3, <3>4, NewRequestOK DEF TypeOK
  <2>4. CASE ~CanCreateRoom(r, q.name)
    BY <1>1, <2>2, <2>4, LastStepOK
       DEF CreateInsert, At, TypeOK, database, Answers
  <2>5. QED
    BY <2>3, <2>4
<1>2. CASE CreateEnrol(w)
  <2>1. q \in AnyRequest /\ RequestOK(q) /\ q.room \in Room
    BY <1>2, BusyRequest DEF CreateEnrol, At, RequestOK
  <2>2. DatabaseTypeOK'
    BY <1>2, <2>1 DEF CreateEnrol, AddRoomMember, database, TypeOK, AnyRequest
  <2>3. QED
    BY <1>2, <2>2, LastStepOK DEF CreateEnrol, At, Answers
<1>3. CASE JoinAdd(w)
  <2>1. q \in AnyRequest /\ RequestOK(q) /\ q.room \in Room
    BY <1>3, BusyRequest DEF JoinAdd, At, RequestOK
  <2>2. DatabaseTypeOK'
    BY <1>3, <2>1 DEF JoinAdd, AddRoomMember, database, TypeOK, AnyRequest
  <2>3. QED
    BY <1>3, <2>2, LastStepOK DEF JoinAdd, At, Answers
<1>4. CASE LeaveRemove(w)
  <2>1. DatabaseTypeOK'
    BY <1>4 DEF LeaveRemove, RemoveRoomMember, TypeOK
  <2>2. QED
    BY <1>4, <2>1, LastStepOK DEF LeaveRemove, At, Answers
<1>5. CASE DeleteRow(w)
  <2>1. DatabaseTypeOK'
    BY <1>5 DEF DeleteRow, DeleteRoom, TypeOK
  <2>2. QED
    BY <1>5, <2>1, LastStepOK DEF DeleteRow, At, Answers
<1>6. CASE UpdateReadRow(w)
  <2>1. q \in AnyRequest /\ RequestOK(q) /\ q.room \in Room
    BY <1>6, BusyRequest DEF UpdateReadRow, At, RequestOK
  <2>2. DatabaseTypeOK'
    BY <1>6 DEF UpdateReadRow, database, TypeOK
  <2>3. CASE RoomExists(q.room)
    <3> DEFINE new == Moved(q, "write", q.room, rooms[q.room].name, q.text)
    <3>1. rooms[q.room].name \in Name
      BY <2>1, <2>3 DEF RoomExists, TypeOK
    <3>2. new \in AnyRequest /\ RequestOK(new)
      BY <1>6, <2>1, <3>1
         DEF UpdateReadRow, At, AnyRequest, RequestOK, Moved, Steps, StepNames,
             Answers, Ops
    <3>3. req' = [req EXCEPT ![w] = new]
      BY <1>6, <2>3 DEF UpdateReadRow
    <3>4. QED
      BY <2>2, <3>2, <3>3, NewRequestOK DEF TypeOK
  <2>4. CASE ~RoomExists(q.room)
    BY <1>6, <2>2, <2>4, LastStepOK DEF UpdateReadRow, At, Answers
  <2>5. QED
    BY <2>3, <2>4
<1>7. CASE UpdateWrite(w)
  <2>1. q \in AnyRequest /\ RequestOK(q) /\ q.room \in Room
    BY <1>7, BusyRequest DEF UpdateWrite, At, RequestOK
  <2>2. q.name \in Name /\ q.text \in Text
    BY <1>7, <2>1 DEF UpdateWrite, At, RequestOK, Answers
  <2>3. CASE CanUpdateRoom(q.room, q.name) /\ RoomExists(q.room)
    <3> DEFINE old == rooms[q.room]
               row == [creator |-> old.creator, name |-> q.name, text |-> q.text]
    <3>1. old \in Row /\ row \in Row
      BY <2>1, <2>2, <2>3 DEF RoomExists, TypeOK
    <3>2. rooms' = [rooms EXCEPT ![q.room] = row]
      BY <1>7, <2>3 DEF UpdateWrite, UpdateRoom
    <3>3. DatabaseTypeOK'
      BY <1>7, <2>3, <3>1, <3>2 DEF UpdateWrite, UpdateRoom, TypeOK
    <3>4. QED
      BY <1>7, <2>3, <3>3, LastStepOK DEF UpdateWrite, At, Answers
  <2>4. CASE ~(CanUpdateRoom(q.room, q.name) /\ RoomExists(q.room))
    <3>1. DatabaseTypeOK'
      BY <1>7, <2>4 DEF UpdateWrite, UpdateRoom, TypeOK, database
    <3>2. QED
      BY <1>7, <3>1, LastStepOK DEF UpdateWrite, At, Answers
  <2>5. QED
    BY <2>3, <2>4
<1>8. CASE HistoryRead(w)
  <2>1. DatabaseTypeOK'
    BY <1>8 DEF HistoryRead, TypeOK, database
  <2>2. QED
    BY <1>8, <2>1, LastStepOK DEF HistoryRead, At, Answers
<1>9. QED
  BY <1>1, <1>2, <1>3, <1>4, <1>5, <1>6, <1>7, <1>8

\* Every call leaves its handler with the locals the next one uses.
LEMMA TypeNext == TypeOK /\ [Next]_vars => TypeOK'
<1> SUFFICES ASSUME TypeOK, [Next]_vars
             PROVE  TypeOK'
  OBVIOUS
<1>1. ASSUME NEW w \in Worker, Receive(w)
      PROVE  TypeOK'
  <2>1. PICK op \in Ops, u \in User : \E q \in Request(op, u) :
           \/ req' = [req EXCEPT ![w] = q]
           \/ req' = [req EXCEPT ![w] = Rejected(q)]
    BY <1>1 DEF Receive
  <2>2. PICK q \in Request(op, u) :
           \/ req' = [req EXCEPT ![w] = q]
           \/ req' = [req EXCEPT ![w] = Rejected(q)]
    BY <2>1
  <2>3. /\ q \in AnyRequest
        /\ q.op = op /\ q.pc = IF op = "create" THEN "insert" ELSE "exists"
        /\ op # "create" => q.room \in Room
        /\ op = "create" => q.name \in Name
        /\ op \in {"create", "update"} => q.text \in Text
    BY DEF Request, AnyRequest, Ops, StepNames
  <2>4. RequestOK(q)
    BY <2>3 DEF RequestOK, Steps, Ops
  <2>5. Rejected(q) \in AnyRequest /\ RequestOK(Rejected(q))
    BY <2>3 DEF Rejected, Moved, AnyRequest, RequestOK, Answers
  <2>6. DatabaseTypeOK'
    BY <1>1 DEF Receive, database, TypeOK, DatabaseTypeOK
  <2>7. QED
    BY <2>2, <2>3, <2>4, <2>5, <2>6, NewRequestOK DEF TypeOK
<1>2. ASSUME NEW w \in Worker, Reply(w)
      PROVE  TypeOK'
  BY <1>2, NewRequestOK DEF Reply, database, TypeOK, DatabaseTypeOK
<1>3. ASSUME NEW r \in Room, HubSaves(r)
      PROVE  TypeOK'
  BY <1>3 DEF HubSaves, SaveMessage, TypeOK, DatabaseTypeOK
<1>4. CASE Restart
  BY <1>4 DEF Restart, database, TypeOK, DatabaseTypeOK
<1>5. CASE UNCHANGED vars
  BY <1>5 DEF vars, database, TypeOK, DatabaseTypeOK
<1>6. QED
  BY <1>1, <1>2, <1>3, <1>4, <1>5, ChecksKeepTypes, WritesKeepTypes
     DEF Next, Handler

\* Requests and tables have their types, and a handler that gets to a step has
\* the locals it needs there.
THEOREM TypeCorrect == Spec => []TypeOK
<1>1. QED
  BY TypeInit, TypeNext, PTL DEF Spec

-----------------------------------------------------------------------------
(* What the calls of one handler may rely on in the next ones.             *)

\* The ids of stored rooms were drawn, so a deleted room does not come back.
StoredWereDrawn == \A r \in Room : RoomExists(r) => r \in drawn

\* A handler that found its user to be the creator: if the room is still
\* stored then it is the same room, and it has the name that was read.
CreatorSeen ==
    \A w \in Worker : req[w].pc \in {"delete", "row", "write"} =>
        /\ req[w].room \in drawn
        /\ RoomExists(req[w].room) =>
               /\ rooms[req[w].room].creator = req[w].user
               /\ req[w].pc = "write" => rooms[req[w].room].name = req[w].name

\* The UNIQUE constraint on the names.
NamesUnique ==
    \A r, s \in Room :
        RoomExists(r) /\ RoomExists(s) /\ rooms[r].name = rooms[s].name => r = s

\* OnlyCreatorChanges and NameAndCreatorKept follow from CreatorSeen, which
\* needs StoredWereDrawn: without it an id could be given to another room
\* between the check and the write.
Consistent ==
    /\ TypeOK
    /\ NoOrphans
    /\ NamesUnique
    /\ StoredWereDrawn
    /\ CreatorSeen

\* The tables are empty at first.
LEMMA ConsistentInit == Init => Consistent
<1> SUFFICES ASSUME Init
             PROVE  Consistent
  OBVIOUS
<1>1. NoOrphans /\ NamesUnique /\ StoredWereDrawn
  BY DEF Init, DatabaseInit, NoOrphans, NamesUnique, StoredWereDrawn, RoomExists
<1>2. CreatorSeen
  BY DEF Init, NoRequest, CreatorSeen
<1>3. QED
  BY <1>1, <1>2, TypeInit DEF Consistent

\* Steps that write no room and move no handler to a step of CreatorSeen.
LEMMA RoomsUntouched ==
    ASSUME Consistent, UNCHANGED <<rooms, drawn>>,
           \A w \in Worker : \/ req'[w].pc \notin {"delete", "row", "write"}
                             \/ req'[w] = req[w]
    PROVE  NamesUnique' /\ StoredWereDrawn' /\ CreatorSeen'
BY DEF Consistent, NamesUnique, StoredWereDrawn, CreatorSeen, RoomExists

\* A call that only reads may learn who created the room, nothing more.
LEMMA ReadsKeepConsistency ==
    ASSUME Consistent, TypeOK', NEW w \in Worker,
           \/ Receive(w) \/ Reply(w) \/ HistoryRead(w)
           \/ JoinExists(w) \/ JoinRecheck(w) \/ LeaveExists(w)
           \/ DeleteExists(w) \/ DeleteCreator(w)
           \/ UpdateExists(w) \/ UpdateCreator(w) \/ UpdateReadRow(w)
           \/ HistoryExists(w) \/ HistoryMember(w)
    PROVE  Consistent'
<1>1. UNCHANGED database
  BY DEF Receive, Reply, HistoryRead, JoinExists, JoinRecheck, LeaveExists,
         DeleteExists, DeleteCreator, UpdateExists, UpdateCreator, UpdateReadRow,
         HistoryExists, HistoryMember, Check
<1>2. NoOrphans'
  BY <1>1 DEF Consistent, NoOrphans, RoomExists, database
<1>3. \A v \in Worker \ {w} : req'[v] = req[v]
  BY DEF Receive, Reply, HistoryRead, JoinExists, JoinRecheck, LeaveExists,
         DeleteExists, DeleteCreator, UpdateExists, UpdateCreator, UpdateReadRow,
         HistoryExists, HistoryMember, Check, Goto, Consistent, TypeOK
<1>4. CASE req'[w].pc \notin {"delete", "row", "write"}
  BY <1>1, <1>2, <1>3, <1>4, RoomsUntouched DEF Consistent, database
<1>5. CASE req'[w].pc \in {"delete", "row", "write"}
  <2> DEFINE q == req[w]
  <2>1. DeleteCreator(w) \/ UpdateCreator(w) \/ UpdateReadRow(w)
    <3>1. CASE Receive(w)
      BY <1>5, <3>1 DEF Receive, Request, Rejected, Moved, Consistent, TypeOK
    <3>2. CASE Reply(w)
      BY <1>5, <3>2 DEF Reply, NoRequest, Consistent, TypeOK
    <3>3. CASE HistoryRead(w)
      BY <1>5, <3>3 DEF HistoryRead, Goto, Moved, Answers, Consistent, TypeOK
    <3>4. CASE JoinExists(w) \/ JoinRecheck(w) \/ LeaveExists(w)
      BY <1>5, <3>4 DEF JoinExists, JoinRecheck, LeaveExists, Check, Goto, Moved,
                        Answers, Consistent, TypeOK
    <3>5. CASE DeleteExists(w) \/ UpdateExists(w)
      BY <1>5, <3>5 DEF DeleteExists, UpdateExists, Check, Goto, Moved, Answers,
                        Consistent, TypeOK
    <3>6. CASE HistoryExists(w) \/ HistoryMember(w)
      BY <1>5, <3>6 DEF HistoryExists, HistoryMember, Check, Goto, Moved, Answers,
                        Consistent, TypeOK
    <3>7. QED
      BY <3>1, <3>2, <3>3, <3>4, <3>5, <3>6
  <2>2. q.room \in Room
    BY <2>1, BusyRequest DEF DeleteCreator, UpdateCreator, UpdateReadRow, Check, At,
                             Consistent, RequestOK
  <2>3. /\ req'[w].room = q.room /\ req'[w].user = q.user
        /\ req'[w].pc = "write" /\ RoomExists(q.room)
               => req'[w].name = rooms[q.room].name
    <3>1. CASE DeleteCreator(w) \/ UpdateCreator(w)
      BY <3>1, <1>5 DEF DeleteCreator, UpdateCreator, Check, Goto, Moved, Answers,
                        Consistent, TypeOK
    <3>2. CASE UpdateReadRow(w)
      BY <3>2, <1>5 DEF UpdateReadRow, Goto, Moved, Answers, Consistent, TypeOK
    <3>3. QED
      BY <2>1, <3>1, <3>2
  <2>4. q.room \in drawn /\ (RoomExists(q.room) => rooms[q.room].creator = q.user)
    <3>1. CASE DeleteCreator(w) \/ UpdateCreator(w)
      <4>1. IsCreator(q.room, q.user)
        BY <3>1, <1>5 DEF DeleteCreator, UpdateCreator, Check, Goto, Moved, Answers,
                          Consistent, TypeOK
      <4>2. QED
        BY <4>1, <2>2 DEF IsCreator, Consistent, StoredWereDrawn
    <3>2. CASE UpdateReadRow(w)
      BY <3>2 DEF UpdateReadRow, At, Consistent, CreatorSeen
    <3>3. QED
      BY <2>1, <3>1, <3>2
  <2>5. CreatorSeen'
    BY <1>1, <1>3, <2>3, <2>4
       DEF CreatorSeen, Consistent, database, RoomExists
  <2>6. NamesUnique' /\ StoredWereDrawn'
    BY <1>1 DEF NamesUnique, StoredWereDrawn, Consistent, database, RoomExists
  <2>7. QED
    BY <1>2, <2>5, <2>6 DEF Consistent
<1>6. QED
  BY <1>4, <1>5

\* A handler that has decided on its answer is at no step of CreatorSeen.
LEMMA AnsweredLeaves ==
    ASSUME TypeOK, NEW w \in Worker, NEW pc \in Answers, Goto(w, pc)
    PROVE  /\ req'[w].pc \notin {"delete", "row", "write"}
           /\ \A v \in Worker \ {w} : req'[v] = req[v]
BY DEF Goto, Moved, Answers, TypeOK

\* The name written back is the one the room has, so rooms keep their names.
LEMMA UpdateKeepsRow ==
    ASSUME Consistent, NEW w \in Worker, UpdateWrite(w), NEW r \in Room
    PROVE  /\ RoomExists(r)' <=> RoomExists(r)
           /\ RoomExists(r) => /\ rooms'[r].name = rooms[r].name
                               /\ rooms'[r].creator = rooms[r].creator
           /\ rooms'[r] # rooms[r] => r = req[w].room /\ RoomExists(r)
<1> DEFINE q == req[w]
           row == [creator |-> rooms[q.room].creator, name |-> q.name,
                   text |-> q.text]
<1>1. CASE CanUpdateRoom(q.room, q.name) /\ RoomExists(q.room)
  <2>1. rooms' = [rooms EXCEPT ![q.room] = row]
    BY <1>1 DEF UpdateWrite, UpdateRoom
  <2>2. q.room \in Room /\ q.name \in Name /\ q.text \in Text
    BY BusyRequest DEF UpdateWrite, At, Consistent, RequestOK, Answers
  <2>3. rooms[q.room] \in Row
    BY <1>1, <2>2 DEF RoomExists, Consistent, TypeOK, DatabaseTypeOK
  <2>4. row \in Row
    BY <2>2, <2>3 DEF Row
  <2>5. rooms[q.room].name = q.name
    BY <1>1 DEF UpdateWrite, At, Consistent, CreatorSeen
  <2>6. QED
    BY <1>1, <2>1, <2>4, <2>5
       DEF RoomExists, Consistent, TypeOK, DatabaseTypeOK
<1>2. CASE ~(CanUpdateRoom(q.room, q.name) /\ RoomExists(q.room))
  BY <1>2 DEF UpdateWrite, UpdateRoom, database, RoomExists
<1>3. QED
  BY <1>1, <1>2

\* Keys and cascades keep the tables consistent, whatever was checked before.
LEMMA WritesKeepConsistency ==
    ASSUME Consistent, TypeOK', NEW w \in Worker,
           \/ CreateInsert(w) \/ CreateEnrol(w) \/ JoinAdd(w) \/ LeaveRemove(w)
           \/ DeleteRow(w) \/ UpdateWrite(w)
    PROVE  Consistent'
<1> DEFINE q == req[w]
<1>1. CASE CreateInsert(w)
  <2>1. PICK r \in Room :
           /\ GeneratedId(r)
           /\ IF CanCreateRoom(r, q.name)
              THEN /\ CreateRoom(r, [creator |-> q.user, name |-> q.name,
                                     text |-> q.text])
                   /\ req' = [req EXCEPT ![w] = Moved(q, "enrol", r, NoName, NoText)]
              ELSE Goto(w, "failed") /\ UNCHANGED database
    BY <1>1 DEF CreateInsert
  <2>2. CASE ~CanCreateRoom(r, q.name)
    <3>1. NoOrphans'
      BY <2>1, <2>2 DEF NoOrphans, Consistent, RoomExists, database
    <3>2. QED
      BY <2>1, <2>2, <3>1, AnsweredLeaves, RoomsUntouched
         DEF Consistent, database, Answers
  <2>3. CASE CanCreateRoom(r, q.name)
    <3> DEFINE row == [creator |-> q.user, name |-> q.name, text |-> q.text]
    <3>1. /\ rooms' = [rooms EXCEPT ![r] = row] /\ drawn' = drawn \cup {r}
          /\ UNCHANGED <<room_members, messages>>
      BY <2>1, <2>3 DEF CreateRoom
    <3>2. row \in Row
      BY <1>1, BusyRequest
         DEF CreateInsert, At, Consistent, RequestOK, AnyRequest, Row
    <3>3. \A s \in Room : RoomExists(s)' <=> (RoomExists(s) \/ s = r)
      BY <3>1, <3>2 DEF RoomExists, Consistent, TypeOK, DatabaseTypeOK
    <3>4. NoOrphans'
      BY <3>1, <3>3 DEF NoOrphans, Consistent
    <3>5. \A s \in Room \ {r} : RoomExists(s) => rooms[s].name # row.name
      BY <2>3 DEF CanCreateRoom, NameTaken
    <3>6. /\ rooms'[r] = row
          /\ \A s \in Room \ {r} : rooms'[s] = rooms[s]
      BY <3>1 DEF Consistent, TypeOK, DatabaseTypeOK
    <3>7. NamesUnique'
      BY <3>3, <3>5, <3>6 DEF NamesUnique, Consistent
    <3>8. StoredWereDrawn'
      BY <3>1, <3>3 DEF StoredWereDrawn, Consistent
    <3>9. r \notin drawn
      BY <2>1, <2>3 DEF GeneratedId, CanCreateRoom
    <3>10. /\ req'[w].pc = "enrol"
           /\ \A v \in Worker \ {w} : req'[v] = req[v]
      BY <2>1, <2>3 DEF Moved, Consistent, TypeOK
    <3>11. CreatorSeen'
      <4> SUFFICES ASSUME NEW v \in Worker, req'[v].pc \in {"delete", "row", "write"}
                   PROVE  /\ req'[v].room \in drawn'
                          /\ RoomExists(req[v].room)' =>
                              /\ rooms'[req'[v].room].creator = req'[v].user
                              /\ req'[v].pc = "write"
                                    => rooms'[req'[v].room].name = req'[v].name
        BY <3>10 DEF CreatorSeen, RoomExists
      <4>1. v # w /\ req'[v] = req[v]
        BY <3>10
      <4>2. req[v].room \in drawn /\ req[v].room # r
        BY <3>9, <4>1 DEF Consistent, CreatorSeen
      <4>3. req[v].room \in Room
        BY <4>2 DEF Consistent, TypeOK, DatabaseTypeOK
      <4>4. QED
        BY <3>1, <3>3, <3>6, <4>1, <4>2, <4>3 DEF Consistent, CreatorSeen
    <3>12. QED
      BY <3>4, <3>7, <3>8, <3>11 DEF Consistent
  <2>4. QED
    BY <2>2, <2>3
<1>2. CASE CreateEnrol(w)
  <2>1. NoOrphans' /\ UNCHANGED <<rooms, drawn>>
    BY <1>2 DEF CreateEnrol, AddRoomMember, database, NoOrphans, Consistent,
                RoomExists, TypeOK, DatabaseTypeOK
  <2>2. QED
    BY <1>2, <2>1, AnsweredLeaves, RoomsUntouched DEF CreateEnrol, Consistent, Answers
<1>3. CASE JoinAdd(w)
  <2>1. NoOrphans' /\ UNCHANGED <<rooms, drawn>>
    BY <1>3 DEF JoinAdd, AddRoomMember, database, NoOrphans, Consistent,
                RoomExists, TypeOK, DatabaseTypeOK
  <2>2. QED
    BY <1>3, <2>1, AnsweredLeaves, RoomsUntouched DEF JoinAdd, Consistent, Answers
<1>4. CASE LeaveRemove(w)
  <2>1. NoOrphans' /\ UNCHANGED <<rooms, drawn>>
    BY <1>4 DEF LeaveRemove, RemoveRoomMember, NoOrphans, Consistent,
                RoomExists, TypeOK, DatabaseTypeOK
  <2>2. QED
    BY <1>4, <2>1, AnsweredLeaves, RoomsUntouched
       DEF LeaveRemove, Consistent, Answers
<1>5. CASE DeleteRow(w)
  <2>1. /\ rooms' = [rooms EXCEPT ![q.room] = NoRow]
        /\ room_members' = [room_members EXCEPT ![q.room] = {}]
        /\ messages' = [messages EXCEPT ![q.room] = 0]
        /\ UNCHANGED drawn
    BY <1>5 DEF DeleteRow, DeleteRoom
  <2>2. \A s \in Room : RoomExists(s)' => RoomExists(s) /\ rooms'[s] = rooms[s]
    BY <2>1 DEF RoomExists, Consistent, TypeOK, DatabaseTypeOK
  <2>3. NoOrphans'
    BY <2>1 DEF NoOrphans, RoomExists, Consistent, TypeOK, DatabaseTypeOK
  <2>4. NamesUnique' /\ StoredWereDrawn'
    BY <2>1, <2>2 DEF NamesUnique, StoredWereDrawn, Consistent
  <2>5. /\ req'[w].pc \notin {"delete", "row", "write"}
        /\ \A v \in Worker \ {w} : req'[v] = req[v]
    BY <1>5, AnsweredLeaves DEF DeleteRow, Answers, Consistent
  <2>6. CreatorSeen'
    BY <2>1, <2>2, <2>5 DEF CreatorSeen, Consistent, TypeOK, DatabaseTypeOK, RoomExists
  <2>7. QED
    BY <2>3, <2>4, <2>6 DEF Consistent
<1>6. CASE UpdateWrite(w)
  <2>1. UNCHANGED <<room_members, messages, drawn>>
    BY <1>6 DEF UpdateWrite, UpdateRoom, database
  <2>2. \A s \in Room : /\ RoomExists(s)' <=> RoomExists(s)
                        /\ RoomExists(s) => /\ rooms'[s].name = rooms[s].name
                                            /\ rooms'[s].creator = rooms[s].creator
    BY <1>6, UpdateKeepsRow
  <2>3. NoOrphans' /\ NamesUnique' /\ StoredWereDrawn'
    BY <2>1, <2>2 DEF NoOrphans, NamesUnique, StoredWereDrawn, Consistent
  <2>4. /\ req'[w].pc \notin {"delete", "row", "write"}
        /\ \A v \in Worker \ {w} : req'[v] = req[v]
    BY <1>6, AnsweredLeaves DEF UpdateWrite, Answers, Consistent
  <2>5. CreatorSeen'
    BY <2>1, <2>2, <2>4 DEF CreatorSeen, Consistent, TypeOK, DatabaseTypeOK, RoomExists
  <2>6. QED
    BY <2>3, <2>5 DEF Consistent
<1>7. QED
  BY <1>1, <1>2, <1>3, <1>4, <1>5, <1>6

\* The invariant is inductive.
LEMMA ConsistentNext == Consistent /\ [Next]_vars => Consistent'
<1> SUFFICES ASSUME Consistent, [Next]_vars
             PROVE  Consistent'
  OBVIOUS
<1>1. TypeOK'
  BY TypeNext DEF Consistent
<1>2. ASSUME NEW r \in Room, HubSaves(r)
      PROVE  Consistent'
  <2>1. NoOrphans' /\ UNCHANGED <<rooms, drawn, req>>
    BY <1>2 DEF HubSaves, SaveMessage, NoOrphans, Consistent, RoomExists, TypeOK,
                DatabaseTypeOK
  <2>2. QED
    BY <1>1, <2>1, RoomsUntouched DEF Consistent
<1>3. CASE Restart
  <2>1. \A w \in Worker : req'[w].pc = "idle"
    BY <1>3 DEF Restart, NoRequest
  <2>2. NoOrphans'
    BY <1>3 DEF Restart, NoOrphans, Consistent, RoomExists, database
  <2>3. QED
    BY <1>1, <1>3, <2>1, <2>2, RoomsUntouched DEF Restart, database, Consistent
<1>4. CASE UNCHANGED vars
  <2>1. NoOrphans'
    BY <1>4 DEF vars, NoOrphans, Consistent, RoomExists, database
  <2>2. QED
    BY <1>1, <1>4, <2>1, RoomsUntouched DEF vars, database, Consistent
<1>5. QED
  BY <1>1, <1>2, <1>3, <1>4, ReadsKeepConsistency, WritesKeepConsistency
     DEF Next, Handler

\* The inductive invariant holds in every reachable state.
THEOREM ConsistentAlways == Spec => []Consistent
<1>1. QED
  BY ConsistentInit, ConsistentNext, PTL DEF Spec

-----------------------------------------------------------------------------
(* The properties.                                                         *)

\* No member or message is stored without its room, whatever handlers and
\* saves of the hub were under way when the room was deleted.
THEOREM NeverOrphans == Spec => []NoOrphans
<1>1. Consistent => NoOrphans
  BY DEF Consistent
<1>2. QED
  BY <1>1, ConsistentAlways, PTL

\* The only steps that write the table of rooms.
LEMMA RoomsStep ==
    ASSUME Consistent, [Next]_vars
    PROVE  \/ UNCHANGED rooms
           \/ \E w \in Worker : \/ CreateInsert(w)
                               \/ DeleteRow(w) \/ UpdateWrite(w)
BY DEF Next, Handler, Receive, Reply, HistoryRead, JoinExists, JoinRecheck,
       LeaveExists, DeleteExists, DeleteCreator, UpdateExists, UpdateCreator,
       UpdateReadRow, HistoryExists, HistoryMember, Check, CreateEnrol, JoinAdd,
       LeaveRemove, AddRoomMember, RemoveRoomMember, HubSaves, SaveMessage,
       Restart, vars, database

\* An insertion writes a room that was not stored.
LEMMA InsertIsNew ==
    ASSUME Consistent, NEW w \in Worker, CreateInsert(w),
           NEW r \in Room, RoomExists(r)
    PROVE  rooms'[r] = rooms[r]
<1>1. PICK s \in Room :
         IF CanCreateRoom(s, req[w].name)
         THEN CreateRoom(s, [creator |-> req[w].user, name |-> req[w].name,
                             text |-> req[w].text])
         ELSE UNCHANGED database
  BY DEF CreateInsert
<1>2. CASE CanCreateRoom(s, req[w].name)
  BY <1>1, <1>2 DEF CreateRoom, CanCreateRoom, Consistent, TypeOK, DatabaseTypeOK
<1>3. CASE ~CanCreateRoom(s, req[w].name)
  BY <1>1, <1>3 DEF database
<1>4. QED
  BY <1>2, <1>3

\* A stored room changes only in the last, successful step of its creator's
\* update or deletion: the check made calls earlier is still true.
THEOREM OnlyCreatorEverChanges == Spec => OnlyCreatorChanges
<1> DEFINE A == \A r \in Room :
           RoomExists(r) /\ rooms'[r] # rooms[r] =>
               \E w \in Worker :
                   /\ req[w].room = r
                   /\ req[w].user = rooms[r].creator
                   /\ At(w, "update", "write") \/ At(w, "delete", "delete")
                   /\ req'[w].pc = "ok"
<1>1. Consistent /\ [Next]_vars => A
  <2> SUFFICES ASSUME Consistent, [Next]_vars, NEW r \in Room, RoomExists(r),
                      rooms'[r] # rooms[r]
               PROVE  \E w \in Worker :
                          /\ req[w].room = r
                          /\ req[w].user = rooms[r].creator
                          /\ At(w, "update", "write") \/ At(w, "delete", "delete")
                          /\ req'[w].pc = "ok"
    OBVIOUS
  <2>1. PICK w \in Worker : CreateInsert(w) \/ DeleteRow(w) \/ UpdateWrite(w)
    BY RoomsStep
  <2>2. ~CreateInsert(w)
    BY InsertIsNew
  <2>3. CASE DeleteRow(w)
    <3>1. req[w].room = r
      BY <2>3 DEF DeleteRow, DeleteRoom, Consistent, TypeOK, DatabaseTypeOK
    <3>2. req[w].user = rooms[r].creator
      BY <2>3, <3>1 DEF DeleteRow, At, Consistent, CreatorSeen
    <3>3. req'[w].pc = "ok"
      BY <2>3 DEF DeleteRow, Goto, Moved, Answers, Consistent, TypeOK
    <3>4. QED
      BY <2>3, <3>1, <3>2, <3>3 DEF DeleteRow
  <2>4. CASE UpdateWrite(w)
    <3>1. req[w].room = r
      BY <2>4, UpdateKeepsRow
    <3>2. req[w].user = rooms[r].creator
      BY <2>4, <3>1 DEF UpdateWrite, At, Consistent, CreatorSeen
    <3>3. CanUpdateRoom(r, req[w].name)
      BY <2>4, <3>1 DEF UpdateWrite, database
    <3>4. req'[w].pc = "ok"
      BY <2>4, <3>1, <3>3 DEF UpdateWrite, Goto, Moved, Answers, Consistent, TypeOK
    <3>5. QED
      BY <2>4, <3>1, <3>2, <3>4 DEF UpdateWrite
  <2>5. QED
    BY <2>1, <2>2, <2>3, <2>4
<1>2. QED
  BY <1>1, ConsistentAlways, PTL DEF Spec, OnlyCreatorChanges

\* The name an update writes back is never an old one.
THEOREM NameAndCreatorAlwaysKept == Spec => NameAndCreatorKept
<1> DEFINE A == \A r \in Room :
           RoomExists(r) /\ rooms'[r] # NoRow =>
               /\ rooms'[r].name = rooms[r].name
               /\ rooms'[r].creator = rooms[r].creator
<1>1. Consistent /\ [Next]_vars => A
  <2> SUFFICES ASSUME Consistent, [Next]_vars, NEW r \in Room, RoomExists(r),
                      rooms'[r] # NoRow
               PROVE  /\ rooms'[r].name = rooms[r].name
                      /\ rooms'[r].creator = rooms[r].creator
    OBVIOUS
  <2>1. CASE UNCHANGED rooms
    BY <2>1
  <2>2. ASSUME NEW w \in Worker, CreateInsert(w)
        PROVE  rooms'[r] = rooms[r]
    BY <2>2, InsertIsNew
  <2>3. ASSUME NEW w \in Worker, DeleteRow(w)
        PROVE  rooms'[r] = rooms[r]
    BY <2>3 DEF DeleteRow, DeleteRoom, Consistent, TypeOK, DatabaseTypeOK
  <2>4. QED
    BY <2>1, <2>2, <2>3, RoomsStep, UpdateKeepsRow
<1>2. QED
  BY <1>1, ConsistentAlways, PTL DEF Spec, NameAndCreatorKept

-----------------------------------------------------------------------------
(* The services implement RoomDirectory.                                   *)

\* The status of a request that goes to step or answer pc.
StatusAt(pc) ==
    IF pc \in Answers THEN pc
    ELSE IF pc \in {"enrol", "read"} THEN "half" ELSE "pending"

\* Where a request stands after a step.
LEMMA StatusOfMoved ==
    ASSUME NEW q, NEW pc \in Answers \cup StepNames, NEW r, NEW n, NEW t
    PROVE  CallOf(Moved(q, pc, r, n, t)) =
               [op |-> q.op, user |-> q.user, room |-> r, status |-> StatusAt(pc)]
BY DEF CallOf, StatusOf, StatusAt, Moved, Answers, StepNames

\* A step that only moves on changes at most the status of the call.
LEMMA GotoMaps ==
    ASSUME TypeOK, NEW w \in Worker, NEW pc \in Answers \cup StepNames, Goto(w, pc)
    PROVE  Calls' = [Calls EXCEPT ![w] = [op |-> req[w].op, user |-> req[w].user,
                                          room |-> req[w].room,
                                          status |-> StatusAt(pc)]]
<1> DEFINE q == req[w]
           new == IF pc \in Answers THEN Moved(q, pc, q.room, NoName, NoText)
                                    ELSE Moved(q, pc, q.room, q.name, q.text)
<1>1. req' = [req EXCEPT ![w] = new]
  BY DEF Goto
<1>2. CallOf(new) = [op |-> q.op, user |-> q.user, room |-> q.room,
                     status |-> StatusAt(pc)]
  BY StatusOfMoved
<1>3. Calls' = [v \in Worker |-> CallOf(req'[v])]
  BY DEF Calls, CallOf, StatusOf
<1> HIDE DEF new
<1>4. QED
  BY <1>1, <1>2, <1>3 DEF Calls, TypeOK

\* An answer only changes the status.
LEMMA AnswerMaps ==
    ASSUME TypeOK, NEW w \in Worker, NEW answer \in Answers, Goto(w, answer)
    PROVE  Calls' = [Calls EXCEPT ![w].status = answer]
<1> DEFINE call == [op |-> req[w].op, user |-> req[w].user, room |-> req[w].room,
                    status |-> answer]
<1>1. Calls' = [Calls EXCEPT ![w] = call]
  BY GotoMaps DEF StatusAt
<1>2. [Calls[w] EXCEPT !.status = answer] = call
  BY DEF Calls, CallOf
<1>3. QED
  BY <1>1, <1>2

\* What RoomDirectory sees of a worker at a step.
LEMMA StepMaps ==
    ASSUME TypeOK, NEW w \in Worker, NEW op \in Ops, NEW pc \in StepNames,
           At(w, op, pc)
    PROVE  /\ Calls[w].op = op /\ Calls[w].user = req[w].user
           /\ Calls[w].room = req[w].room /\ Calls[w].status = StatusAt(pc)
           /\ req[w].user \in User
           /\ op # "create" \/ pc = "enrol" => req[w].room \in Room
BY BusyRequest DEF Calls, CallOf, StatusOf, StatusAt, At, AnyRequest, RequestOK,
                   Answers, StepNames

\* A room has an owner in the directory if and only if it is stored.
LEMMA OwnerOfRoom ==
    ASSUME TypeOK, NEW r \in Room
    PROVE  /\ Owner[r] # NoUser <=> RoomExists(r)
           /\ RoomExists(r) => Owner[r] = rooms[r].creator
BY DEF Owner, RoomExists, TypeOK, DatabaseTypeOK, Row

\* Owners are read off the table of rooms alone.
LEMMA OwnerKept == UNCHANGED rooms => Owner' = Owner
BY DEF Owner, RoomExists

\* A read is a step of the directory that changes nothing, or a refusal.
LEMMA ChecksMap ==
    ASSUME Consistent, NEW w \in Worker,
           \/ JoinExists(w) \/ JoinRecheck(w) \/ LeaveExists(w)
           \/ DeleteExists(w) \/ DeleteCreator(w)
           \/ UpdateExists(w) \/ UpdateCreator(w)
           \/ HistoryExists(w)
    PROVE  Directory!Refuse(w) \/ UNCHANGED Directory!dirVars
<1> DEFINE q == req[w]
<1>1. PICK op \in Ops \ {"create"}, pc \in {"exists", "recheck", "creator"} :
        /\ At(w, op, pc)
        /\ UNCHANGED database
        /\ \/ \E next \in {"recheck", "add", "remove", "creator", "delete", "row",
                            "write", "member"} : Goto(w, next)
           \/ ~RoomExists(q.room) /\ Goto(w, "not_found")
           \/ /\ op \in {"delete", "update"}
              /\ ~IsCreator(q.room, q.user) /\ Goto(w, "forbidden")
  BY DEF JoinExists, JoinRecheck, LeaveExists, DeleteExists, DeleteCreator,
         UpdateExists, UpdateCreator, HistoryExists, Check, Ops
<1>2. /\ Calls[w].op = op /\ Calls[w].user = q.user /\ Calls[w].room = q.room
      /\ Calls[w].status = "pending" /\ q.room \in Room /\ q.user \in User
  BY <1>1, StepMaps DEF StepNames, StatusAt, Answers, Consistent
<1>4. UNCHANGED <<Owner, room_members>>
  BY <1>1, OwnerKept DEF database
<1>5. CASE \E next \in {"recheck", "add", "remove", "creator", "delete", "row",
                       "write", "member"} : Goto(w, next)
  <2> DEFINE call == [op |-> q.op, user |-> q.user, room |-> q.room,
                      status |-> "pending"]
  <2>1. Calls' = Calls
    <3>1. PICK next \in {"recheck", "add", "remove", "creator", "delete", "row",
                         "write", "member"} : Goto(w, next)
      BY <1>5
    <3>2. next \in StepNames /\ StatusAt(next) = "pending"
      BY DEF StepNames, StatusAt, Answers
    <3>3. Calls' = [Calls EXCEPT ![w] = call]
      BY <3>1, <3>2, GotoMaps DEF Consistent
    <3>4. Calls[w] = call
      BY <1>2 DEF Calls, CallOf
    <3>5. QED
      BY <3>3, <3>4 DEF Calls
  <2>2. QED
    BY <1>4, <2>1 DEF Directory!dirVars
<1>6. CASE ~RoomExists(q.room) /\ Goto(w, "not_found")
  <2>1. Calls' = [Calls EXCEPT ![w].status = "not_found"]
    BY <1>6, AnswerMaps DEF Answers, Consistent
  <2>2. QED
    BY <1>1, <1>2, <1>4, <1>6, <2>1, OwnerOfRoom
       DEF Directory!Refuse, Directory!Pending, Directory!There,
           Directory!Becomes, Directory!Ops, Directory!directory, Consistent, Ops
<1>7. CASE /\ op \in {"delete", "update"}
           /\ ~IsCreator(q.room, q.user) /\ Goto(w, "forbidden")
  <2>1. Calls' = [Calls EXCEPT ![w].status = "forbidden"]
    BY <1>7, AnswerMaps DEF Answers, Consistent
  <2>2. Owner[q.room] # q.user
    BY <1>2, <1>7, OwnerOfRoom DEF IsCreator, Consistent
  <2>3. QED
    BY <1>2, <1>4, <1>7, <2>1, <2>2
       DEF Directory!Refuse, Directory!Pending, Directory!Becomes,
           Directory!directory
<1>8. QED
  BY <1>1, <1>5, <1>6, <1>7

\* The steps that take effect.
LEMMA EffectsMap ==
    ASSUME Consistent, NEW w \in Worker
    PROVE  /\ CreateInsert(w) => \/ \E r \in Room : Directory!Appear(w, r)
                                 \/ Directory!Refuse(w)
           /\ CreateEnrol(w) => Directory!CreatorEnters(w)
           /\ JoinAdd(w) => Directory!Join(w) \/ Directory!Refuse(w)
           /\ LeaveRemove(w) => Directory!Leave(w)
           /\ DeleteRow(w) => Directory!Disappear(w)
<1> DEFINE q == req[w]
<1> USE DEF Consistent
<1>1. ASSUME CreateInsert(w)
      PROVE  (\E r \in Room : Directory!Appear(w, r)) \/ Directory!Refuse(w)
  <2>1. PICK r \in Room :
           IF CanCreateRoom(r, q.name)
           THEN /\ CreateRoom(r, [creator |-> q.user, name |-> q.name,
                                  text |-> q.text])
                /\ req' = [req EXCEPT ![w] = Moved(q, "enrol", r, NoName, NoText)]
           ELSE Goto(w, "failed") /\ UNCHANGED database
    BY <1>1 DEF CreateInsert
  <2>2. /\ Calls[w].op = "create" /\ Calls[w].user = q.user
        /\ Calls[w].status = "pending" /\ q.user \in User /\ q.op = "create"
    BY <1>1, StepMaps DEF CreateInsert, At, Ops, StepNames, StatusAt, Answers
  <2>3. CASE CanCreateRoom(r, q.name)
    <3> DEFINE row == [creator |-> q.user, name |-> q.name, text |-> q.text]
               new == Moved(q, "enrol", r, NoName, NoText)
    <3>1. rooms' = [rooms EXCEPT ![r] = row] /\ room_members' = room_members
      BY <2>1, <2>3 DEF CreateRoom
    <3>2. row # NoRow
      BY <1>1, BusyRequest DEF CreateInsert, At, RequestOK, AnyRequest, Row
    <3>3. Owner' = [Owner EXCEPT ![r] = q.user]
      BY <3>1, <3>2 DEF Owner, RoomExists, TypeOK, DatabaseTypeOK
    <3>4. ~RoomExists(r) /\ Owner[r] = NoUser
      BY <2>3 DEF CanCreateRoom, Owner
    <3>5. CallOf(new) = [op |-> "create", user |-> q.user, room |-> r,
                         status |-> "half"]
      BY <2>2, StatusOfMoved DEF StatusAt, StepNames, Answers
    <3>6. Calls' = [Calls EXCEPT ![w] = CallOf(new)]
      BY <2>1, <2>3 DEF Calls, CallOf, StatusOf, TypeOK
    <3>7. Directory!Appear(w, r)
      BY <2>2, <3>1, <3>3, <3>4, <3>5, <3>6
         DEF Directory!Appear, Directory!Pending, Directory!There, Calls
    <3>8. QED
      BY <3>7
  <2>4. CASE ~CanCreateRoom(r, q.name)
    <3>1. Calls' = [Calls EXCEPT ![w].status = "failed"]
      BY <2>1, <2>4, AnswerMaps DEF Answers
    <3>2. UNCHANGED <<Owner, room_members>>
      BY <2>1, <2>4, OwnerKept DEF database
    <3>3. QED
      BY <2>2, <3>1, <3>2 DEF Directory!Refuse, Directory!Pending,
                              Directory!Becomes, Directory!directory
  <2>5. QED
    BY <2>3, <2>4
<1>2. ASSUME CreateEnrol(w)
      PROVE  Directory!CreatorEnters(w)
  <2>1. /\ Calls[w].op = "create" /\ Calls[w].user = q.user
        /\ Calls[w].status = "half" /\ Calls[w].room = q.room /\ q.room \in Room
    BY <1>2, StepMaps DEF CreateEnrol, Ops, StepNames, StatusAt, Answers
  <2>2. Calls' = [Calls EXCEPT ![w].status = "ok"]
    BY <1>2, AnswerMaps DEF CreateEnrol, Answers
  <2>3. Owner' = Owner
    BY <1>2, OwnerKept DEF CreateEnrol, AddRoomMember, database
  <2>4. QED
    BY <1>2, <2>1, <2>2, <2>3, OwnerOfRoom
       DEF CreateEnrol, AddRoomMember, database, Directory!CreatorEnters,
           Directory!Halfway, Directory!There, Directory!Becomes
<1>3. ASSUME JoinAdd(w)
      PROVE  Directory!Join(w) \/ Directory!Refuse(w)
  <2>1. /\ Calls[w].op = "join" /\ Calls[w].user = q.user
        /\ Calls[w].status = "pending" /\ Calls[w].room = q.room /\ q.room \in Room
    BY <1>3, StepMaps DEF JoinAdd, Ops, StepNames, StatusAt, Answers
  <2>2. Owner' = Owner
    BY <1>3, OwnerKept DEF JoinAdd, AddRoomMember, database
  <2>3. CASE RoomExists(q.room)
    <3>1. Calls' = [Calls EXCEPT ![w].status = "ok"]
      BY <1>3, <2>3, AnswerMaps DEF JoinAdd, Answers
    <3>2. Directory!Join(w)
      BY <1>3, <2>1, <2>2, <2>3, <3>1, OwnerOfRoom
         DEF JoinAdd, AddRoomMember, Directory!Join, Directory!Pending,
             Directory!There, Directory!Becomes
    <3>3. QED
      BY <3>2
  <2>4. CASE ~RoomExists(q.room)
    <3>1. Calls' = [Calls EXCEPT ![w].status = "failed"]
      BY <1>3, <2>4, AnswerMaps DEF JoinAdd, Answers
    <3>2. QED
      BY <1>3, <2>1, <2>2, <2>4, <3>1, OwnerOfRoom
         DEF JoinAdd, database, Directory!Refuse, Directory!Pending,
             Directory!There, Directory!Becomes, Directory!directory
  <2>5. QED
    BY <2>3, <2>4
<1>4. ASSUME LeaveRemove(w)
      PROVE  Directory!Leave(w)
  <2>1. /\ Calls[w].op = "leave" /\ Calls[w].user = q.user
        /\ Calls[w].status = "pending" /\ Calls[w].room = q.room
    BY <1>4, StepMaps DEF LeaveRemove, Ops, StepNames, StatusAt, Answers
  <2>2. Calls' = [Calls EXCEPT ![w].status = "ok"]
    BY <1>4, AnswerMaps DEF LeaveRemove, Answers
  <2>3. Owner' = Owner
    BY <1>4, OwnerKept DEF LeaveRemove, RemoveRoomMember
  <2>4. QED
    BY <1>4, <2>1, <2>2, <2>3
       DEF LeaveRemove, RemoveRoomMember, Directory!Leave, Directory!Pending,
           Directory!Becomes
<1>5. ASSUME DeleteRow(w)
      PROVE  Directory!Disappear(w)
  <2>1. /\ Calls[w].op = "delete" /\ Calls[w].user = q.user
        /\ Calls[w].status = "pending" /\ Calls[w].room = q.room /\ q.room \in Room
    BY <1>5, StepMaps DEF DeleteRow, Ops, StepNames, StatusAt, Answers
  <2>2. Calls' = [Calls EXCEPT ![w].status = "ok"]
    BY <1>5, AnswerMaps DEF DeleteRow, Answers
  <2>3. Owner' = [Owner EXCEPT ![q.room] = NoUser]
    BY <1>5, <2>1 DEF DeleteRow, DeleteRoom, Owner, RoomExists, TypeOK, DatabaseTypeOK
  <2>4. RoomExists(q.room) => Owner[q.room] = q.user
    BY <1>5, <2>1, OwnerOfRoom DEF DeleteRow, At, CreatorSeen
  <2>5. QED
    BY <1>5, <2>1, <2>2, <2>3, <2>4, OwnerOfRoom
       DEF DeleteRow, DeleteRoom, Directory!Disappear, Directory!Pending,
           Directory!There, Directory!Becomes
<1>6. QED
  BY <1>1, <1>2, <1>3, <1>4, <1>5

\* The handlers of history requests and the two last steps of an update.
LEMMA AdmissionsMap ==
    ASSUME Consistent, NEW w \in Worker
    PROVE  /\ HistoryMember(w) => Directory!Admit(w) \/ Directory!Refuse(w)
           /\ HistoryRead(w) => Directory!Read(w)
           /\ UpdateReadRow(w) => Directory!Refuse(w) \/ UNCHANGED Directory!dirVars
           /\ UpdateWrite(w) => Directory!Describe(w)
<1> DEFINE q == req[w]
<1> USE DEF Consistent
<1>1. ASSUME HistoryMember(w)
      PROVE  Directory!Admit(w) \/ Directory!Refuse(w)
  <2>1. /\ Calls[w].op = "history" /\ Calls[w].user = q.user
        /\ Calls[w].status = "pending" /\ Calls[w].room = q.room /\ q.room \in Room
    BY <1>1, StepMaps DEF HistoryMember, Check, Ops, StepNames, StatusAt, Answers
  <2>2. UNCHANGED <<Owner, room_members>>
    BY <1>1, OwnerKept DEF HistoryMember, Check, database
  <2>3. CASE IsMember(q.room, q.user)
    <3>1. Goto(w, "read")
      BY <1>1, <2>3 DEF HistoryMember, Check
    <3>2. Calls' = [Calls EXCEPT ![w] = [op |-> q.op, user |-> q.user,
                                         room |-> q.room, status |-> "half"]]
      BY <3>1, GotoMaps DEF StepNames, StatusAt, Answers
    <3>3. [Calls[w] EXCEPT !.status = "half"] =
              [op |-> q.op, user |-> q.user, room |-> q.room, status |-> "half"]
      BY DEF Calls, CallOf
    <3>4. Calls' = [Calls EXCEPT ![w].status = "half"]
      BY <3>2, <3>3
    <3>5. QED
      BY <2>1, <2>2, <2>3, <3>4 DEF IsMember, Directory!Admit, Directory!Pending,
                                   Directory!Becomes, Directory!directory
  <2>4. CASE ~IsMember(q.room, q.user)
    <3>1. Calls' = [Calls EXCEPT ![w].status = "forbidden"]
      BY <1>1, <2>4, AnswerMaps DEF HistoryMember, Check, Answers
    <3>2. QED
      BY <2>1, <2>2, <2>4, <3>1 DEF IsMember, Directory!Refuse, Directory!Pending,
                                   Directory!Becomes, Directory!directory
  <2>5. QED
    BY <2>3, <2>4
<1>2. ASSUME HistoryRead(w)
      PROVE  Directory!Read(w)
  <2>1. Calls[w].op = "history" /\ Calls[w].status = "half"
    BY <1>2, StepMaps DEF HistoryRead, Ops, StepNames, StatusAt, Answers
  <2>2. Calls' = [Calls EXCEPT ![w].status = "ok"]
    BY <1>2, AnswerMaps DEF HistoryRead, Answers
  <2>3. UNCHANGED <<Owner, room_members>>
    BY <1>2, OwnerKept DEF HistoryRead, database
  <2>4. QED
    BY <2>1, <2>2, <2>3 DEF Directory!Read, Directory!Halfway, Directory!Becomes,
                           Directory!directory
<1>3. ASSUME UpdateReadRow(w)
      PROVE  Directory!Refuse(w) \/ UNCHANGED Directory!dirVars
  <2>1. /\ Calls[w].op = "update" /\ Calls[w].user = q.user
        /\ Calls[w].status = "pending" /\ Calls[w].room = q.room /\ q.room \in Room
    BY <1>3, StepMaps DEF UpdateReadRow, Ops, StepNames, StatusAt, Answers
  <2>2. UNCHANGED <<Owner, room_members>>
    BY <1>3, OwnerKept DEF UpdateReadRow, database
  <2>3. CASE RoomExists(q.room)
    <3> DEFINE new == Moved(q, "write", q.room, rooms[q.room].name, q.text)
    <3>1. req' = [req EXCEPT ![w] = new]
      BY <1>3, <2>3 DEF UpdateReadRow
    <3>2. CallOf(new) = [op |-> q.op, user |-> q.user, room |-> q.room,
                         status |-> "pending"]
      BY StatusOfMoved DEF StatusAt, StepNames, Answers
    <3>3. CallOf(new) = Calls[w]
      BY <2>1, <3>2 DEF Calls, CallOf
    <3>4. Calls' = [v \in Worker |-> CallOf(req'[v])]
      BY DEF Calls, CallOf, StatusOf
    <3> HIDE DEF new
    <3>5. Calls' = Calls
      BY <3>1, <3>3, <3>4 DEF Calls, TypeOK
    <3>6. QED
      BY <2>2, <3>5 DEF Directory!dirVars
  <2>4. CASE ~RoomExists(q.room)
    <3>1. Calls' = [Calls EXCEPT ![w].status = "failed"]
      BY <1>3, <2>4, AnswerMaps DEF UpdateReadRow, Answers
    <3>2. QED
      BY <2>1, <2>2, <2>4, <3>1, OwnerOfRoom
         DEF Directory!Refuse, Directory!Pending, Directory!There,
             Directory!Becomes, Directory!directory
  <2>5. QED
    BY <2>3, <2>4
<1>4. ASSUME UpdateWrite(w)
      PROVE  Directory!Describe(w)
  <2>1. /\ Calls[w].op = "update" /\ Calls[w].user = q.user
        /\ Calls[w].status = "pending" /\ Calls[w].room = q.room /\ q.room \in Room
    BY <1>4, StepMaps DEF UpdateWrite, Ops, StepNames, StatusAt, Answers
  <2>2. RoomExists(q.room) =>
            rooms[q.room].creator = q.user /\ q.name = rooms[q.room].name
    BY <1>4, <2>1 DEF UpdateWrite, At, CreatorSeen
  <2>3. CanUpdateRoom(q.room, q.name)
    BY <2>1, <2>2 DEF CanUpdateRoom, NameTaken, NamesUnique
  <2>4. Calls' = [Calls EXCEPT ![w].status = "ok"]
    BY <1>4, <2>3, AnswerMaps DEF UpdateWrite, Answers
  <2>5. \A s \in Room : /\ RoomExists(s)' <=> RoomExists(s)
                        /\ RoomExists(s) => rooms'[s].creator = rooms[s].creator
    BY <1>4, UpdateKeepsRow
  <2>6. Owner' = Owner
    BY <2>5 DEF Owner, RoomExists
  <2>7. room_members' = room_members
    BY <1>4 DEF UpdateWrite, UpdateRoom, database
  <2>8. QED
    BY <2>1, <2>2, <2>4, <2>6, <2>7, OwnerOfRoom
       DEF Directory!Describe, Directory!Pending, Directory!There,
           Directory!Becomes, Directory!directory
<1>5. QED
  BY <1>1, <1>2, <1>3, <1>4

\* A worker without a request is a directory client without a call.
LEMMA IdleMaps == CallOf(NoRequest) = Directory!NoCall
BY DEF CallOf, StatusOf, NoRequest, Directory!NoCall, Answers

\* A request arrives and an answer leaves.
LEMMA EndsMap ==
    ASSUME Consistent, NEW w \in Worker
    PROVE  /\ Receive(w) => Directory!Arrive(w)
           /\ Reply(w) => Directory!Return(w)
<1> USE DEF Consistent
<1>1. ASSUME Receive(w)
      PROVE  Directory!Arrive(w)
  <2>0. PICK op \in Ops, u \in User : \E q \in Request(op, u) :
           \/ req' = [req EXCEPT ![w] = q]
           \/ req' = [req EXCEPT ![w] = Rejected(q)]
    BY <1>1 DEF Receive
  <2>1. PICK q \in Request(op, u) :
           \/ req' = [req EXCEPT ![w] = q]
           \/ req' = [req EXCEPT ![w] = Rejected(q)]
    BY <2>0
  <2>2. /\ q.op = op /\ q.user = u
        /\ q.room \in IF op = "create" THEN {NoRoom} ELSE Room
        /\ q.pc \in {"insert", "exists"}
    BY DEF Request
  <2>3. CallOf(q) = [op |-> op, user |-> u, room |-> q.room, status |-> "pending"]
    BY <2>2 DEF CallOf, StatusOf, Answers
  <2>4. CallOf(Rejected(q)) = [op |-> op, user |-> u, room |-> q.room,
                               status |-> "rejected"]
    BY <2>2 DEF Rejected, Moved, CallOf, StatusOf, Answers
  <2>5. Calls[w] = Directory!NoCall
    BY <1>1, IdleMaps DEF Receive, Calls
  <2>6. UNCHANGED <<Owner, room_members>>
    BY <1>1, OwnerKept DEF Receive, database
  <2>7. Calls' = [v \in Worker |-> CallOf(req'[v])]
    BY DEF Calls, CallOf, StatusOf
  <2>8. PICK status \in {"pending", "rejected"} :
           Calls' = [Calls EXCEPT ![w] = [op |-> op, user |-> u, room |-> q.room,
                                          status |-> status]]
    <3>1. CASE req' = [req EXCEPT ![w] = q]
      BY <2>3, <2>7, <3>1 DEF Calls, TypeOK
    <3>2. CASE req' = [req EXCEPT ![w] = Rejected(q)]
      BY <2>4, <2>7, <3>2 DEF Calls, TypeOK
    <3>3. QED
      BY <2>1, <3>1, <3>2
  <2>9. QED
    BY <2>2, <2>5, <2>6, <2>8 DEF Directory!Arrive, Directory!directory,
                                 Directory!Ops, Ops
<1>2. ASSUME Reply(w)
      PROVE  Directory!Return(w)
  <2>1. Calls[w].status = req[w].pc
    BY <1>2 DEF Reply, Calls, CallOf, StatusOf, Answers
  <2>2. Calls' = [v \in Worker |-> CallOf(req'[v])]
    BY DEF Calls, CallOf, StatusOf
  <2>3. Calls' = [Calls EXCEPT ![w] = Directory!NoCall]
    BY <1>2, <2>2, IdleMaps DEF Reply, Calls, TypeOK
  <2>4. UNCHANGED <<Owner, room_members>>
    BY <1>2, OwnerKept DEF Reply, database
  <2>5. QED
    BY <1>2, <2>1, <2>3, <2>4 DEF Reply, Answers, Directory!Return,
                                 Directory!Refusals, Directory!directory
<1>3. QED
  BY <1>1, <1>2

\* The initial states of the services are initial states of RoomDirectory.
LEMMA DirectoryInit == Init => Directory!DirInit
<1> SUFFICES ASSUME Init
             PROVE  Directory!DirInit
  OBVIOUS
<1>1. Owner = [r \in Room |-> NoUser]
  BY DEF Init, DatabaseInit, Owner, RoomExists
<1>2. Calls = [w \in Worker |-> Directory!NoCall]
  BY IdleMaps DEF Init, Calls
<1>3. QED
  BY <1>1, <1>2 DEF Init, DatabaseInit, Directory!DirInit

\* Each call of the code is a step of RoomDirectory or none.
LEMMA DirectoryNext ==
    ASSUME Consistent, [Next]_vars
    PROVE  [Directory!DirNext]_(Directory!dirVars)
<1>1. ASSUME NEW w \in Worker, Receive(w) \/ Handler(w)
      PROVE  [Directory!DirNext]_(Directory!dirVars)
  BY <1>1, ChecksMap, EffectsMap, AdmissionsMap, EndsMap
     DEF Handler, Directory!DirNext
<1>2. ASSUME NEW r \in Room, HubSaves(r)
      PROVE  UNCHANGED Directory!dirVars
  <2>1. UNCHANGED <<Owner, room_members>>
    BY <1>2, OwnerKept DEF HubSaves, SaveMessage
  <2>2. UNCHANGED Calls
    BY <1>2 DEF HubSaves, Calls, CallOf, StatusOf
  <2>3. QED
    BY <2>1, <2>2 DEF Directory!dirVars
<1>3. CASE Restart
  <2>1. UNCHANGED <<Owner, room_members>>
    BY <1>3, OwnerKept DEF Restart, database
  <2>2. Calls' = [w \in Worker |-> CallOf(req'[w])]
    BY DEF Calls, CallOf, StatusOf
  <2>3. Calls' = [w \in Worker |-> Directory!NoCall]
    BY <1>3, <2>2, IdleMaps DEF Restart
  <2>4. QED
    BY <2>1, <2>3 DEF Directory!DirNext, Directory!Forget, Directory!directory
<1>4. CASE UNCHANGED vars
  <2>1. UNCHANGED <<Owner, room_members>>
    BY <1>4, OwnerKept DEF vars, database
  <2>2. UNCHANGED Calls
    BY <1>4 DEF vars, Calls, CallOf, StatusOf
  <2>3. QED
    BY <2>1, <2>2 DEF Directory!dirVars
<1>5. QED
  BY <1>1, <1>2, <1>3, <1>4 DEF Next

\* Every request takes effect, and its answer becomes true, at one instant,
\* for any number of workers, users and rooms.
THEOREM ServicesImplementDirectory == Spec => ImplementsDirectory
<1>1. QED
  BY ConsistentAlways, DirectoryInit, DirectoryNext, PTL
     DEF Spec, ImplementsDirectory, Directory!DirSpec

=============================================================================
