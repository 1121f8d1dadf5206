-------------------------- MODULE ThreadPoolProofs --------------------------
(***************************************************************************)
(* Proofs about the thread pool for any number of workers, callers and     *)
(* tasks.                                                                  *)
(***************************************************************************)
EXTENDS ThreadPool, TLAPS

-----------------------------------------------------------------------------
(* Types.                                                                  *)

\* A busy worker holds a task.
BusyHoldsTask == \A w \in Worker : worker[w] = "busy" => current[w] \in Task

Typed == TypeOK /\ BusyHoldsTask

\* The pool starts with an empty queue.
LEMMA TypedInit == Init => Typed
<1>1. <<>> \in Seq(Task)
  OBVIOUS
<1>2. QED
  BY <1>1 DEF Init, Typed, TypeOK, BusyHoldsTask

\* Every step keeps the types, and a busy worker holds a task.
LEMMA TypedNext == Typed /\ [Next]_vars => Typed'
<1> SUFFICES ASSUME Typed, [Next]_vars
             PROVE  Typed'
  OBVIOUS
<1> USE DEF Typed, TypeOK, BusyHoldsTask
<1>1. ASSUME NEW w \in Worker, WorkerStep(w) \/ SpuriousWakeup(w)
      PROVE  Typed'
  <2>1. CASE Wait(w)
    BY <2>1 DEF Wait
  <2>2. CASE Take(w)
    <3>1. Head(tasks) \in Task /\ Tail(tasks) \in Seq(Task)
      BY <2>2 DEF Take
    <3>2. started' \in Seq(Task)
      BY <2>2, <3>1 DEF Take
    <3>3. QED
      BY <2>2, <3>1, <3>2 DEF Take, Popped
  <2>3. CASE Finish(w)
    BY <2>3 DEF Finish, Ran
  <2>4. CASE Exit(w)
    BY <2>4 DEF Exit
  <2>5. CASE SpuriousWakeup(w)
    BY <2>5 DEF SpuriousWakeup
  <2>6. QED
    BY <1>1, <2>1, <2>2, <2>3, <2>4, <2>5 DEF WorkerStep
<1>2. ASSUME NEW c \in Caller, CallerStep(c)
      PROVE  Typed'
  <2>1. ASSUME NEW t \in Task, Enqueue(c, t)
        PROVE  Typed'
    BY <2>1 DEF Enqueue
  <2>2. ASSUME NEW t \in Task, EnqueueThrows(c, t)
        PROVE  Typed'
    BY <2>2 DEF EnqueueThrows
  <2>3. CASE NotifyOne(c)
    BY <2>3 DEF NotifyOne, WakeOne
  <2>4. QED
    BY <1>2, <2>1, <2>2, <2>3 DEF CallerStep
<1>3. CASE OwnerStep
  BY <1>3 DEF OwnerStep, SetStop, NotifyAll, WakeAll, Join
<1>4. CASE Destroyed \/ UNCHANGED vars
  BY <1>4 DEF Destroyed, vars
<1>5. QED
  BY <1>1, <1>2, <1>3, <1>4 DEF Next

\* A worker that runs has a task to run: TypeOK made inductive.
THEOREM TypedAlways == Spec => []Typed
BY TypedInit, TypedNext, PTL DEF Spec

\* The variables keep their types.
THEOREM TypeCorrect == Spec => []TypeOK
<1>1. Typed => TypeOK
  BY DEF Typed
<1>2. QED
  BY <1>1, TypedAlways, PTL

-----------------------------------------------------------------------------
(* No lost wakeup.  Only Wait puts a worker to sleep, and it needs an empty  *)
(* queue; only Enqueue fills an empty queue, and it leaves a notification    *)
(* behind; only NotifyOne consumes that, and it wakes a sleeper.             *)

\* Whoever fills the queue has still to notify while somebody sleeps.
LEMMA WakeupNext == Typed /\ NoLostWakeup /\ [Next]_vars => NoLostWakeup'
<1> SUFFICES ASSUME Typed, NoLostWakeup, [Next]_vars
             PROVE  NoLostWakeup'
  OBVIOUS
<1> USE DEF NoLostWakeup, Typed, TypeOK
<1>1. ASSUME NEW w \in Worker, WorkerStep(w) \/ SpuriousWakeup(w)
      PROVE  NoLostWakeup'
  BY <1>1 DEF WorkerStep, Wait, Take, Finish, Exit, SpuriousWakeup
<1>2. ASSUME NEW c \in Caller, CallerStep(c)
      PROVE  NoLostWakeup'
  <2>1. ASSUME NEW t \in Task, Enqueue(c, t)
        PROVE  NoLostWakeup'
    BY <2>1 DEF Enqueue
  <2>2. ASSUME NEW t \in Task, EnqueueThrows(c, t)
        PROVE  NoLostWakeup'
    BY <2>2 DEF EnqueueThrows
  <2>3. CASE NotifyOne(c)
    <3>1. CASE \E w \in Worker : worker[w] = "waiting"
      <4>1. PICK w \in Worker : worker' = [worker EXCEPT ![w] = "check"]
        BY <2>3, <3>1 DEF NotifyOne, WakeOne
      <4>2. QED
        BY <4>1
    <3>2. CASE \A w \in Worker : worker[w] # "waiting"
      BY <2>3, <3>2, PoolAssumption DEF NotifyOne, WakeOne
    <3>3. QED
      BY <3>1, <3>2
  <2>4. QED
    BY <1>2, <2>1, <2>2, <2>3 DEF CallerStep
<1>3. CASE OwnerStep
  <2>1. CASE SetStop
    BY <2>1 DEF SetStop
  <2>2. CASE NotifyAll
    BY <2>2, PoolAssumption DEF NotifyAll, WakeAll
  <2>3. CASE Join
    BY <2>3, PoolAssumption DEF Join
  <2>4. QED
    BY <1>3, <2>1, <2>2, <2>3 DEF OwnerStep
<1>4. CASE Destroyed \/ UNCHANGED vars
  BY <1>4 DEF Destroyed, vars
<1>5. QED
  BY <1>1, <1>2, <1>3, <1>4 DEF Next

\* Never is something queued while every worker sleeps and no notification is
\* on its way.
THEOREM NeverLosesWakeup == Spec => []NoLostWakeup
<1>1. Init => NoLostWakeup
  BY DEF Init, NoLostWakeup
<1>2. QED
  BY <1>1, WakeupNext, TypedAlways, PTL DEF Spec

-----------------------------------------------------------------------------
(* Order and conservation of the tasks.                                    *)

\* Moving the head of one sequence to the end of another keeps their
\* concatenation.
LEMMA HeadMoves ==
    ASSUME NEW S, NEW s \in Seq(S), NEW q \in Seq(S), q # <<>>
    PROVE  Append(s, Head(q)) \o Tail(q) = s \o q
OBVIOUS

\* Tasks are appended when accepted and removed at the front when started.
LEMMA FifoNext == Typed /\ FifoOnce /\ [Next]_vars => FifoOnce'
<1> SUFFICES ASSUME Typed, FifoOnce, [Next]_vars
             PROVE  FifoOnce'
  OBVIOUS
<1>1. ASSUME NEW w \in Worker, Take(w)
      PROVE  FifoOnce'
  <2>1. /\ started \in Seq(Task) /\ tasks \in Seq(Task) /\ tasks # <<>>
        /\ accepted = started \o tasks
    BY <1>1 DEF Take, FifoOnce, Typed, TypeOK
  <2>2. Append(started, Head(tasks)) \o Tail(tasks) = started \o tasks
    BY <2>1, HeadMoves
  <2>3. /\ started' = Append(started, Head(tasks))
        /\ tasks' = Tail(tasks) /\ accepted' = accepted
    BY <1>1 DEF Take, Popped
  <2>4. QED
    BY <2>1, <2>2, <2>3, Zenon DEF FifoOnce
<1>2. ASSUME NEW c \in Caller, NEW t \in Task, Enqueue(c, t)
      PROVE  FifoOnce'
  <2>1. /\ started \in Seq(Task) /\ tasks \in Seq(Task)
        /\ accepted = started \o tasks
    BY DEF FifoOnce, Typed, TypeOK
  <2>2. Append(started \o tasks, t) = started \o Append(tasks, t)
    BY <2>1
  <2>3. /\ accepted' = Append(accepted, t) /\ tasks' = Append(tasks, t)
        /\ started' = started
    BY <1>2 DEF Enqueue
  <2>4. QED
    BY <2>1, <2>2, <2>3, Zenon DEF FifoOnce
<1>3. CASE UNCHANGED <<tasks, accepted, started>>
  BY <1>3 DEF FifoOnce
<1>4. QED
  BY <1>1, <1>2, <1>3
     DEF Next, WorkerStep, Wait, Finish, Exit, SpuriousWakeup, CallerStep,
         EnqueueThrows, NotifyOne, OwnerStep, SetStop, NotifyAll, Join,
         Destroyed, vars

\* Tasks start in the order they were accepted, each once, and none is lost.
THEOREM AlwaysFifoOnce == Spec => []FifoOnce
<1>1. Init => FifoOnce
  <2>1. <<>> \in Seq(Task) /\ <<>> \o <<>> = <<>>
    OBVIOUS
  <2>2. QED
    BY <2>1 DEF Init, FifoOnce
<1>2. QED
  BY <1>1, FifoNext, TypedAlways, PTL DEF Spec

\* A task that started is being run or has its result; a worker that left
\* found the pool stopped and the queue empty, and nothing is accepted since.
Accounted ==
    /\ \A i \in DOMAIN started :
           \/ started[i] \in done
           \/ \E w \in Worker : worker[w] = "busy" /\ current[w] = started[i]
    /\ \A w \in Worker : worker[w] = "exited" => stop /\ tasks = <<>>
    /\ owner = "destroyed" => \A w \in Worker : worker[w] = "exited"

\* What was started is done or in the hands of a worker, after every step.
LEMMA AccountedNext == Typed /\ Accounted /\ [Next]_vars => Accounted'
<1> SUFFICES ASSUME Typed, Accounted, [Next]_vars
             PROVE  Accounted'
  OBVIOUS
<1> USE DEF Typed, TypeOK, Accounted
<1>1. ASSUME NEW w \in Worker, Take(w)
      PROVE  Accounted'
  <2>1. \A v \in Worker : worker[v] # "exited"
    BY <1>1 DEF Take
  <2>2. ASSUME NEW i \in DOMAIN started'
        PROVE  \/ started'[i] \in done'
               \/ \E v \in Worker : worker'[v] = "busy" /\ current'[v] = started'[i]
    <3>1. CASE i \in DOMAIN started
      <4>1. started'[i] = started[i]
        BY <1>1, <3>1 DEF Take
      <4>2. \A v \in Worker : worker[v] = "busy" =>
                worker'[v] = "busy" /\ current'[v] = current[v]
        BY <1>1 DEF Take
      <4>3. QED
        BY <1>1, <3>1, <4>1, <4>2 DEF Take
    <3>2. CASE i \notin DOMAIN started
      <4>1. started'[i] = Head(tasks)
        BY <1>1, <2>2, <3>2 DEF Take
      <4>2. worker'[w] = "busy" /\ current'[w] = Head(tasks)
        BY <1>1 DEF Take
      <4>3. QED
        BY <4>1, <4>2
    <3>3. QED
      BY <3>1, <3>2
  <2>3. QED
    BY <1>1, <2>1, <2>2 DEF Take
<1>2. ASSUME NEW w \in Worker, Finish(w)
      PROVE  Accounted'
  <2>1. \A v \in Worker : worker[v] = "busy" =>
            \/ current[v] \in done'
            \/ worker'[v] = "busy" /\ current'[v] = current[v]
    BY <1>2 DEF Finish, Ran
  <2>2. QED
    BY <1>2, <2>1 DEF Finish, Ran
<1>3. ASSUME NEW w \in Worker, Wait(w) \/ Exit(w) \/ SpuriousWakeup(w)
      PROVE  Accounted'
  <2>1. \A v \in Worker : worker[v] = "busy" => worker'[v] = "busy"
    BY <1>3 DEF Wait, Exit, SpuriousWakeup
  <2>2. \A v \in Worker : worker'[v] = "exited" => stop /\ tasks = <<>>
    BY <1>3 DEF Wait, Exit, SpuriousWakeup, MayExit
  <2>3. \A v \in Worker : worker[v] = "exited" => worker'[v] = "exited"
    BY <1>3 DEF Wait, Exit, SpuriousWakeup
  <2>4. UNCHANGED <<tasks, stop, current, owner, started, done>>
    BY <1>3 DEF Wait, Exit, SpuriousWakeup
  <2>5. QED
    BY <2>1, <2>2, <2>3, <2>4
<1>4. ASSUME NEW c \in Caller, CallerStep(c)
      PROVE  Accounted'
  <2>1. \A v \in Worker : /\ worker[v] = "busy" => worker'[v] = "busy"
                          /\ worker[v] = "exited" <=> worker'[v] = "exited"
    BY <1>4 DEF CallerStep, Enqueue, EnqueueThrows, NotifyOne, WakeOne
  <2>2. /\ stop => tasks' = tasks
        /\ UNCHANGED <<stop, current, owner, started, done>>
    BY <1>4 DEF CallerStep, Enqueue, EnqueueThrows, NotifyOne
  <2>3. QED
    BY <2>1, <2>2
<1>5. CASE OwnerStep
  BY <1>5 DEF OwnerStep, SetStop, NotifyAll, WakeAll, Join
<1>6. CASE Destroyed \/ UNCHANGED vars
  BY <1>6 DEF Destroyed, vars
<1>7. QED
  BY <1>1, <1>2, <1>3, <1>4, <1>5, <1>6 DEF Next, WorkerStep

\* When the destructor has returned, every accepted task has its result.
THEOREM AlwaysDrained == Spec => []DrainedWhenDestroyed
<1>1. Init => Accounted
  BY DEF Init, Accounted
<1>2. Typed /\ FifoOnce /\ Accounted => DrainedWhenDestroyed
  <2> SUFFICES ASSUME Typed, FifoOnce, Accounted, owner = "destroyed"
               PROVE  Elements(accepted) \subseteq done
    BY DEF DrainedWhenDestroyed
  <2>1. tasks = <<>> /\ \A w \in Worker : worker[w] = "exited"
    BY PoolAssumption DEF Accounted
  <2>2. accepted = started
    BY <2>1 DEF FifoOnce, Typed, TypeOK
  <2>3. QED
    BY <2>1, <2>2 DEF Accounted, Elements
<1>3. QED
  BY <1>1, <1>2, AccountedNext, TypedAlways, AlwaysFifoOnce, PTL DEF Spec

-----------------------------------------------------------------------------
(* Nobody waits for ever.  That the pool gets on rests on fairness, and on *)
(* some step always being there to be taken: the guards of the steps that  *)
(* Fairness counts on are these.                                           *)

CanWait(w) == worker[w] = "check" /\ ~stop /\ tasks = <<>>
CanTake(w) == worker[w] = "check" /\ tasks # <<>> /\ ~MayExit
CanFinish(w) == worker[w] = "busy"
CanExit(w) == worker[w] = "check" /\ MayExit
CanNotify(c) == caller[c] = "notify"
CanJoin ==
    /\ owner = "joining"
    /\ \A w \in Worker : worker[w] = "exited"
    /\ \A c \in Caller : caller[c] = "idle"

\* stop is what the destructor set, and once it has notified all workers none
\* sleeps, and none goes to sleep again.
StopMatches ==
    /\ stop <=> owner # "alive"
    /\ owner \in {"joining", "destroyed"} => \A w \in Worker : worker[w] # "waiting"

\* No step leaves a worker asleep for good once the destructor has notified all.
LEMMA StopMatchesNext == Typed /\ StopMatches /\ [Next]_vars => StopMatches'
<1> SUFFICES ASSUME Typed, StopMatches, [Next]_vars
             PROVE  StopMatches'
  OBVIOUS
<1> USE DEF Typed, TypeOK, StopMatches
<1>1. ASSUME NEW w \in Worker, WorkerStep(w) \/ SpuriousWakeup(w)
      PROVE  StopMatches'
  BY <1>1 DEF WorkerStep, Wait, Take, Finish, Exit, SpuriousWakeup
<1>2. ASSUME NEW c \in Caller, CallerStep(c)
      PROVE  StopMatches'
  BY <1>2 DEF CallerStep, Enqueue, EnqueueThrows, NotifyOne, WakeOne
<1>3. CASE OwnerStep
  BY <1>3 DEF OwnerStep, SetStop, NotifyAll, WakeAll, Join
<1>4. CASE Destroyed \/ UNCHANGED vars
  BY <1>4 DEF Destroyed, vars
<1>5. QED
  BY <1>1, <1>2, <1>3, <1>4 DEF Next

\* As long as something is queued, or the destructor has begun and not
\* returned, a worker, a caller or the destructor can go on.
PoolGoesOn ==
    tasks # <<>> \/ owner \in {"notify_all", "joining"} =>
        \/ \E w \in Worker : CanWait(w) \/ CanTake(w) \/ CanFinish(w) \/ CanExit(w)
        \/ \E c \in Caller : CanNotify(c)
        \/ owner = "notify_all"
        \/ CanJoin

\* Whoever is awake, or is about to be notified, finds the guard of a step true.
LEMMA GoesOn == Typed /\ NoLostWakeup /\ Accounted /\ StopMatches => PoolGoesOn
<1> SUFFICES ASSUME Typed, NoLostWakeup, Accounted, StopMatches,
                    \A c \in Caller : ~CanNotify(c), owner # "notify_all",
                    tasks # <<>> \/ owner = "joining"
             PROVE  \/ \E w \in Worker : CanTake(w) \/ CanFinish(w) \/ CanExit(w)
                    \/ CanJoin
  BY DEF PoolGoesOn
<1> USE DEF Typed, TypeOK
<1>1. \A c \in Caller : caller[c] = "idle"
  BY DEF CanNotify
<1>2. \A w \in Worker : worker[w] \in {"check", "waiting", "busy", "exited"}
  OBVIOUS
<1>3. CASE tasks # <<>>
  <2>1. PICK w \in Worker : worker[w] # "waiting"
    BY <1>1, <1>3 DEF NoLostWakeup
  <2>2. worker[w] # "exited"
    BY <1>3 DEF Accounted
  <2>3. CanTake(w) \/ CanFinish(w)
    BY <1>2, <1>3, <2>1, <2>2 DEF CanTake, CanFinish, MayExit
  <2>4. QED
    BY <2>3
<1>4. CASE tasks = <<>> /\ owner = "joining"
  <2>1. stop /\ \A w \in Worker : worker[w] # "waiting"
    BY <1>4 DEF StopMatches
  <2>2. CASE \A w \in Worker : worker[w] = "exited"
    BY <1>1, <1>4, <2>2 DEF CanJoin
  <2>3. CASE \E w \in Worker : worker[w] # "exited"
    BY <1>2, <1>4, <2>1, <2>3 DEF CanFinish, CanExit, MayExit
  <2>4. QED
    BY <2>2, <2>3
<1>5. QED
  BY <1>3, <1>4

\* No deadlock: no queued task and no destructor is ever left to threads that
\* all wait for each other, for any number of workers, callers and tasks.
THEOREM PoolNeverStuck == Spec => []PoolGoesOn
<1>1. Init => Accounted /\ StopMatches
  BY DEF Init, Accounted, StopMatches
<1>2. QED
  BY <1>1, GoesOn, AccountedNext, StopMatchesNext, TypedAlways, NeverLosesWakeup, PTL
     DEF Spec

-----------------------------------------------------------------------------
(* The pool implements Executor.                                           *)

\* An accepted task is in one place: queued once, or with one worker; and
\* what was not accepted is in none.
InOnePlace ==
    /\ \A i \in DOMAIN tasks : tasks[i] \in Elements(accepted)
    /\ \A w \in Worker : worker[w] = "busy" => current[w] \in Elements(accepted)
    /\ done \subseteq Elements(accepted)
    /\ \A i, j \in DOMAIN tasks : tasks[i] = tasks[j] => i = j
    /\ \A w \in Worker : worker[w] = "busy" => \A i \in DOMAIN tasks : tasks[i] # current[w]
    /\ \A w, v \in Worker :
        worker[w] = "busy" /\ worker[v] = "busy" /\ current[w] = current[v] => w = v

\* The elements of a sequence with one more.
LEMMA ElementsAppend ==
  ASSUME NEW S, NEW s \in Seq(S), NEW t \in S
  PROVE  Elements(Append(s, t)) = Elements(s) \cup {t}
<1>1. \A i \in DOMAIN Append(s, t) : Append(s, t)[i] \in Elements(s) \cup {t}
  BY DEF Elements
<1>2. \A i \in DOMAIN s : i \in DOMAIN Append(s, t) /\ Append(s, t)[i] = s[i]
  OBVIOUS
<1>3. Len(s) + 1 \in DOMAIN Append(s, t) /\ Append(s, t)[Len(s) + 1] = t
  OBVIOUS
<1>4. QED
  BY <1>1, <1>2, <1>3 DEF Elements

\* An accepted task stays in the queue or with one worker until it is done.
LEMMA InOnePlaceNext == Typed /\ InOnePlace /\ [Next]_vars => InOnePlace'
<1> SUFFICES ASSUME Typed, InOnePlace, [Next]_vars
             PROVE  InOnePlace'
  OBVIOUS
<1>1. ASSUME NEW w \in Worker, Take(w)
      PROVE  InOnePlace'
  <2>1. /\ tasks \in Seq(Task) /\ tasks # <<>> /\ tasks' = Tail(tasks)
        /\ worker[w] = "check" /\ UNCHANGED <<accepted, done>>
    BY <1>1 DEF Take, Popped, Typed, TypeOK
  <2>2. \A i \in DOMAIN tasks' : i + 1 \in DOMAIN tasks /\ i + 1 # 1 /\ tasks'[i] = tasks[i + 1]
    BY <2>1
  <2>3. 1 \in DOMAIN tasks /\ Head(tasks) = tasks[1]
    BY <2>1
  <2>4. /\ worker'[w] = "busy" /\ current'[w] = Head(tasks)
        /\ \A v \in Worker : v # w => worker'[v] = worker[v] /\ current'[v] = current[v]
    BY <1>1 DEF Take, Typed, TypeOK
  <2>5. \A i \in DOMAIN tasks' : tasks'[i] \in Elements(accepted) /\ tasks'[i] # Head(tasks)
    BY <2>2, <2>3 DEF InOnePlace
  <2>6. \A i, j \in DOMAIN tasks' : tasks'[i] = tasks'[j] => i = j
    <3>1. DOMAIN tasks' \subseteq Nat
      BY <2>1
    <3>2. QED
      BY <2>2, <3>1 DEF InOnePlace
  <2>7. \A v \in Worker : worker'[v] = "busy" =>
            /\ current'[v] \in Elements(accepted)
            /\ \A i \in DOMAIN tasks' : tasks'[i] # current'[v]
    BY <2>2, <2>3, <2>4, <2>5 DEF InOnePlace
  <2>8. \A u, v \in Worker :
            worker'[u] = "busy" /\ worker'[v] = "busy" /\ current'[u] = current'[v] => u = v
    BY <2>3, <2>4 DEF InOnePlace
  <2>9. QED
    BY <2>1, <2>5, <2>6, <2>7, <2>8 DEF InOnePlace
<1>2. ASSUME NEW w \in Worker, Finish(w)
      PROVE  InOnePlace'
  <2>1. /\ \A v \in Worker : worker'[v] = "busy" => worker[v] = "busy" /\ current'[v] = current[v]
        /\ worker[w] = "busy" /\ done' = done \cup {current[w]}
        /\ UNCHANGED <<tasks, accepted>>
    BY <1>2 DEF Finish, Ran, Typed, TypeOK
  <2>2. QED
    BY <2>1 DEF InOnePlace
<1>3. ASSUME NEW c \in Caller, NEW t \in Task, Enqueue(c, t)
      PROVE  InOnePlace'
  <2>1. /\ t \notin Elements(accepted)
        /\ tasks \in Seq(Task) /\ tasks' = Append(tasks, t)
        /\ accepted \in Seq(Task) /\ accepted' = Append(accepted, t)
        /\ UNCHANGED <<worker, current, done>>
    BY <1>3 DEF Enqueue, Fresh, Typed, TypeOK
  <2>2. Elements(accepted') = Elements(accepted) \cup {t}
    BY <2>1, ElementsAppend
  <2>3. \A i \in DOMAIN tasks' :
            \/ i \in DOMAIN tasks /\ tasks'[i] = tasks[i]
            \/ i = Len(tasks) + 1 /\ tasks'[i] = t
    BY <2>1
  <2>4. \A i \in DOMAIN tasks : tasks[i] # t
    BY <2>1 DEF InOnePlace
  <2>5. \A i, j \in DOMAIN tasks' : tasks'[i] = tasks'[j] => i = j
    BY <2>3, <2>4 DEF InOnePlace
  <2>6. \A i \in DOMAIN tasks' : tasks'[i] \in Elements(accepted')
    BY <2>2, <2>3 DEF InOnePlace
  <2>7. \A w \in Worker : worker[w] = "busy" =>
            /\ current[w] \in Elements(accepted')
            /\ \A i \in DOMAIN tasks' : tasks'[i] # current[w]
    BY <2>1, <2>2, <2>3 DEF InOnePlace
  <2>8. done' \subseteq Elements(accepted')
    BY <2>1, <2>2 DEF InOnePlace
  <2>9. QED
    BY <2>1, <2>5, <2>6, <2>7, <2>8 DEF InOnePlace
<1>4. ASSUME UNCHANGED <<tasks, accepted, current, done>>,
             \A w \in Worker : worker'[w] = "busy" => worker[w] = "busy"
      PROVE  InOnePlace'
  BY <1>4 DEF InOnePlace
<1>5. ASSUME NEW w \in Worker, Wait(w) \/ Exit(w) \/ SpuriousWakeup(w)
      PROVE  InOnePlace'
  <2>1. UNCHANGED <<tasks, accepted, current, done>>
    BY <1>5 DEF Wait, Exit, SpuriousWakeup
  <2>2. \A v \in Worker : worker'[v] = "busy" => worker[v] = "busy"
    BY <1>5 DEF Wait, Exit, SpuriousWakeup, Typed, TypeOK
  <2>3. QED
    BY <2>1, <2>2, <1>4
<1>6. ASSUME NEW c \in Caller, NotifyOne(c) \/ \E t \in Task : EnqueueThrows(c, t)
      PROVE  InOnePlace'
  <2>1. UNCHANGED <<tasks, accepted, current, done>>
    BY <1>6 DEF NotifyOne, EnqueueThrows
  <2>2. \A v \in Worker : worker'[v] = "busy" => worker[v] = "busy"
    BY <1>6 DEF NotifyOne, WakeOne, EnqueueThrows, Typed, TypeOK
  <2>3. QED
    BY <2>1, <2>2, <1>4
<1>7. CASE OwnerStep \/ Destroyed \/ UNCHANGED vars
  <2>1. UNCHANGED <<tasks, accepted, current, done>>
    BY <1>7 DEF OwnerStep, SetStop, NotifyAll, Join, Destroyed, vars
  <2>2. \A v \in Worker : worker'[v] = "busy" => worker[v] = "busy"
    BY <1>7 DEF OwnerStep, SetStop, NotifyAll, WakeAll, Join, Destroyed, vars
  <2>3. QED
    BY <2>1, <2>2, <1>4
<1>8. QED
  BY <1>1, <1>2, <1>3, <1>5, <1>6, <1>7 DEF Next, WorkerStep, CallerStep

\* What Executor sees of the workers.
Active == {current[w] : w \in {v \in Worker : worker[v] = "busy"}}

\* Every step of the pool is a step of Executor or none.
LEMMA StepImplements ==
  ASSUME Typed, InOnePlace, [Next]_vars
  PROVE  [Exec!ExecutorNext]_(Exec!executorVars)
<1> USE DEF Exec!executorVars
<1>1. ASSUME NEW w \in Worker, Take(w)
      PROVE  Exec!Start
  <2>1. /\ worker[w] = "check" /\ tasks # <<>> /\ tasks' = Tail(tasks)
        /\ worker'[w] = "busy" /\ current'[w] = Head(tasks)
        /\ \A v \in Worker : v # w => worker'[v] = worker[v] /\ current'[v] = current[v]
        /\ UNCHANGED <<stop, done>>
    BY <1>1 DEF Take, Popped, Typed, TypeOK
  <2>2. Active' = Active \cup {Head(tasks)}
    BY <2>1 DEF Active
  <2>3. QED
    BY <2>1, <2>2 DEF Exec!Start, Active
<1>2. ASSUME NEW w \in Worker, Finish(w)
      PROVE  Exec!Finish(current[w])
  <2>1. /\ worker[w] = "busy" /\ worker'[w] = "check"
        /\ \A v \in Worker : v # w => worker'[v] = worker[v] /\ current'[v] = current[v]
        /\ done' = done \cup {current[w]}
        /\ UNCHANGED <<stop, tasks>>
    BY <1>2 DEF Finish, Ran, Typed, TypeOK
  <2>2. current[w] \in Active
    BY <2>1 DEF Active
  <2>3. \A v \in Worker : worker[v] = "busy" /\ v # w => current[v] # current[w]
    BY <2>1 DEF InOnePlace
  <2>4. Active' = Active \ {current[w]}
    BY <2>1, <2>3 DEF Active
  <2>5. QED
    BY <2>1, <2>2, <2>4 DEF Exec!Finish, Active
<1>3. ASSUME NEW c \in Caller, NEW t \in Task, Enqueue(c, t)
      PROVE  Exec!Submit(t)
  <2>1. /\ ~stop /\ t \notin Elements(accepted) /\ tasks' = Append(tasks, t)
        /\ UNCHANGED <<stop, worker, current, done>>
    BY <1>3 DEF Enqueue, Fresh
  <2>2. t \notin Active \cup done /\ Active' = Active
    BY <2>1 DEF Active, InOnePlace
  <2>3. \A i \in DOMAIN tasks : tasks[i] # t
    BY <2>1 DEF InOnePlace
  <2>4. QED
    BY <2>1, <2>2, <2>3 DEF Exec!Submit, Active
<1>4. ASSUME SetStop
      PROVE  Exec!Close \/ UNCHANGED Exec!executorVars
  BY <1>4 DEF SetStop, Exec!Close
<1>5. ASSUME UNCHANGED <<tasks, stop, current, done>>,
             \A w \in Worker : worker'[w] = "busy" <=> worker[w] = "busy"
      PROVE  UNCHANGED Exec!executorVars
  BY <1>5
<1>6. ASSUME NEW w \in Worker, Wait(w) \/ Exit(w) \/ SpuriousWakeup(w)
      PROVE  UNCHANGED Exec!executorVars
  <2>1. UNCHANGED <<tasks, stop, current, done>>
    BY <1>6 DEF Wait, Exit, SpuriousWakeup
  <2>2. \A v \in Worker : worker'[v] = "busy" <=> worker[v] = "busy"
    BY <1>6 DEF Wait, Exit, SpuriousWakeup, Typed, TypeOK
  <2>3. QED
    BY <2>1, <2>2, <1>5
<1>7. ASSUME NEW c \in Caller, NotifyOne(c) \/ \E t \in Task : EnqueueThrows(c, t)
      PROVE  UNCHANGED Exec!executorVars
  <2>1. UNCHANGED <<tasks, stop, current, done>>
    BY <1>7 DEF NotifyOne, EnqueueThrows
  <2>2. \A v \in Worker : worker'[v] = "busy" <=> worker[v] = "busy"
    BY <1>7 DEF NotifyOne, WakeOne, EnqueueThrows, Typed, TypeOK
  <2>3. QED
    BY <2>1, <2>2, <1>5
<1>8. ASSUME NotifyAll \/ Join \/ Destroyed \/ UNCHANGED vars
      PROVE  UNCHANGED Exec!executorVars
  <2>1. UNCHANGED <<tasks, stop, current, done>>
    BY <1>8 DEF NotifyAll, Join, Destroyed, vars
  <2>2. \A v \in Worker : worker'[v] = "busy" <=> worker[v] = "busy"
    BY <1>8 DEF NotifyAll, WakeAll, Join, Destroyed, vars
  <2>3. QED
    BY <2>1, <2>2, <1>5
<1>9. QED
  <2>1. ASSUME NEW w \in Worker, Finish(w)
        PROVE  \E t \in Task : Exec!Finish(t)
    <3>1. current[w] \in Task
      BY <2>1 DEF Finish, Typed, BusyHoldsTask
    <3>2. QED
      BY <2>1, <3>1, <1>2 DEF Exec!Finish
  <2>2. ASSUME NEW c \in Caller, NEW t \in Task, Enqueue(c, t)
        PROVE  \E s \in Task : Exec!Submit(s)
    BY <2>2, <1>3
  <2> HIDE DEF Exec!executorVars
  <2>3. QED
    BY <1>1, <2>1, <2>2, <1>4, <1>6, <1>7, <1>8
       DEF Next, WorkerStep, CallerStep, OwnerStep, Exec!ExecutorNext

\* The pool implements Executor: tasks start in order, each runs once, and a
\* closed pool accepts nothing and runs what it has, whatever the threads do.
THEOREM PoolImplementsExecutor == Spec => ImplementsExecutor
<1>1. Init => InOnePlace
  <2>1. ASSUME NEW q, q = <<>>
        PROVE  DOMAIN q = {}
    BY <2>1
  <2>2. QED
    BY <2>1 DEF Init, InOnePlace
<1>2. Init => Exec!ExecutorInit
  BY DEF Init, Exec!ExecutorInit
<1>3. QED
  BY <1>1, <1>2, InOnePlaceNext, StepImplements, TypedAlways, PTL
     DEF Spec, ImplementsExecutor, Exec!ExecutorSpec
=============================================================================
