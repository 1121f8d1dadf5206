----------------------------- MODULE ThreadPool -----------------------------
(***************************************************************************)
(* src/src/utils/thread_pool.hpp: a queue guarded by queue_mutex, workers  *)
(* that sleep on a condition variable, callers of enqueue and the owner's  *)
(* destructor.  A critical section is one action.  notify_one and          *)
(* notify_all are called after the mutex was released, so they are actions *)
(* of their own, and anything may happen before them.  A notification      *)
(* wakes a thread that is waiting and is lost when none is; a woken thread *)
(* looks at the predicate again, and threads wake up without reason too.   *)
(*                                                                         *)
(* A task returns or throws; std::packaged_task catches what it throws, so *)
(* the worker cannot tell the difference.                                  *)
(***************************************************************************)
EXTENDS Sequences, Naturals, FiniteSets

CONSTANTS Worker, Caller, Task, NoTask

ASSUME PoolAssumption ==
    /\ Worker # {}          \* HttpServer is constructed with four threads
    /\ NoTask \notin Task

VARIABLES
    tasks,     \* the queue
    stop,
    worker,    \* where each worker is in its loop
    current,   \* the task a worker has taken off the queue
    caller,    \* where each calling thread is in enqueue
    owner,     \* where the owning thread is in ~ThreadPool
    accepted,  \* history: the tasks enqueue took, in order
    started,   \* history: the tasks workers took, in order
    done,      \* the tasks whose future is ready
    refused    \* the tasks enqueue threw on

vars == <<tasks, stop, worker, current, caller, owner, accepted, started, done,
          refused>>

TypeOK ==
    /\ tasks \in Seq(Task)
    /\ stop \in BOOLEAN
    /\ worker \in [Worker -> {"check", "waiting", "busy", "exited"}]
    /\ current \in [Worker -> Task \cup {NoTask}]
    /\ caller \in [Caller -> {"idle", "notify"}]
    /\ owner \in {"alive", "notify_all", "joining", "destroyed"}
    /\ accepted \in Seq(Task)
    /\ started \in Seq(Task)
    /\ done \subseteq Task
    /\ refused \subseteq Task

Init ==
    /\ tasks = <<>>
    /\ stop = FALSE
    /\ worker = [w \in Worker |-> "check"]
    /\ current = [w \in Worker |-> NoTask]
    /\ caller = [c \in Caller |-> "idle"]
    /\ owner = "alive"
    /\ accepted = <<>>
    /\ started = <<>>
    /\ done = {}
    /\ refused = {}

Elements(s) == {s[i] : i \in DOMAIN s}

Fresh(t) == t \notin Elements(accepted) \cup refused

-----------------------------------------------------------------------------
(* enqueue                                                                 *)

\* The critical section of enqueue; the call has not notified yet.
Enqueue(c, t) ==
    /\ caller[c] = "idle" /\ owner # "destroyed"
    /\ Fresh(t)
    /\ ~stop
    /\ tasks' = Append(tasks, t)
    /\ accepted' = Append(accepted, t)
    /\ caller' = [caller EXCEPT ![c] = "notify"]
    /\ UNCHANGED <<stop, worker, current, owner, started, done, refused>>

\* The same critical section throws when the pool is being destroyed.
EnqueueThrows(c, t) ==
    /\ caller[c] = "idle" /\ owner # "destroyed"
    /\ Fresh(t)
    /\ stop
    /\ refused' = refused \cup {t}
    /\ UNCHANGED <<tasks, stop, worker, current, caller, owner, accepted, started,
                   done>>

\* Variant: the notification reaches nobody.
NobodyWoken == worker' = worker

\* condition.notify_one(): some waiting thread wakes up, if there is one.
WakeOne ==
    IF \E w \in Worker : worker[w] = "waiting"
    THEN \E w \in Worker : /\ worker[w] = "waiting"
                           /\ worker' = [worker EXCEPT ![w] = "check"]
    ELSE worker' = worker

NotifyOne(c) ==
    /\ caller[c] = "notify"
    /\ WakeOne
    /\ caller' = [caller EXCEPT ![c] = "idle"]
    /\ UNCHANGED <<tasks, stop, current, owner, accepted, started, done, refused>>

-----------------------------------------------------------------------------
(* The loop of a worker.                                                   *)

\* Variant: a worker leaves as soon as the pool is stopped.
MayExitAtOnce == stop

\* What makes a worker return.
MayExit == stop /\ tasks = <<>>

\* The predicate is false: the thread sleeps and the mutex is released.
Wait(w) ==
    /\ worker[w] = "check"
    /\ ~stop /\ tasks = <<>>
    /\ worker' = [worker EXCEPT ![w] = "waiting"]
    /\ UNCHANGED <<tasks, stop, current, caller, owner, accepted, started, done,
                   refused>>

\* Variant: the task is run but stays in the queue.
LeftInQueue(s) == s

\* Variant: the youngest task is dropped from the queue.
LastDropped(s) == SubSeq(s, 1, Len(s) - 1)

\* tasks.pop()
Popped(s) == Tail(s)

Take(w) ==
    /\ worker[w] = "check"
    /\ tasks # <<>> /\ ~MayExit
    /\ current' = [current EXCEPT ![w] = Head(tasks)]
    /\ started' = Append(started, Head(tasks))
    /\ tasks' = Popped(tasks)
    /\ worker' = [worker EXCEPT ![w] = "busy"]
    /\ UNCHANGED <<stop, caller, owner, accepted, done, refused>>

Ran(w) == current[w]

\* The task ran, without the mutex, and its future is ready.
Finish(w) ==
    /\ worker[w] = "busy"
    /\ current' = [current EXCEPT ![w] = NoTask]
    /\ done' = done \cup {Ran(w)}
    /\ worker' = [worker EXCEPT ![w] = "check"]
    /\ UNCHANGED <<tasks, stop, caller, owner, accepted, started, refused>>

Exit(w) ==
    /\ worker[w] = "check"
    /\ MayExit
    /\ worker' = [worker EXCEPT ![w] = "exited"]
    /\ UNCHANGED <<tasks, stop, current, caller, owner, accepted, started, done,
                   refused>>

SpuriousWakeup(w) ==
    /\ worker[w] = "waiting"
    /\ worker' = [worker EXCEPT ![w] = "check"]
    /\ UNCHANGED <<tasks, stop, current, caller, owner, accepted, started, done,
                   refused>>

-----------------------------------------------------------------------------
(* ~ThreadPool                                                             *)

SetStop ==
    /\ owner = "alive"
    /\ stop' = TRUE
    /\ owner' = "notify_all"
    /\ UNCHANGED <<tasks, worker, current, caller, accepted, started, done, refused>>

\* Variant: one thread is notified of the end.
OneWoken == WakeOne

\* condition.notify_all()
WakeAll ==
    worker' = [w \in Worker |-> IF worker[w] = "waiting" THEN "check"
                                                         ELSE worker[w]]

NotifyAll ==
    /\ owner = "notify_all"
    /\ WakeAll
    /\ owner' = "joining"
    /\ UNCHANGED <<tasks, stop, current, caller, accepted, started, done, refused>>

\* All workers were joined.  That no call of enqueue is still in progress when
\* the object goes away is up to the callers.
Join ==
    /\ owner = "joining"
    /\ \A w \in Worker : worker[w] = "exited"
    /\ \A c \in Caller : caller[c] = "idle"
    /\ owner' = "destroyed"
    /\ UNCHANGED <<tasks, stop, worker, current, caller, accepted, started, done,
                   refused>>

Destroyed == owner = "destroyed" /\ UNCHANGED vars

-----------------------------------------------------------------------------

WorkerStep(w) == Wait(w) \/ Take(w) \/ Finish(w) \/ Exit(w)

CallerStep(c) ==
    \/ \E t \in Task : Enqueue(c, t) \/ EnqueueThrows(c, t)
    \/ NotifyOne(c)

OwnerStep == SetStop \/ NotifyAll \/ Join

Next ==
    \/ \E w \in Worker : WorkerStep(w) \/ SpuriousWakeup(w)
    \/ \E c \in Caller : CallerStep(c)
    \/ OwnerStep
    \/ Destroyed

Spec == Init /\ [][Next]_vars

\* Threads are scheduled, the mutex is granted to who waits for it, tasks
\* return, and a call or a destructor that began goes on.  No one has to call,
\* and no one may rely on a spurious wakeup.
Fairness ==
    /\ \A w \in Worker : WF_vars(WorkerStep(w))
    /\ \A c \in Caller : WF_vars(NotifyOne(c))
    /\ WF_vars(NotifyAll)
    /\ WF_vars(Join)

FairSpec == Spec /\ Fairness

-----------------------------------------------------------------------------
(* Properties.                                                             *)

\* Tasks start in the order enqueue accepted them, none is lost and none is
\* taken twice, whichever workers compete for the queue.
FifoOnce == accepted = started \o tasks

\* No sleeping on work: when something is queued and every worker sleeps, a
\* notification is still to come.  notify_one runs after the unlock, so this
\* rests on workers re-checking the predicate before they sleep.
NoLostWakeup ==
    tasks # <<>> /\ (\A w \in Worker : worker[w] = "waiting") =>
        \/ \E c \in Caller : caller[c] = "notify"
        \/ owner = "notify_all"

\* The destructor runs what was accepted before it returns, and a future that
\* enqueue handed out is never left without a result.
DrainedWhenDestroyed ==
    owner = "destroyed" => Elements(accepted) \subseteq done

\* The pool implements Executor.
Exec == INSTANCE Executor WITH
    open <- ~stop,
    backlog <- tasks,
    active <- {current[w] : w \in {v \in Worker : worker[v] = "busy"}},
    finished <- done

ImplementsExecutor == Exec!ExecutorSpec

\* An accepted task is run to its end, whatever the other threads do.
EveryTaskRuns ==
    \A t \in Task : t \in Elements(accepted) ~> t \in done

\* The destructor returns: no worker sleeps through the end.
DestructorReturns == stop ~> owner = "destroyed"
=============================================================================
