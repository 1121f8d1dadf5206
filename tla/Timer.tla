------------------------------- MODULE Timer -------------------------------
(***************************************************************************)
(* src/src/utils/timer.cpp: tasks that one thread executes when they are   *)
(* due, once or again after each period.  The owner starts and stops the   *)
(* timer; tasks are added by any thread, the callbacks included, and a     *)
(* callback may stop the timer that runs it.                               *)
(*                                                                         *)
(* Times are relative to the present: due[t] counts down, and is negative  *)
(* when t is late.  The mutex is held for whole steps, so each step under  *)
(* it is one action.                                                       *)
(*                                                                         *)
(* The names of the specification are other than those of Lifecycle:       *)
(* LifecycleProofs extends both.                                           *)
(***************************************************************************)
EXTENDS Integers

CONSTANTS
    Task,
    NoTime,    \* due of a task that is not in the queue
    MaxDelay,  \* bound of the delays and the periods
    MaxLate    \* bound: no task is later than this

ASSUME TimerAssumption ==
    /\ MaxDelay \in Nat \ {0} /\ MaxLate \in Nat
    /\ NoTime \notin Int

VARIABLES
    due,       \* task_queue_: time that is left, NoTime if not queued
    period,    \* of a periodic task; 0 for one that runs once
    timer_running, \* running_
    thread,    \* where the timer thread is; "none" if timer_thread_ is not joinable
    current,   \* next_task
    woken,     \* the condition was notified since the thread began to wait
    owner,     \* where the thread that starts and stops the timer is
    inside     \* history: a callback has stopped the timer

taskQueue == <<due, period>>
timerVars == <<taskQueue, timer_running, thread, current, woken, owner, inside>>

TimerTypeOK ==
    /\ due \in [Task -> Int \cup {NoTime}]
    /\ period \in [Task -> 0..MaxDelay]
    /\ timer_running \in BOOLEAN
    /\ thread \in {"none", "top", "asleep", "timed", "call", "exited"}
    /\ current \in Task
    /\ woken \in BOOLEAN
    /\ owner \in {"new", "started", "stopping", "stopped", "crashed"}
    /\ inside \in BOOLEAN

TimerInit ==
    /\ due = [t \in Task |-> NoTime]
    /\ period = [t \in Task |-> 0]
    /\ timer_running = FALSE
    /\ thread = "none" /\ current \in Task /\ woken = FALSE
    /\ owner = "new"
    /\ inside = FALSE

QueuedTasks == {t \in Task : due[t] # NoTime}

Waits == thread \in {"asleep", "timed"}

\* task_queue_.top(): equal times leave the choice to the heap.
Earliest == {t \in QueuedTasks : \A u \in QueuedTasks : due[t] <= due[u]}

Present(t) == due[t] <= 0

-----------------------------------------------------------------------------
(* Any thread.                                                             *)

\* Variant: adding a task wakes nobody.
NotNotified == woken

\* notify_one, notify_all: the timer thread is the only one that waits.
Notified == woken \/ Waits

\* addOnceTask (p = 0) and addPeriodicTask.
Add(t, delay, p) ==
    /\ due[t] = NoTime
    /\ due' = [due EXCEPT ![t] = delay]
    /\ period' = [period EXCEPT ![t] = p]
    /\ woken' = Notified
    /\ UNCHANGED <<timer_running, thread, current, owner, inside>>

Tick ==
    /\ \A t \in QueuedTasks : due[t] > -MaxLate
    /\ due' = [t \in Task |-> IF t \in QueuedTasks THEN due[t] - 1 ELSE NoTime]
    /\ UNCHANGED <<period, timer_running, thread, current, woken, owner, inside>>

-----------------------------------------------------------------------------
(* The owner.                                                              *)

AtRest == owner \in {"new", "started", "stopped"}

\* A std::thread that is assigned while it is joinable ends the program.
Start ==
    /\ AtRest
    /\ timer_running' = TRUE
    /\ IF timer_running THEN UNCHANGED <<thread, owner>>
       ELSE IF thread = "none" THEN thread' = "top" /\ owner' = "started"
       ELSE owner' = "crashed" /\ UNCHANGED thread
    /\ UNCHANGED <<taskQueue, current, woken, inside>>

Stop ==
    /\ AtRest
    /\ timer_running' = FALSE
    /\ woken' = Notified
    /\ owner' = "stopping"
    /\ UNCHANGED <<taskQueue, thread, current, inside>>

\* Variant: stop() waits for nobody.
NotAwaited == TRUE

\* joinable() and join() wait for the thread to end.
Ended == thread \in {"none", "exited"}

\* Variant: the thread that ended is not joined.
LeftJoinable == thread

AfterJoin == IF thread = "exited" THEN "none" ELSE thread

StopReturns ==
    /\ owner = "stopping" /\ Ended
    /\ thread' = AfterJoin
    /\ owner' = "stopped"
    /\ UNCHANGED <<taskQueue, timer_running, current, woken, inside>>

-----------------------------------------------------------------------------
(* processTimerTasks                                                       *)

\* Variant: a periodic task comes back at once.
DueAtOnce(t) == IF period[t] = 0 THEN NoTime ELSE due[t]

\* pop; a periodic task is queued again, one period from now.
DueAgain(t) == IF period[t] = 0 THEN NoTime ELSE period[t]

\* pop, push, unlock; the callback begins.
Execute(t) ==
    /\ due' = [due EXCEPT ![t] = DueAgain(t)]
    /\ current' = t
    /\ thread' = "call"

\* The head of the loop: lines 69-89 and, for a task that is due, 112-127.
Top ==
    /\ thread = "top"
    /\ \/ /\ ~timer_running
          /\ thread' = "exited"
          /\ UNCHANGED <<due, current>>
       \/ /\ timer_running /\ QueuedTasks = {}
          /\ thread' = "asleep"
          /\ UNCHANGED <<due, current>>
       \/ /\ timer_running
          /\ \E t \in Earliest :
                IF Present(t) THEN Execute(t)
                ELSE thread' = "timed" /\ current' = t /\ UNCHANGED due
    /\ woken' = FALSE
    /\ UNCHANGED <<period, timer_running, owner, inside>>

\* wait with a predicate
Wake ==
    /\ thread = "asleep" /\ woken
    /\ woken' = FALSE
    /\ thread' = IF ~timer_running \/ QueuedTasks # {} THEN "top" ELSE "asleep"
    /\ UNCHANGED <<taskQueue, timer_running, current, owner, inside>>

\* Variant: the task that was read before the wait is executed.
StaleTop == {current}

FreshTop == Earliest

\* After wait_until everything is read anew.
Recheck ==
    /\ thread = "timed"
    /\ \/ /\ ~timer_running
          /\ thread' = "exited"
          /\ UNCHANGED <<due, current>>
       \/ /\ timer_running /\ QueuedTasks = {}
          /\ thread' = "top"
          /\ UNCHANGED <<due, current>>
       \/ /\ timer_running
          /\ \E t \in FreshTop :
                IF Present(t) THEN Execute(t)
                ELSE thread' = "top" /\ current' = t /\ UNCHANGED due
    /\ woken' = FALSE
    /\ UNCHANGED <<period, timer_running, owner, inside>>

\* Notified, or the time of the task that was read before the wait has come.
\* (It is still queued: only this thread takes tasks off the queue.)
WakeTimed == Recheck /\ (woken \/ Present(current))

Spurious == Recheck

\* The callback returns or raises a std::exception.
Returned ==
    /\ thread = "call"
    /\ thread' = "top"
    /\ UNCHANGED <<taskQueue, timer_running, current, woken, owner, inside>>

\* The callback calls stop(): a thread cannot join itself, the exception is
\* caught by the loop, and the thread stays joinable.
StopInside ==
    /\ thread = "call"
    /\ timer_running' = FALSE
    /\ inside' = TRUE
    /\ thread' = "top"
    /\ UNCHANGED <<taskQueue, current, woken, owner>>

-----------------------------------------------------------------------------

Working == Top \/ Wake \/ WakeTimed \/ Returned

TimerNext ==
    \/ /\ owner # "crashed"
       /\ \/ \E t \in Task, delay \in 0..MaxDelay, p \in 0..MaxDelay : Add(t, delay, p)
          \/ Tick
          \/ Start \/ Stop \/ StopReturns
          \/ Working \/ Spurious \/ StopInside
    \/ owner = "crashed" /\ UNCHANGED timerVars

TimerSpec == TimerInit /\ [][TimerNext]_timerVars

\* Time passes, the timer thread is scheduled, callbacks return, and stop()
\* goes on once it began.
TimerFairness ==
    /\ WF_timerVars(owner # "crashed" /\ Tick)
    /\ WF_timerVars(owner # "crashed" /\ Working)
    /\ WF_timerVars(owner # "crashed" /\ StopReturns)

FairTimerSpec == TimerSpec /\ TimerFairness

-----------------------------------------------------------------------------
(* Properties.                                                             *)

\* A callback that begins was due, and none that was queued, also while the
\* thread slept with another task in mind, was due before it.
EarliestFirst ==
    [][thread # "call" /\ thread' = "call" =>
        /\ current' \in QueuedTasks /\ Present(current')
        /\ \A u \in QueuedTasks : due[current'] <= due[u]]_timerVars

\* Once stop() has returned no callback is running and none begins until the
\* timer is started again: what the callbacks use may be destroyed.
StoppedIsQuiet == owner = "stopped" => thread = "none" /\ ~timer_running

\* Starting, stopping and starting again, in any order and however often,
\* never meets a thread that was not joined, unless a callback has stopped
\* the timer.
RestartIsSafe == owner = "crashed" => inside

\* The thread does not sleep over a task: while it waits without a time
\* limit the queue is empty, and while it waits for one task no other is due
\* before that one, or else it has been notified.
NothingSleptOver ==
    timer_running =>
        /\ thread = "asleep" => QueuedTasks = {} \/ woken
        /\ thread = "timed" => current \in Earliest \/ woken

\* Every queued task of a started timer is executed, whatever periodic tasks
\* come back while the thread is late, unless the timer is stopped first.
QueuedTaskRuns ==
    \A t \in Task :
        (due[t] # NoTime /\ owner = "started" /\ timer_running) ~>
            (thread = "call" /\ current = t) \/ owner # "started" \/ ~timer_running
=============================================================================
