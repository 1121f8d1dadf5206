------------------------------ MODULE Executor ------------------------------
(***************************************************************************)
(* What a pool of threads promises the code that hands it work: accepted   *)
(* tasks start in the order they were accepted, each one once; after the   *)
(* pool is closed it accepts nothing and still runs what it had accepted.  *)
(* ThreadPool implements this specification.                               *)
(***************************************************************************)
EXTENDS Sequences

CONSTANTS Task

VARIABLES
    open,      \* work is accepted
    backlog,   \* accepted and not started, oldest first
    active,    \* started and not finished
    finished

executorVars == <<open, backlog, active, finished>>

ExecutorInit ==
    /\ open = TRUE
    /\ backlog = <<>>
    /\ active = {}
    /\ finished = {}

Submit(t) ==
    /\ open
    /\ t \notin active \cup finished
    /\ \A i \in DOMAIN backlog : backlog[i] # t
    /\ backlog' = Append(backlog, t)
    /\ UNCHANGED <<open, active, finished>>

Start ==
    /\ backlog # <<>>
    /\ active' = active \cup {Head(backlog)}
    /\ backlog' = Tail(backlog)
    /\ UNCHANGED <<open, finished>>

Finish(t) ==
    /\ t \in active
    /\ active' = active \ {t}
    /\ finished' = finished \cup {t}
    /\ UNCHANGED <<open, backlog>>

Close ==
    /\ open
    /\ open' = FALSE
    /\ UNCHANGED <<backlog, active, finished>>

ExecutorNext ==
    \/ \E t \in Task : Submit(t) \/ Finish(t)
    \/ Start
    \/ Close

ExecutorSpec == ExecutorInit /\ [][ExecutorNext]_executorVars
=============================================================================
