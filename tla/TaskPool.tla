-------------------------------- MODULE TaskPool --------------------------------
(***************************************************************************)
(* What a scheduler promises to those who use it, without its list, its    *)
(* threads' states and its wake-ups: a task that was handed in is run once *)
(* and by a thread it may run on, and the pool is over only when nothing   *)
(* is left.  WakeUps is shown to implement it.                             *)
(***************************************************************************)
CONSTANTS
    Tasks,
    Threads,
    MayRun(_, _)   \* MayRun(k, th): the task is for any thread or for this one

VARIABLES
    waiting,   \* tasks handed in and not started
    runner,    \* the thread that runs each started task
    finished,  \* tasks that are over
    over       \* stop() may return

poolVars == <<waiting, runner, finished, over>>

PoolInit ==
    /\ waiting = {}
    /\ runner = [k \in {} |-> {}]
    /\ finished = {}
    /\ over = FALSE

Submit(k) ==
    /\ ~ over
    /\ k \notin waiting \union DOMAIN runner \union finished
    /\ waiting' = waiting \union {k}
    /\ UNCHANGED <<runner, finished, over>>

Start(k, th) ==
    /\ k \in waiting
    /\ MayRun(k, th)
    /\ \A j \in DOMAIN runner : runner[j] # th
    /\ waiting' = waiting \ {k}
    /\ runner' = [j \in DOMAIN runner \union {k} |-> IF j = k THEN th ELSE runner[j]]
    /\ UNCHANGED <<finished, over>>

Finish(k) ==
    /\ k \in DOMAIN runner
    /\ runner' = [j \in DOMAIN runner \ {k} |-> runner[j]]
    /\ finished' = finished \union {k}
    /\ UNCHANGED <<waiting, over>>

End ==
    /\ waiting = {} /\ DOMAIN runner = {}
    /\ over' = TRUE
    /\ UNCHANGED <<waiting, runner, finished>>

PoolNext ==
    \/ \E k \in Tasks : Submit(k) \/ Finish(k)
    \/ \E k \in Tasks, th \in Threads : Start(k, th)
    \/ End

PoolSpec == PoolInit /\ [][PoolNext]_poolVars
================================================================================
